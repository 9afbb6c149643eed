------------------------------- MODULE MCOtp -------------------------------
(* Instances of Otp for TLC: see Otp.cfg and OtpDouble.cfg. *)
EXTENDS Otp

(* Nothing to revoke, one key, another and the first, and a mask that holds
   the key it was booted with. *)
MCManifests == {[mask |-> {}, last |-> 0], [mask |-> {1}, last |-> 2],
                [mask |-> {1, 2}, last |-> 3], [mask |-> {2}, last |-> 2]}
NoMasks == {[mask |-> {}, last |-> 0]}
MCJunk  == {0, 1}
MCWord  == {1, 2, 5, 11, 12, 27, 40, 57, 58, 63}
=============================================================================
