-------------------------------- MODULE Otp --------------------------------
(***************************************************************************)
(* What TIP burns into its fuses when it boots, and what it reads back.    *)
(*                                                                         *)
(* - tip_update_device_prop burns REG_CFG_TABLE, a table of registers that *)
(*   the ROM writes at power on, then the pointer the ROM finds it by.     *)
(* - tip_invalidate_otp_keys burns the keys that the KMT revokes into      *)
(*   FUSTRAP2, three copies of one mask that are read by majority.         *)
(* - a public key is read through a Hamming code of 64 data and 8 check    *)
(*   bits (FUSE_64_72_SECDEC).                                             *)
(*                                                                         *)
(* A fuse only goes from 0 to 1.  Power may fail between any two fuses, a  *)
(* fuse may fail to take, and an old fuse may read wrong.  All accesses go *)
(* through one static buffer, fuse_encoded, and one address register       *)
(* without a lock: while cerberus_init burns the mask, the BMC task, which *)
(* may load an encrypted image again, reads there whether the device has   *)
(* an AES key.                                                             *)
(***************************************************************************)
EXTENDS Integers, FiniteSets, FiniteSetsExt, Functions

CONSTANTS
  Manifests,   \* the keys that a KMT revokes and the key it was booted with
  Junk,        \* the AES key flag, as it lies over the first mask in the buffer
  Word,        \* the data bits of a public key that are 1: one word of it
  Bytes,       \* bytes of REG_CFG_TABLE and of the pointer, which is the last
  MaxCuts,     \* bound: power failures
  MaxRefused,  \* bound: fuses that do not take
  MaxWrong     \* bound: bits of a word that read wrong at once

Keys   == (UNION {m.mask : m \in Manifests}) \union Junk
Copies == 1..3
Off    == "off"

ASSUME OtpAssumption ==
  /\ \A m \in Manifests : m.mask \subseteq Nat /\ m.last \in Nat
  /\ Word \subseteq 1..64
  /\ Bytes \in Nat \ {0} /\ MaxCuts \in Nat /\ MaxRefused \in Nat
  /\ MaxWrong \in Nat

VARIABLES
  fustrap2,  \* the three copies of the mask of revoked keys
  burnt,     \* the bytes of REG_CFG_TABLE and of the pointer that are burnt
  regs,      \* 1 while the registers hold the values, until power fails
  kmt,       \* the member of Manifests that this boot runs with
  encoded,   \* fuse_encoded: the byte of each copy
  addr,      \* FADDR: the copy it points into, 0: somewhere else
  pc,        \* where cerberus_init is
  i,         \* the byte it burns
  todo,      \* the bits it still has to burn there
  count,     \* rounds left of tip_update_device_prop
  failed,    \* 1 once a fuse of this round did not take
  key,       \* what the last reading of the public key gave, <<>>: erased
  cuts, refused,
  asked,     \* history: the keys that TIP set out to revoke
  slips      \* history: disturbances while the mask was burnt, at most 2

fuses == <<fustrap2, burnt>>
vars  == <<fustrap2, burnt, regs, kmt, encoded, addr, pc, i, todo, count,
           failed, key, cuts, refused, asked, slips>>

----------------------------------------------------------------------------
(* FUSE_64_72_SECDEC: the data bits are at the positions of a Hamming code
   that are no powers of two, the check bits 1 to 7 at the powers of two;
   check bit 8 is the parity of the data. *)
Position == [n \in 1..64 |-> CASE n = 1        -> n + 2
                              [] n \in 2..4   -> n + 3
                              [] n \in 5..11  -> n + 4
                              [] n \in 12..26 -> n + 5
                              [] n \in 27..57 -> n + 6
                              [] OTHER        -> n + 7]
Weight  == <<1, 2, 4, 8, 16, 32, 64>>
Bits(p) == {c \in 1..7 : (p \div Weight[c]) % 2 = 1}
Covered == [c \in 1..7 |-> {n \in 1..64 : c \in Bits(Position[n])}]
Odd(S)  == Cardinality(S) % 2 = 1

FUSE_get_CRC(data) ==
  {c \in 1..7 : Odd(data \intersect Covered[c])}
    \union (IF Odd(data) THEN {8} ELSE {})

(* The check bits 1 to 7 as a number. *)
Value(c, bits) == IF c \in bits THEN Weight[c] ELSE 0
Syndrome(bits) ==
  Value(1, bits) + Value(2, bits) + Value(3, bits) + Value(4, bits)
    + Value(5, bits) + Value(6, bits) + Value(7, bits)

(* The bit that a syndrome names, counted from 0: one less for each check
   bit before it. *)
Skip(e, power) == IF e >= power THEN e - 1 ELSE e
Skipped(e) == Skip(Skip(Skip(Skip(Skip(Skip(e, 64), 32), 16), 8), 4), 2)
WrongErrorBit(syndrome) == Skipped(syndrome - 1)
ErrorBit(syndrome) == Skip(Skipped(syndrome - 1), 1)

(* An error in one bit of the code is taken for a check bit; with the parity
   it names a data bit (one past 64 is in the next word); without the parity
   it is a double error, and the data are returned as they are. *)
Decode(data, crc) ==
  LET error == SymDiff(FUSE_get_CRC(data), crc)
      bit   == ErrorBit(Syndrome(error)) + 1
  IN  IF Cardinality(error) <= 1 THEN <<data, "ok">>
      ELSE IF 8 \notin error THEN <<data, "bad checksum">>
      ELSE <<SymDiff(data, {bit} \intersect (1..64)), "ok">>

(* The word as its fuses read when those in wrong read wrong. *)
Fused(wrong) ==
  Decode(SymDiff(Word, wrong \intersect (1..64)),
         SymDiff(FUSE_get_CRC(Word), {b - 64 : b \in wrong \ (1..64)}))

(* What a reading may give; 0 stands for no bit. *)
Reads == {Fused(Range(f) \ {0}) : f \in [1..MaxWrong -> 0..72]}

(* FUSE_MajRulEccDecode *)
WrongMajority(c) == (c[2] \union (c[1] \union c[3])) \union (c[1] \intersect c[3])
Majority(c) == (c[2] \intersect (c[1] \union c[3])) \union (c[1] \intersect c[3])

(* FUSE_MajRulEccEncode *)
WrongEncode(mask) == [c \in Copies |-> IF c = 3 THEN {} ELSE mask]
Encode(mask) == [c \in Copies |-> mask]

Zero == Encode({})

----------------------------------------------------------------------------
Init ==
  /\ fustrap2 = Zero /\ burnt = {} /\ regs = 0 /\ kmt \in Manifests
  /\ encoded = Zero /\ addr = 0 /\ pc = Off /\ i = 1 /\ todo = {}
  /\ count = 2 /\ failed = 0 /\ key = <<>>
  /\ cuts = 0 /\ refused = 0 /\ asked = {} /\ slips = 0

(* What is in RAM starts from its initial value. *)
Fresh ==
  /\ encoded' = Zero /\ addr' = 0 /\ i' = 1 /\ todo' = {}
  /\ count' = 2 /\ failed' = 0 /\ key' = <<>> /\ slips' = 0

(* TIP starts: L0 leaves the mask of the KMT in a scratch register. *)
Boot ==
  /\ kmt' \in Manifests /\ pc' = "patch"
  /\ Fresh
  /\ UNCHANGED <<fuses, cuts, refused, asked>>

(* The ROM writes the registers if it finds the table whole. *)
PowerOn ==
  /\ pc = Off
  /\ regs' = IF burnt = 1..Bytes THEN 1 ELSE 0
  /\ Boot

PowerFails ==
  /\ pc # Off /\ cuts < MaxCuts
  /\ cuts' = cuts + 1 /\ pc' = Off /\ regs' = 0
  /\ Fresh
  /\ UNCHANGED <<fuses, kmt, refused, asked>>

(* A reset of TIP keeps the registers. *)
TipReset ==
  /\ pc = "running"
  /\ UNCHANGED regs
  /\ Boot

----------------------------------------------------------------------------
(* tip_update_device_prop.  Nothing to do when the registers hold the values;
   a chip that is new gets the registers, but no fuse. *)
SkipPatch ==
  /\ pc = "patch"
  /\ pc' = "mask"
  /\ regs' = 1
  /\ UNCHANGED <<fuses, kmt, encoded, addr, i, todo, count, failed, key, cuts,
                 refused, asked, slips>>

WrongWritten == regs
Written == 1

StartPatch ==
  /\ pc = "patch" /\ regs = 0
  /\ regs' = Written
  /\ pc' = "table"
  /\ UNCHANGED <<fuses, kmt, encoded, addr, i, todo, count, failed, key, cuts,
                 refused, asked, slips>>

(* FUSE_ProgramByte of one byte of the patch: a bit of it may not take. *)
BurnPatch ==
  /\ pc = "table" /\ i <= Bytes
  /\ i' = i + 1
  /\ \/ burnt' = burnt \union {i} /\ UNCHANGED <<failed, refused>>
     \/ /\ i \notin burnt /\ refused < MaxRefused
        /\ refused' = refused + 1 /\ failed' = 1
        /\ UNCHANGED burnt
  /\ UNCHANGED <<fustrap2, regs, kmt, encoded, addr, pc, todo, count, key, cuts,
                 asked, slips>>

(* A round that burnt all of it resets TIP, once the registers hold. *)
PatchDone ==
  /\ pc = "table" /\ i > Bytes /\ failed = 0
  /\ UNCHANGED regs
  /\ Boot

WrongLastRound == count = 0
LastRound == count = 1

NextRound ==
  /\ pc = "table" /\ i > Bytes /\ failed = 1
  /\ count' = count - 1 /\ i' = 1
  /\ IF LastRound THEN pc' = "mask" /\ UNCHANGED failed
                  ELSE failed' = 0 /\ UNCHANGED pc
  /\ UNCHANGED <<fuses, regs, kmt, encoded, addr, todo, key, cuts, refused,
                 asked, slips>>

----------------------------------------------------------------------------
(* tip_invalidate_otp_keys: only keys before the one that was booted with. *)
Legal(m) == \A k \in m.mask : k < m.last

(* Nothing to revoke. *)
NoMask ==
  /\ pc = "mask" /\ kmt.mask = {}
  /\ pc' = "running"
  /\ UNCHANGED <<fuses, regs, kmt, encoded, addr, i, todo, count, failed, key,
                 cuts, refused, asked, slips>>

(* An error: cerberus_init resets TIP. *)
RefuseMask ==
  /\ pc = "mask" /\ ~Legal(kmt)
  /\ UNCHANGED regs
  /\ Boot

StartMask ==
  /\ pc = "mask" /\ kmt.mask # {} /\ Legal(kmt)
  /\ encoded' = Encode(kmt.mask)
  /\ i' = 1 /\ pc' = "byte"
  /\ asked' = asked \union kmt.mask
  /\ UNCHANGED <<fuses, regs, kmt, addr, todo, count, failed, key, cuts,
                 refused, slips>>

(* FUSE_ProgramByte takes the byte of the buffer, and FUSE_Read, which it calls
   first, sets the address. *)
NextByte ==
  /\ pc = "byte" /\ i \in Copies
  /\ todo' = encoded[i]
  /\ addr' = i /\ pc' = "read"
  /\ UNCHANGED <<fuses, regs, kmt, encoded, i, count, failed, key, cuts, refused,
                 asked, slips>>

(* It burns what is missing in what it reads: the fuses, or if the address was
   moved, the AES key flag or the cleared data register. *)
ReadByte ==
  /\ pc = "read"
  /\ \E read \in IF addr = i THEN {fustrap2[i]} ELSE {{}, Junk} : todo' = todo \ read
  /\ IF todo' = {} THEN i' = i + 1 /\ pc' = "byte"
                   ELSE pc' = "bit" /\ UNCHANGED i
  /\ UNCHANGED <<fuses, regs, kmt, encoded, addr, count, failed, key, cuts,
                 refused, asked, slips>>

(* FUSE_ProgramBit: the address, then the pulse.  The bits of a byte may come
   in any order here; the code goes from the lowest to the highest. *)
SetAddress ==
  /\ pc = "bit"
  /\ addr' = i /\ pc' = "pulse"
  /\ UNCHANGED <<fuses, regs, kmt, encoded, i, todo, count, failed, key, cuts,
                 refused, asked, slips>>

Slip == IF slips < 2 THEN slips + 1 ELSE 2

Pulse ==
  /\ pc = "pulse"
  /\ \E bit \in todo :
       /\ todo' = todo \ {bit}
       /\ \/ /\ fustrap2' = IF addr = i
                            THEN [fustrap2 EXCEPT ![i] = @ \union {bit}]
                            ELSE fustrap2
             /\ UNCHANGED <<refused, slips>>
          \/ /\ refused < MaxRefused
             /\ refused' = refused + 1 /\ slips' = Slip
             /\ UNCHANGED fustrap2
  /\ IF todo' = {} THEN pc' = "byte" /\ i' = i + 1
                   ELSE pc' = "bit" /\ UNCHANGED i
  /\ UNCHANGED <<burnt, regs, kmt, encoded, addr, count, failed, key, cuts,
                 asked>>

(* The status of the burning is not read. *)
MaskDone ==
  /\ pc = "byte" /\ i = 4
  /\ pc' = "running"
  /\ UNCHANGED <<fuses, regs, kmt, encoded, addr, i, todo, count, failed, key,
                 cuts, refused, asked, slips>>

(* The BMC task reads TIP_AES_KEY0_VALID: two bytes of the buffer, and the
   address is left in a block that is closed to programming. *)
ReadAesFlag ==
  /\ pc \in {"byte", "read", "bit", "pulse"}
  /\ encoded' = [encoded EXCEPT ![1] = Junk]
  /\ addr' = 0
  /\ slips' = Slip
  /\ UNCHANGED <<fuses, regs, kmt, pc, i, todo, count, failed, key, cuts,
                 refused, asked>>

(* The update task verifies a KMT with a key of the OTP, and erases it. *)
ReadKey ==
  /\ pc = "running" /\ key = <<>>
  /\ key' \in Reads
  /\ UNCHANGED <<fuses, regs, kmt, encoded, addr, pc, i, todo, count, failed,
                 cuts, refused, asked, slips>>

EraseKey ==
  /\ key # <<>>
  /\ key' = <<>>
  /\ UNCHANGED <<fuses, regs, kmt, encoded, addr, pc, i, todo, count, failed,
                 cuts, refused, asked, slips>>

CerberusInit ==
  \/ SkipPatch \/ StartPatch \/ BurnPatch \/ PatchDone \/ NextRound
  \/ NoMask \/ RefuseMask \/ StartMask \/ NextByte \/ ReadByte \/ SetAddress
  \/ Pulse \/ MaskDone

Next == \/ PowerOn \/ PowerFails \/ TipReset \/ CerberusInit
        \/ ReadAesFlag \/ ReadKey \/ EraseKey

Spec == Init /\ [][Next]_vars

(* TIP is powered again, and goes on. *)
FairSpec == Spec /\ WF_vars(PowerOn) /\ WF_vars(CerberusInit)

----------------------------------------------------------------------------
(* Properties *)

(* Types and ranges: the rounds do not run below zero, the bytes are those of
   the patch or of the three copies. *)
TypeOK ==
  /\ fustrap2 \in [Copies -> SUBSET Keys] /\ encoded \in [Copies -> SUBSET Keys]
  /\ burnt \subseteq 1..Bytes /\ regs \in {0, 1} /\ kmt \in Manifests
  /\ addr \in 0..3 /\ todo \subseteq Keys /\ asked \subseteq Keys
  /\ pc \in {Off, "patch", "table", "mask", "byte", "read", "bit", "pulse", "running"}
  /\ i \in 1..(IF pc = "table" THEN Bytes + 1 ELSE 4)
  /\ pc = "patch" => i = 1 /\ count = 2
  /\ pc \in {"read", "bit", "pulse"} => i \in Copies
  /\ count \in 0..2 /\ failed \in {0, 1} /\ slips \in 0..2
  /\ pc = "table" => count # 0
  /\ cuts \in 0..MaxCuts /\ refused \in 0..MaxRefused
  /\ key \in {<<>>} \union Reads

(* A key reads as it was burnt though one of the 72 bits of its word reads
   wrong: FUSE_64_72_SECDEC_Decode names the right bit, whichever it is. *)
KeyReadable == key = <<>> \/ key = <<Word, "ok">>

(* Wherever power fails, whatever the BMC task reads meanwhile, no key reads
   as revoked that no manifest asked for; and a boot that got through the
   burning with one disturbance at most, a fuse that did not take or a read
   of the AES flag, has revoked all that was asked. *)
RevokedAsAsked ==
  /\ Majority(fustrap2) \subseteq asked
  /\ pc = "running" /\ slips <= 1 => kmt.mask \subseteq Majority(fustrap2)

(* Burning the patch does not keep TIP from booting: whatever fuses fail and
   whenever power fails, cerberus_init gets to its end, unless the manifest is
   one that it refuses ("fail to program OTP is not a show stopper"). *)
Boots == pc = "patch" ~> (pc = "running" \/ ~Legal(kmt))

(* As the description of FUSE_64_72_SECDEC_Decode has it: two wrong bits are
   reported, they are never taken for data that are right. *)
DoubleDetected == key # <<>> /\ key[2] = "ok" => key[1] = Word
=============================================================================
