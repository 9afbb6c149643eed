-------------------------- MODULE MCResetCounters --------------------------
(* Instances of ResetCounters for TLC: see the ResetCounters*.cfg files. *)
EXTENDS ResetCounters
=============================================================================
