----------------------------- MODULE MCBmcTask -----------------------------
(* Instances of BmcTask for TLC: see the BmcTask*.cfg files. *)
EXTENDS BmcTask
=============================================================================
