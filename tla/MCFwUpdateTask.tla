--------------------------- MODULE MCFwUpdateTask ---------------------------
(***************************************************************************)
(* Small instances of FwUpdateTask: one requester of each kind, one good   *)
(* and one bad image, a staging area of two chunks, so that a copy and a   *)
(* verification can be interrupted half way.                               *)
(***************************************************************************)
EXTENDS FwUpdateTask
=============================================================================
