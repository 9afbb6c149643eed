------------------------------- MODULE MCKernel -------------------------------
(* Instances of Kernel for TLC: three tasks with the priorities 3, 2 and 1. *)
EXTENDS Kernel

MCBase == [hi |-> 3, mid |-> 2, low |-> 1, idle |-> 0]

(* hi takes the mutex with a time-out and waits for notifications; mid is
   periodic, as twd_task is, and takes the mutex; low takes it when it is free,
   sleeps and notifies. *)
MCCalls ==
  [hi   |-> [take |-> {2}, wait |-> {Forever}],
   mid  |-> [take |-> {Forever}, until |-> {2}],
   low  |-> [take |-> {0}, delay |-> {1}, notify |-> {0}],
   idle |-> <<>>]

(* For two mutexes and Nesting = {"mid"}: mid takes both, in the order of
   shared_hash and the mutex of the NCL, the others one at a time.  HighestRuns
   and Inherited fail here. *)
MCNested ==
  [hi   |-> [take |-> {Forever}, wait |-> {Forever}],
   mid  |-> [take |-> {Forever}, delay |-> {1}],
   low  |-> [take |-> {Forever}],
   idle |-> <<>>]
===============================================================================
