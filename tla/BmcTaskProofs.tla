--------------------------- MODULE BmcTaskProofs ---------------------------
(* Proofs about BmcTask: for any number of attempts at the bootblock, any    *)
(* requests and any resets but one, a reset of the BMC between the end of    *)
(* its training and the first bmc_continue.  With that one the code does     *)
(* start a second loader.                                                    *)
(*                                                                           *)
(* The argument: while cerberus_init boots the BMC for the first time,       *)
(* bmc_task_loop can leave its idle state only for a reset of a BMC that is  *)
(* marked DDR_READY.  It is marked so only after its bootblock has passed;   *)
(* a bootblock that passes has outlasted the notification of any reset       *)
(* before it, and a trained BMC is not reset again (FirstBoot).  From then   *)
(* on bmc_task_loop is the only loader, so what it has verified stays in     *)
(* place until it lets the BMC jump.                                         *)
EXTENDS BmcTask, TLAPS

InitPc == LoaderPc \ {"idle", "rearm", "execute"}
TaskPc == LoaderPc \ {"initialise", "done"}

Trying == {"disable", "release", "startWd", "wait", "passed", "ended"}
Loaded == {"copy", "verify", "initialise", "trust", "continue", "open"}

(* Attempts are left while one is being made. *)
AttemptInv ==
  /\ lpc["init"] \in InitPc /\ lpc["task"] \in TaskPc
  /\ \A l \in Loader : lpc[l] \in Trying => tries[l] > 0

(* cerberus_init boots the BMC: nobody else does, and once the bootblock has
   passed no reset is pending or on its way to bmc_task_loop. *)
FirstBoot ==
  /\ lpc["task"] = "idle"
  /\ \A w \in Finisher : fin[w] = "none"
  /\ en2 = 0 /\ notif \in {"none", "RESET"}
  /\ lpc["init"] \in Loaded => state = "DDR_READY"
  /\ lpc["init"] = "passed" => post = "pass"
  /\ state = "DDR_READY" => post = "pass" /\ lpc["init"] \in Loaded \cup {"ended"}
  /\ post = "pass" => /\ notif = "none" /\ pend46 = 0
                      /\ bmc \in {"trained", "next"}
  /\ bmc = "next" => lpc["init"] = "open"
  /\ lpc["init"] \in {"bootblock", "mute"} => bmc = "held" /\ post = "none"

FirstInv == lpc["init"] # "done" => FirstBoot

(* bmc_task_loop finishes a command where it executed it. *)
FinishInv == fin["task"] # "none" => lpc["task"] = "execute"

(* What a loader has verified is what DDR holds until the BMC jumps. *)
VerifiedInv ==
  \A l \in Loader : lpc[l] \in {"initialise", "trust", "continue"} => ddr = "verified"

IInv == TypeOK /\ AttemptInv /\ FirstInv /\ FinishInv /\ VerifiedInv /\ Distrusted

THEOREM InvInit == Init => IInv
  BY RetriesAssumption
  DEF Init, IInv, TypeOK, AttemptInv, FirstInv, FirstBoot, FinishInv, VerifiedInv, Distrusted,
      Reloading, LoaderPc, InitPc, TaskPc, Trying, Loaded, Loader, Finisher, Image, Kind

(* A reset of the TIP is a start from an image. *)
LEMMA RebootStep == ASSUME IInv, Reboot PROVE IInv'
  BY RetriesAssumption
  DEF Reboot, IInv, TypeOK, AttemptInv, FirstInv, FirstBoot, FinishInv, VerifiedInv, Distrusted,
      Reloading, LoaderPc, InitPc, TaskPc, Trying, Loaded, Loader, Finisher, Image, Kind

-----------------------------------------------------------------------------
(* A step of loader l keeps the invariant. *)
LEMMA LoadStep ==
  ASSUME IInv, NEW l \in Loader, Load(l), "initTrained" \notin ResetIn
  PROVE  IInv'
  <1>1. CASE LoadBootblock(l)
    BY <1>1, RetriesAssumption
    DEF LoadBootblock, Goto, bmcVars, intVars, cmdVars, imageVars,
        IInv, TypeOK, AttemptInv, FirstInv, FirstBoot, FinishInv, VerifiedInv, Distrusted,
        Reloading, LoaderPc, InitPc, TaskPc, Trying, Loaded, Loader, Finisher, Image, Kind
  <1>2. CASE Refused(l)
    BY <1>2, RebootStep DEF Refused
  <1>3. CASE Mute(l)
    BY <1>3, RetriesAssumption
    DEF Mute, Goto, bmcVars, intVars, cmdVars, imageVars,
        IInv, TypeOK, AttemptInv, FirstInv, FirstBoot, FinishInv, VerifiedInv, Distrusted,
        Reloading, LoaderPc, InitPc, TaskPc, Trying, Loaded, Loader, Finisher, Image, Kind
  <1>4. CASE Disable(l)
    BY <1>4, RetriesAssumption
    DEF Disable, Goto, bmcVars, intVars, cmdVars, imageVars,
        IInv, TypeOK, AttemptInv, FirstInv, FirstBoot, FinishInv, VerifiedInv, Distrusted,
        Reloading, LoaderPc, InitPc, TaskPc, Trying, Loaded, Loader, Finisher, Image, Kind
  <1>5. CASE Release(l)
    BY <1>5, RetriesAssumption
    DEF Release, Goto, bmcVars, intVars, cmdVars, imageVars,
        IInv, TypeOK, AttemptInv, FirstInv, FirstBoot, FinishInv, VerifiedInv, Distrusted,
        Reloading, LoaderPc, InitPc, TaskPc, Trying, Loaded, Loader, Finisher, Image, Kind
  <1>6. CASE StartWd(l)
    BY <1>6, RetriesAssumption
    DEF StartWd, Goto, bmcVars, intVars, cmdVars, imageVars,
        IInv, TypeOK, AttemptInv, FirstInv, FirstBoot, FinishInv, VerifiedInv, Distrusted,
        Reloading, LoaderPc, InitPc, TaskPc, Trying, Loaded, Loader, Finisher, Image, Kind
  <1>7. CASE Polled(l)
    BY <1>7, RetriesAssumption
    DEF Polled, Goto, BootblockOver, bmcVars, intVars, cmdVars, imageVars,
        IInv, TypeOK, AttemptInv, FirstInv, FirstBoot, FinishInv, VerifiedInv, Distrusted,
        Reloading, LoaderPc, InitPc, TaskPc, Trying, Loaded, Loader, Finisher, Image, Kind
  <1>8. CASE Passed(l)
    BY <1>8, RetriesAssumption
    DEF Passed, Goto, bmcVars, intVars, cmdVars, imageVars,
        IInv, TypeOK, AttemptInv, FirstInv, FirstBoot, FinishInv, VerifiedInv, Distrusted,
        Reloading, LoaderPc, InitPc, TaskPc, Trying, Loaded, Loader, Finisher, Image, Kind
  <1>9. CASE Ended(l)
    BY <1>9, RetriesAssumption
    DEF Ended, Goto, LastTry, bmcVars, intVars, cmdVars, imageVars,
        IInv, TypeOK, AttemptInv, FirstInv, FirstBoot, FinishInv, VerifiedInv, Distrusted,
        Reloading, LoaderPc, InitPc, TaskPc, Trying, Loaded, Loader, Finisher, Image, Kind
  <1>10. CASE GiveUp(l)
    BY <1>10, RebootStep DEF GiveUp
  <1>11. CASE Copy(l)
    BY <1>11, RetriesAssumption
    DEF Copy, Goto, AfterCopy, bmcVars, intVars, cmdVars, imageVars,
        IInv, TypeOK, AttemptInv, FirstInv, FirstBoot, FinishInv, VerifiedInv, Distrusted,
        Reloading, LoaderPc, InitPc, TaskPc, Trying, Loaded, Loader, Finisher, Image, Kind
  <1>12. CASE Verify(l)
    BY <1>12, RetriesAssumption
    DEF Verify, Goto, bmcVars, intVars, cmdVars, imageVars,
        IInv, TypeOK, AttemptInv, FirstInv, FirstBoot, FinishInv, VerifiedInv, Distrusted,
        Reloading, LoaderPc, InitPc, TaskPc, Trying, Loaded, Loader, Finisher, Image, Kind
  <1>13. CASE Trust(l)
    BY <1>13, RetriesAssumption
    DEF Trust, Goto, bmcVars, intVars, cmdVars, imageVars,
        IInv, TypeOK, AttemptInv, FirstInv, FirstBoot, FinishInv, VerifiedInv, Distrusted,
        Reloading, LoaderPc, InitPc, TaskPc, Trying, Loaded, Loader, Finisher, Image, Kind
  <1>14. CASE Continue(l)
    BY <1>14, RetriesAssumption
    DEF Continue, Goto, bmcVars, intVars, cmdVars, imageVars,
        IInv, TypeOK, AttemptInv, FirstInv, FirstBoot, FinishInv, VerifiedInv, Distrusted,
        Reloading, LoaderPc, InitPc, TaskPc, Trying, Loaded, Loader, Finisher, Image, Kind
  <1>15. CASE Open(l)
    BY <1>15, RetriesAssumption
    DEF Open, Goto, Cleared2, bmcVars, intVars, cmdVars, imageVars,
        IInv, TypeOK, AttemptInv, FirstInv, FirstBoot, FinishInv, VerifiedInv, Distrusted,
        Reloading, LoaderPc, InitPc, TaskPc, Trying, Loaded, Loader, Finisher, Image, Kind
  <1>16. QED
    BY <1>1, <1>2, <1>3, <1>4, <1>5, <1>6, <1>7, <1>8,
       <1>9, <1>10, <1>11, <1>12, <1>13, <1>14, <1>15 DEF Load

(* So does every other step. *)
LEMMA OtherStep ==
  ASSUME IInv, "initTrained" \notin ResetIn,
         Initialise \/ Rearm \/ Loop \/ ResetHandler \/ DirectHandler \/
         LeaveHandler \/ GpioHandler \/ Train \/ BmcReset \/ Send \/ UNCHANGED vars
  PROVE  IInv'
  <1>1. CASE Initialise
    BY <1>1, RequestsAssumption
    DEF Initialise, Goto, bmcVars, intVars, cmdVars, imageVars,
        IInv, TypeOK, AttemptInv, FirstInv, FirstBoot, FinishInv, VerifiedInv, Distrusted,
        Reloading, LoaderPc, InitPc, TaskPc, Trying, Loaded, Loader, Finisher, Image, Kind
  <1>2. CASE Rearm
    BY <1>2, RequestsAssumption
    DEF Rearm, Goto, Rearmed, bmcVars, intVars, cmdVars, imageVars,
        IInv, TypeOK, AttemptInv, FirstInv, FirstBoot, FinishInv, VerifiedInv, Distrusted,
        Reloading, LoaderPc, InitPc, TaskPc, Trying, Loaded, Loader, Finisher, Image, Kind
  <1>3. CASE TakeBootReset
    BY <1>3, RequestsAssumption
    DEF TakeBootReset, bmcVars, intVars, cmdVars, imageVars,
        IInv, TypeOK, AttemptInv, FirstInv, FirstBoot, FinishInv, VerifiedInv, Distrusted,
        Reloading, LoaderPc, InitPc, TaskPc, Trying, Loaded, Loader, Finisher, Image, Kind
  <1>4. CASE TakeReset
    BY <1>4, RequestsAssumption
    DEF TakeReset, Goto, Booted, Fallback, bmcVars, intVars, cmdVars, imageVars,
        IInv, TypeOK, AttemptInv, FirstInv, FirstBoot, FinishInv, VerifiedInv, Distrusted,
        Reloading, LoaderPc, InitPc, TaskPc, Trying, Loaded, Loader, Finisher, Image, Kind
  <1>5. CASE TakeCommand
    BY <1>5, RequestsAssumption
    DEF TakeCommand, Goto, bmcVars, intVars, cmdVars, imageVars,
        IInv, TypeOK, AttemptInv, FirstInv, FirstBoot, FinishInv, VerifiedInv, Distrusted,
        Reloading, LoaderPc, InitPc, TaskPc, Trying, Loaded, Loader, Finisher, Image, Kind
  <1>6. CASE Execute
    BY <1>6, RequestsAssumption
    DEF Execute, bmcVars, intVars, cmdVars, imageVars,
        IInv, TypeOK, AttemptInv, FirstInv, FirstBoot, FinishInv, VerifiedInv, Distrusted,
        Reloading, LoaderPc, InitPc, TaskPc, Trying, Loaded, Loader, Finisher, Image, Kind
  <1>7. CASE TakeOther
    BY <1>7, RequestsAssumption
    DEF TakeOther, bmcVars, intVars, cmdVars, imageVars,
        IInv, TypeOK, AttemptInv, FirstInv, FirstBoot, FinishInv, VerifiedInv, Distrusted,
        Reloading, LoaderPc, InitPc, TaskPc, Trying, Loaded, Loader, Finisher, Image, Kind
  <1>8. CASE ResetHandler
    BY <1>8, RequestsAssumption
    DEF ResetHandler, NVIC_BMC_reset, bmcVars, intVars, cmdVars, imageVars,
        IInv, TypeOK, AttemptInv, FirstInv, FirstBoot, FinishInv, VerifiedInv, Distrusted,
        Reloading, LoaderPc, InitPc, TaskPc, Trying, Loaded, Loader, Finisher, Image, Kind
  <1>9. CASE DirectHandler
    BY <1>9, RequestsAssumption
    DEF DirectHandler, InRange, Cleared2, bmcVars, intVars, cmdVars, imageVars,
        IInv, TypeOK, AttemptInv, FirstInv, FirstBoot, FinishInv, VerifiedInv, Distrusted,
        Reloading, LoaderPc, InitPc, TaskPc, Trying, Loaded, Loader, Finisher, Image, Kind
  <1>10. CASE GpioHandler
    BY <1>10, RequestsAssumption
    DEF GpioHandler, NVIC_BMC_reset, Settled, bmcVars, intVars, cmdVars, imageVars,
        IInv, TypeOK, AttemptInv, FirstInv, FirstBoot, FinishInv, VerifiedInv, Distrusted,
        Reloading, LoaderPc, InitPc, TaskPc, Trying, Loaded, Loader, Finisher, Image, Kind
  <1>11. CASE Train
    BY <1>11, RequestsAssumption
    DEF Train, bmcVars, intVars, cmdVars, imageVars,
        IInv, TypeOK, AttemptInv, FirstInv, FirstBoot, FinishInv, VerifiedInv, Distrusted,
        Reloading, LoaderPc, InitPc, TaskPc, Trying, Loaded, Loader, Finisher, Image, Kind
  <1>12. CASE BmcReset
    BY <1>12, RequestsAssumption
    DEF BmcReset, CanReset, Settled, bmcVars, intVars, cmdVars, imageVars,
        IInv, TypeOK, AttemptInv, FirstInv, FirstBoot, FinishInv, VerifiedInv, Distrusted,
        Reloading, LoaderPc, InitPc, TaskPc, Trying, Loaded, Loader, Finisher, Image, Kind
  <1>13. CASE Send
    BY <1>13, RequestsAssumption
    DEF Send, Settled, Finishing, bmcVars, intVars, cmdVars, imageVars,
        IInv, TypeOK, AttemptInv, FirstInv, FirstBoot, FinishInv, VerifiedInv, Distrusted,
        Reloading, LoaderPc, InitPc, TaskPc, Trying, Loaded, Loader, Finisher, Image, Kind
  <1>14. CASE UNCHANGED vars
    BY <1>14, RequestsAssumption
    DEF vars, bmcVars, intVars, cmdVars, imageVars,
        IInv, TypeOK, AttemptInv, FirstInv, FirstBoot, FinishInv, VerifiedInv, Distrusted,
        Reloading, LoaderPc, InitPc, TaskPc, Trying, Loaded, Loader, Finisher, Image, Kind
  <1>15. CASE TakeUnhandled
    BY <1>15, RequestsAssumption
    DEF TakeUnhandled, bmcVars, intVars, cmdVars, imageVars,
        IInv, TypeOK, AttemptInv, FirstInv, FirstBoot, FinishInv, VerifiedInv, Distrusted,
        Reloading, LoaderPc, InitPc, TaskPc, Trying, Loaded, Loader, Finisher, Image, Kind
  <1>16. CASE LeaveHandler
    BY <1>16, RequestsAssumption
    DEF LeaveHandler, Cleared2, bmcVars, intVars, cmdVars, imageVars,
        IInv, TypeOK, AttemptInv, FirstInv, FirstBoot, FinishInv, VerifiedInv, Distrusted,
        Reloading, LoaderPc, InitPc, TaskPc, Trying, Loaded, Loader, Finisher, Image, Kind
  <1>17. QED
    BY <1>1, <1>2, <1>3, <1>4, <1>5, <1>6, <1>7, <1>8,
       <1>9, <1>10, <1>11, <1>12, <1>13, <1>14, <1>15, <1>16 DEF Loop

(* Finishing a command touches neither the loaders nor the images. *)
LEMMA FinalizeStep ==
  ASSUME IInv, NEW w \in Finisher, Finalize(w)
  PROVE  IInv'
  <1>1. CASE WriteStatus(w)
    BY <1>1
    DEF WriteStatus, Finishes, bmcVars, intVars, cmdVars, imageVars,
        IInv, TypeOK, AttemptInv, FirstInv, FirstBoot, FinishInv, VerifiedInv, Distrusted,
        Reloading, LoaderPc, InitPc, TaskPc, Trying, Loaded, Loader, Finisher, Image, Kind
  <1>2. CASE ClearNotification(w)
    BY <1>2
    DEF ClearNotification, Finishes, bmcVars, intVars, cmdVars, imageVars,
        IInv, TypeOK, AttemptInv, FirstInv, FirstBoot, FinishInv, VerifiedInv, Distrusted,
        Reloading, LoaderPc, InitPc, TaskPc, Trying, Loaded, Loader, Finisher, Image, Kind
  <1>3. CASE ClearPending(w)
    BY <1>3
    DEF ClearPending, Finishes, Cleared2, bmcVars, intVars, cmdVars, imageVars,
        IInv, TypeOK, AttemptInv, FirstInv, FirstBoot, FinishInv, VerifiedInv, Distrusted,
        Reloading, LoaderPc, InitPc, TaskPc, Trying, Loaded, Loader, Finisher, Image, Kind
  <1>4. CASE Enable(w)
    BY <1>4
    DEF Enable, Finishes, Reopened, bmcVars, intVars, cmdVars, imageVars,
        IInv, TypeOK, AttemptInv, FirstInv, FirstBoot, FinishInv, VerifiedInv, Distrusted,
        Reloading, LoaderPc, InitPc, TaskPc, Trying, Loaded, Loader, Finisher, Image, Kind
  <1>5. CASE NotifyBmc(w)
    BY <1>5
    DEF NotifyBmc, Finishes, bmcVars, intVars, cmdVars, imageVars,
        IInv, TypeOK, AttemptInv, FirstInv, FirstBoot, FinishInv, VerifiedInv, Distrusted,
        Reloading, LoaderPc, InitPc, TaskPc, Trying, Loaded, Loader, Finisher, Image, Kind
  <1>6. QED
    BY <1>1, <1>2, <1>3, <1>4, <1>5 DEF Finalize
-----------------------------------------------------------------------------
(* The inductive invariant. *)
THEOREM Invariance == "initTrained" \notin ResetIn => (Spec => []IInv)
  <1> SUFFICES ASSUME "initTrained" \notin ResetIn PROVE Spec => []IInv
    OBVIOUS
  <1>1. IInv /\ [Next]_vars => IInv'
    <2> SUFFICES ASSUME IInv, [Next]_vars PROVE IInv'
      OBVIOUS
    <2>1. CASE InitTask
      BY <2>1, LoadStep, OtherStep DEF InitTask, Loader
    <2>2. CASE LoopTask
      BY <2>2, LoadStep, OtherStep, FinalizeStep DEF LoopTask, Loader, Finisher
    <2>3. CASE Direct
      BY <2>3, OtherStep, FinalizeStep DEF Direct, Finisher
    <2>4. CASE ResetHandler \/ GpioHandler \/ Train \/ BmcReset \/ Send
      BY <2>4, OtherStep
    <2>5. CASE UNCHANGED vars
      BY <2>5, OtherStep
    <2>6. QED
      BY <2>1, <2>2, <2>3, <2>4, <2>5 DEF Next
  <1>2. QED
    BY <1>1, InvInit, PTL DEF Spec

(* Every variable keeps its type; the attempts never run below zero. *)
THEOREM TypeCorrect == "initTrained" \notin ResetIn => (Spec => []TypeOK)
  <1>1. IInv => TypeOK
    BY DEF IInv
  <1>2. QED
    BY <1>1, Invariance, PTL

(* The two tasks that run the loading code never run it together. *)
THEOREM LoadersExclude == "initTrained" \notin ResetIn => (Spec => []OneLoader)
  <1>1. IInv => OneLoader
    BY DEF IInv, FirstInv, FirstBoot, OneLoader, Reloading
  <1>2. QED
    BY <1>1, Invariance, PTL

(* A TIP that is reset in the middle of a reload starts from the recovery
   image. *)
THEOREM FallsBack == "initTrained" \notin ResetIn => (Spec => []Distrusted)
  <1>1. IInv => Distrusted
    BY DEF IInv
  <1>2. QED
    BY <1>1, Invariance, PTL

(* The BMC jumps only to images that are verified and that nobody replaces:
   the one step that lets it jump is bmc_continue, of a loader that is alone. *)
THEOREM JumpsVerified == "initTrained" \notin ResetIn => (Spec => VerifiedBeforeJump)
  <1>1. IInv /\ [Next]_vars => (bmc # "next" /\ bmc' = "next" => ddr = "verified")
    <2> SUFFICES ASSUME IInv, [Next]_vars, bmc # "next", bmc' = "next"
                 PROVE  ddr = "verified"
      OBVIOUS
    <2>1. \E l \in Loader : Continue(l)
      BY DEF TypeOK, Next, InitTask, LoopTask, Load, Loop, Loader, LoadBootblock,
             Refused, Reboot, Mute, Disable, Release, StartWd, Polled, Passed, Ended,
             GiveUp, Copy, Verify, Initialise, Trust, Open, Rearm, NVIC_BMC_reset,
             ResetHandler, GpioHandler, Direct, DirectHandler, LeaveHandler,
             Finalize, WriteStatus, ClearNotification, ClearPending, Enable, NotifyBmc,
             TakeBootReset, TakeReset, TakeCommand, TakeUnhandled, Execute, TakeOther, Train, BmcReset, Send, vars, bmcVars
    <2>2. QED
      BY <2>1 DEF Continue, Goto, IInv, VerifiedInv
  <1>2. QED
    BY <1>1, Invariance, PTL DEF Spec, VerifiedBeforeJump
=============================================================================
