---------------------------- MODULE FwUpdateTask ----------------------------
(***************************************************************************)
(* The firmware update task of the TIP L1 firmware                         *)
(* (common/tip_fw_update_task.c) and everybody who talks to it.            *)
(*                                                                         *)
(*   - the init task of tip_cerberus.c creates the update task, waits      *)
(*     until it has finished its own start-up work and only then starts    *)
(*     the command tasks;                                                  *)
(*   - a Control requester is a command task that calls the                *)
(*     firmware_update_control interface: start_update, prepare_staging,   *)
(*     write_staging;                                                      *)
(*   - a Direct requester is the BMC task, whose FW_UPDATE command calls   *)
(*     tip_fw_update_task_stage_and_start.  It may call at any time, even  *)
(*     before the update task exists.                                      *)
(*                                                                         *)
(* Everybody shares task->running, task->update_status, the staging        *)
(* buffer and the staging flash.  task->lock protects the first two; the   *)
(* last two are protected only by the ownership that running = 1 stands    *)
(* for.  Taking the mutex, what is done under it, and giving it back are   *)
(* steps of their own, so that every interleaving of the lock is explored. *)
(*                                                                         *)
(* The staging flash is a function from chunks to the image each chunk     *)
(* belongs to.  The recovery work of the start-up phase is in              *)
(* BootRecovery; here it only takes time.                                  *)
(***************************************************************************)
EXTENDS Naturals

CONSTANTS
  Control,    \* command tasks using the firmware_update_control interface
  Direct,     \* tasks using tip_fw_update_task_stage_and_start
  Image,      \* the images requesters may stage
  Signed,     \* those that firmware verification accepts
  N           \* number of chunks the staging flash is written in

NULL   == "NULL"
NoOne  == "no one"
Task   == "update task"
Erased == "erased"

Requester == Control \cup Direct
Chunk     == 1 .. N
Flash     == [Chunk -> Image \cup {Erased}]

ASSUME NAssumption == N \in Nat \ {0}
ASSUME RequesterAssumption ==
  /\ Control \cap Direct = {}
  /\ NoOne \notin Requester
  /\ Task \notin Requester
ASSUME ImageAssumption == Signed \subseteq Image /\ Erased \notin Image

VARIABLES
  sys,         \* progress of the init task: cerberus_init
  handle,      \* task->task: NULL, or the update task
  lock,        \* holder of the mutex task->lock
  running,     \* task->running: 0, 1, or 2 (running from the recovery image)
  bits,        \* pending notification bits of the update task
  status,      \* low byte of task->update_status
  statusErr,   \* 1 when an error code is stored above the low byte
  stagingBuf,  \* task->staging_buf
  staging,     \* the staging (virtual) flash
  fill,        \* chunks written since the staging area was prepared
  pc, op, arg, \* per requester: where it is, what it asked, with which image
  pos,         \* per requester and for the task: chunks copied so far
  tpc, phase,  \* where the update task is, and in which phase of its work
  result,      \* local variable status of the task: 0 is success
  verified,    \* what the staging flash held when it was verified
  installed    \* what this run has written to the active image

vars == <<sys, handle, lock, running, bits, status, statusErr, stagingBuf,
          staging, fill, pc, op, arg, pos, tpc, phase, result, verified,
          installed>>

Op     == {"start", "prep", "write", "stage"}
Bit    == {"RUN_UPDATE", "PREP_STAGING", "WRITE_TO_STAGING"}
Phase  == {"erase", "write", "verify", "install"}
FailPhase == {"erase_fail", "write_fail", "verify_fail", "install_fail"}
Code   == Phase \cup FailPhase
            \cup {"none", "starting", "blocked", "no_task", "complete"}

Blank == [c \in Chunk |-> Erased]

(* The Wrong definitions of this module are mutants: each changes the
   definition after it the way a slip in the code would. *)
WrongVerifies(f) == f[1] \in Signed

(* A staged image verifies when all its chunks come from one signed image. *)
Verifies(f) == \E img \in Signed : \A c \in Chunk : f[c] = img
-----------------------------------------------------------------------------
requesterVars == <<pc, op, arg>>
taskVars      == <<tpc, phase, result, verified, installed>>
stagingVars   == <<stagingBuf, staging, fill>>
statusVars    == <<status, statusErr>>

Init ==
  /\ sys = "reset" /\ handle = NULL /\ lock = NoOne /\ running = 0
  /\ bits = {} /\ status = "none" /\ statusErr = 0
  /\ stagingBuf = Erased /\ fill = 0
  /\ pc = [r \in Requester |-> "idle"]
  /\ op = [r \in Requester |-> "none"]
  /\ arg = [r \in Requester |-> Erased]
  /\ pos = [a \in Requester \cup {Task} |-> 0]
  /\ tpc = "off" /\ phase = "none" /\ result = 1
  /\ verified = Blank /\ installed = Blank
  /\ staging = Blank

(* system_reset, platform_reset: the TIP boots again.  The staging area is in
   RAM that nothing clears. *)
Reboot ==
  /\ sys' = "reset" /\ handle' = NULL /\ lock' = NoOne /\ running' = 0
  /\ bits' = {} /\ status' = "none" /\ statusErr' = 0
  /\ stagingBuf' = Erased /\ fill' = 0
  /\ pc' = [r \in Requester |-> "idle"]
  /\ op' = [r \in Requester |-> "none"]
  /\ arg' = [r \in Requester |-> Erased]
  /\ pos' = [a \in Requester \cup {Task} |-> 0]
  /\ tpc' = "off" /\ phase' = "none" /\ result' = 1
  /\ verified' = Blank /\ installed' = Blank
  /\ UNCHANGED staging
-----------------------------------------------------------------------------
(* The init task.                                                          *)

(* tip_fw_update_task_init: clears the structure and creates the mutex. *)
TaskInit ==
  /\ sys = "reset"
  /\ sys' = "inited"
  /\ UNCHANGED <<handle, lock, running, bits, statusVars, stagingVars,
                 requesterVars, pos, taskVars>>

(* tip_fw_update_task_start, first step: running is set without the lock. *)
StartRunning ==
  /\ sys = "inited"
  /\ sys' = "starting"
  /\ running' \in {1, 2}
  /\ UNCHANGED <<handle, lock, bits, statusVars, stagingVars, requesterVars,
                 pos, taskVars>>

(* tip_fw_update_task_start, second step: xTaskCreate sets task->task
   before the new task, of a higher priority, is scheduled. *)
StartCreate ==
  /\ sys = "starting"
  /\ sys' = "waiting"
  /\ handle' = Task
  /\ tpc' = "boot"
  /\ UNCHANGED <<lock, running, bits, statusVars, stagingVars, requesterVars,
                 pos, phase, result, verified, installed>>

(* xTaskCreate fails: cerberus_init gives up and resets the platform. *)
StartFails == sys = "starting" /\ Reboot

(* cerberus_init polls running and then starts the command tasks. *)
Serve ==
  /\ sys = "waiting"
  /\ running = 0
  /\ sys' = "serving"
  /\ UNCHANGED <<handle, lock, running, bits, statusVars, stagingVars,
                 requesterVars, pos, taskVars>>
-----------------------------------------------------------------------------
(* The mutex: nobody holds it. *)
WrongLockFree == TRUE
LockFree      == lock = NoOne

(* A request can be accepted: there is a task and it is not running. *)
WrongAvailable == handle # NULL
Available      == handle # NULL /\ running = 0

(* What an accepted request sets running to. *)
WrongReserved(o) == IF o = "stage" THEN running ELSE 1
Reserved(o)      == 1

(* Where a refused caller goes when it has given the mutex back. *)
WrongAfterBusy == "want"
AfterBusy      == "idle"

(* There is room in the staging area for one more chunk. *)
WrongRoom == fill <= N
Room      == fill < N

(* What running becomes at the end of a request. *)
WrongEndRunning(reset) == 1
EndRunning(reset)      == IF reset THEN 1 ELSE 0
-----------------------------------------------------------------------------
(* The requesters.                                                         *)

Goto(r, from, to) == pc[r] = from /\ pc' = [pc EXCEPT ![r] = to]

(* A command task has a message for the updater.  Control requests come only
   from tasks that cerberus_init starts after the updater is ready, so that
   the test of task->task made before the lock by prepare_staging and
   write_staging always succeeds; a Direct request finds task->lock = NULL
   before TaskInit and returns without a trace. *)
CallControl(r) ==
  /\ r \in Control /\ sys = "serving"
  /\ Goto(r, "idle", "want")
  /\ \E o \in {"start", "prep", "write"}, img \in Image :
       /\ op' = [op EXCEPT ![r] = o]
       /\ arg' = IF o = "write" THEN [arg EXCEPT ![r] = img] ELSE arg
  /\ UNCHANGED <<sys, handle, lock, running, bits, statusVars, stagingVars,
                 pos, taskVars>>

CallDirect(r) ==
  /\ r \in Direct /\ sys # "reset"
  /\ Goto(r, "idle", "want")
  /\ op' = [op EXCEPT ![r] = "stage"]
  /\ \E img \in Image : arg' = [arg EXCEPT ![r] = img]
  /\ UNCHANGED <<sys, handle, lock, running, bits, statusVars, stagingVars,
                 pos, taskVars>>

(* xSemaphoreTake (task->lock, portMAX_DELAY) *)
Acquire(r) ==
  /\ LockFree
  /\ Goto(r, "want", "check")
  /\ lock' = r
  /\ UNCHANGED <<sys, handle, running, bits, statusVars, stagingVars, op, arg,
                 pos, taskVars>>

(* tip_fw_update_task_reserve_update and its copies in prepare_staging and
   write_staging: a request is refused when there is no task or when it is
   running ... *)
Refuse(r) ==
  /\ ~Available
  /\ Goto(r, "check", "giveBusy")
  /\ status' = IF handle = NULL THEN "no_task" ELSE "blocked"
  /\ statusErr' = 0
  /\ UNCHANGED <<sys, handle, lock, running, bits, stagingVars, op, arg, pos,
                 taskVars>>

(* ... and accepted otherwise ... *)
Accept(r) ==
  /\ Available
  /\ Goto(r, "check", "claim")
  /\ status' = "starting"
  /\ statusErr' = 0
  /\ UNCHANGED <<sys, handle, lock, running, bits, stagingVars, op, arg, pos,
                 taskVars>>

(* ... by setting running, after write_staging has filled staging_buf. *)
Claim(r) ==
  /\ Goto(r, "claim", "giveOk")
  /\ running' = Reserved(op[r])
  /\ stagingBuf' = IF op[r] = "write" THEN arg[r] ELSE stagingBuf
  /\ UNCHANGED <<sys, handle, lock, bits, statusVars, staging, fill, op, arg,
                 pos, taskVars>>

(* xSemaphoreGive on the busy path: the caller gets its error code. *)
GiveBusy(r) ==
  /\ Goto(r, "giveBusy", AfterBusy)
  /\ lock' = NoOne
  /\ op' = [op EXCEPT ![r] = "none"]
  /\ arg' = [arg EXCEPT ![r] = Erased]
  /\ UNCHANGED <<sys, handle, running, bits, statusVars, stagingVars, pos,
                 taskVars>>

(* xSemaphoreGive on the accepted path. *)
GiveOk(r) ==
  /\ Goto(r, "giveOk", IF op[r] = "stage" THEN "copy" ELSE "notify")
  /\ lock' = NoOne
  /\ UNCHANGED <<sys, handle, running, bits, statusVars, stagingVars, op, arg,
                 pos, taskVars>>

(* tip_fw_update_task_stage_and_start: memcpy into the staging area, outside
   the lock, chunk by chunk. *)
CopyChunk(r) ==
  /\ pc[r] = "copy"
  /\ pos[r] < N
  /\ pos' = [pos EXCEPT ![r] = @ + 1]
  /\ staging' = [staging EXCEPT ![pos[r] + 1] = arg[r]]
  /\ UNCHANGED <<sys, handle, lock, running, bits, statusVars, stagingBuf,
                 fill, requesterVars, taskVars>>

CopyDone(r) ==
  /\ pos[r] = N
  /\ Goto(r, "copy", "notify")
  /\ pos' = [pos EXCEPT ![r] = 0]
  /\ UNCHANGED <<sys, handle, lock, running, bits, statusVars, stagingVars,
                 op, arg, taskVars>>

BitOf(o) == CASE o = "prep"  -> "PREP_STAGING"
              [] o = "write" -> "WRITE_TO_STAGING"
              [] OTHER       -> "RUN_UPDATE"

(* xTaskNotify (task->task, bit, eSetBits) *)
Notify(r) ==
  /\ Goto(r, "notify", "idle")
  /\ bits' = bits \cup {BitOf(op[r])}
  /\ op' = [op EXCEPT ![r] = "none"]
  /\ arg' = [arg EXCEPT ![r] = Erased]
  /\ UNCHANGED <<sys, handle, lock, running, statusVars, stagingVars, pos,
                 taskVars>>
-----------------------------------------------------------------------------
(* The update task: tip_fw_update_task_updater.                            *)

TGoto(from, to) == tpc = from /\ tpc' = to

(* The recovery work of the start-up phase takes its time ... *)
Boot ==
  /\ TGoto("boot", "bootLock")
  /\ UNCHANGED <<sys, handle, lock, running, bits, statusVars, stagingVars,
                 requesterVars, pos, phase, result, verified, installed>>

(* ... and then the updater declares itself free, under the lock. *)
BootSet ==
  /\ TGoto("bootSet", "wait")
  /\ running' = 0
  /\ lock' = NoOne
  /\ UNCHANGED <<sys, handle, bits, statusVars, stagingVars, requesterVars,
                 pos, phase, result, verified, installed>>

(* The task takes the mutex: to end its start-up, in the status_change
   callback, and when it has finished a request. *)
TaskAcquire ==
  /\ LockFree
  /\ \/ TGoto("bootLock", "bootSet")
     \/ TGoto("report", "reportSet")
     \/ TGoto("finish", "finishSet")
  /\ lock' = Task
  /\ UNCHANGED <<sys, handle, running, bits, statusVars, stagingVars,
                 requesterVars, pos, phase, result, verified, installed>>

(* xTaskNotifyWait clears every bit, but only one request is served. *)
Wake ==
  /\ tpc = "wait"
  /\ bits # {}
  /\ bits' = {}
  /\ tpc' = IF "RUN_UPDATE" \in bits THEN "identify" ELSE "report"
  /\ phase' = IF "RUN_UPDATE" \in bits THEN "verify"
              ELSE IF "PREP_STAGING" \in bits THEN "erase" ELSE "write"
  /\ result' = 1
  /\ UNCHANGED <<sys, handle, lock, running, statusVars, stagingVars,
                 requesterVars, pos, verified, installed>>

(* identify_tip_fw_updater loads the headers from staging; without them
   there is no updater to run and firmware_update_run_update_no_revocation
   fails at once. *)
Identify ==
  /\ tpc = "identify"
  /\ \/ staging[1] # Erased /\ tpc' = "report"
     \/ tpc' = "finish"
  /\ UNCHANGED <<sys, handle, lock, running, bits, statusVars, stagingVars,
                 requesterVars, pos, phase, result, verified, installed>>

(* tip_fw_update_task_status_change *)
ReportSet ==
  /\ TGoto("reportSet", IF phase \in Phase THEN "do" ELSE "finish")
  /\ status' = phase
  /\ statusErr' = 0
  /\ lock' = NoOne
  /\ UNCHANGED <<sys, handle, running, bits, stagingVars, requesterVars, pos,
                 phase, result, verified, installed>>

(* One phase of the work ends well: the task is done. *)
Succeed == tpc' = "finish" /\ result' = 0 /\ UNCHANGED phase

(* One phase of the work fails: the failure is reported first. *)
Fail(f) == tpc' = "report" /\ phase' = f /\ UNCHANGED result

(* tip_firmware_update_prepare_staging_erase_all *)
Erase ==
  /\ tpc = "do" /\ phase = "erase"
  /\ \/ Succeed /\ staging' = Blank /\ fill' = 0
     \/ Fail("erase_fail") /\ UNCHANGED <<staging, fill>>
  /\ UNCHANGED <<sys, handle, lock, running, bits, statusVars, stagingBuf,
                 requesterVars, pos, verified, installed>>

(* firmware_update_write_to_staging: the next chunk comes from staging_buf,
   read without the lock. *)
Write ==
  /\ tpc = "do" /\ phase = "write"
  /\ \/ /\ Room
        /\ Succeed
        /\ staging' = [staging EXCEPT ![fill + 1] = stagingBuf]
        /\ fill' = fill + 1
     \/ Fail("write_fail") /\ UNCHANGED <<staging, fill>>
  /\ UNCHANGED <<sys, handle, lock, running, bits, statusVars, stagingBuf,
                 requesterVars, pos, verified, installed>>

(* firmware_update_run_update_no_revocation: the image in the staging flash
   is verified, and then it is copied, read once more, to the active flash. *)
Verify ==
  /\ tpc = "do" /\ phase = "verify"
  /\ IF Verifies(staging)
       THEN /\ tpc' = "report" /\ phase' = "install"
            /\ verified' = staging /\ UNCHANGED result
       ELSE Fail("verify_fail") /\ UNCHANGED verified
  /\ UNCHANGED <<sys, handle, lock, running, bits, statusVars, stagingVars,
                 requesterVars, pos, installed>>

Install ==
  /\ tpc = "do" /\ phase = "install"
  /\ \/ /\ pos[Task] < N
        /\ pos' = [pos EXCEPT ![Task] = @ + 1]
        /\ installed' = [installed EXCEPT ![pos[Task] + 1] =
                                            staging[pos[Task] + 1]]
        /\ UNCHANGED <<tpc, phase, result, verified>>
     \/ /\ pos[Task] = N
        /\ pos' = [pos EXCEPT ![Task] = 0]
        /\ Succeed
        /\ UNCHANGED <<verified, installed>>
     \/ /\ pos' = [pos EXCEPT ![Task] = 0]
        /\ Fail("install_fail")
        /\ verified' = Blank /\ installed' = Blank
  /\ UNCHANGED <<sys, handle, lock, running, bits, statusVars, stagingVars,
                 requesterVars>>

(* The end of a request, under the lock: its outcome goes to update_status
   and running is cleared, unless the system is about to be reset. *)
FinishSet ==
  /\ tpc = "finishSet"
  /\ LET reset == result = 0 /\ phase = "install" IN
       /\ running' = EndRunning(reset)
       /\ tpc' = IF reset THEN "settle" ELSE "wait"
  /\ status' = IF result = 0 THEN "complete" ELSE status
  /\ statusErr' = result
  /\ lock' = NoOne
  /\ phase' = "none" /\ result' = 1
  /\ UNCHANGED <<sys, handle, bits, stagingVars, requesterVars, pos, verified,
                 installed>>

(* platform_msleep (5000); system_reset (task->system) *)
Reset == tpc = "settle" /\ Reboot
-----------------------------------------------------------------------------
InitTask == TaskInit \/ StartRunning \/ StartCreate \/ StartFails \/ Serve

Serving(r) ==
  \/ Refuse(r) \/ Accept(r) \/ Claim(r) \/ GiveBusy(r) \/ GiveOk(r)
  \/ CopyChunk(r) \/ CopyDone(r) \/ Notify(r)

UpdateTask ==
  \/ Boot \/ BootSet \/ TaskAcquire \/ Wake \/ Identify \/ ReportSet
  \/ Erase \/ Write \/ Verify \/ Install \/ FinishSet \/ Reset

Next ==
  \/ InitTask
  \/ \E r \in Requester :
       CallControl(r) \/ CallDirect(r) \/ Acquire(r) \/ Serving(r)
  \/ UpdateTask

(* Every task that is ready runs sooner or later, and the mutex goes to the
   waiting task of the highest priority: nobody who waits for it is passed
   over for ever by tasks that each wait for a message between two uses. *)
Fairness ==
  /\ WF_vars(TaskInit) /\ WF_vars(StartRunning)
  /\ WF_vars(StartCreate \/ StartFails) /\ WF_vars(Serve)
  /\ WF_vars(UpdateTask) /\ SF_vars(TaskAcquire)
  /\ \A r \in Requester : SF_vars(Acquire(r)) /\ WF_vars(Serving(r))

Spec == Init /\ [][Next]_vars

FairSpec == Spec /\ Fairness
-----------------------------------------------------------------------------
(* Properties.                                                             *)

TypeOK ==
  /\ sys \in {"reset", "inited", "starting", "waiting", "serving"}
  /\ handle \in {NULL, Task} /\ lock \in Requester \cup {NoOne, Task}
  /\ running \in 0 .. 2 /\ bits \subseteq Bit
  /\ status \in Code /\ statusErr \in 0 .. 1
  /\ stagingBuf \in Image \cup {Erased} /\ staging \in Flash /\ fill \in 0 .. N
  /\ pc \in [Requester -> {"idle", "want", "check", "claim", "giveBusy",
                           "giveOk", "copy", "notify"}]
  /\ op \in [Requester -> Op \cup {"none"}]
  /\ arg \in [Requester -> Image \cup {Erased}]
  /\ pos \in [Requester \cup {Task} -> 0 .. N]
  /\ tpc \in {"off", "boot", "bootLock", "bootSet", "wait", "identify",
              "report", "reportSet", "do", "finish", "finishSet", "settle"}
  /\ phase \in Phase \cup FailPhase \cup {"none"} /\ result \in 0 .. 1
  /\ verified \in Flash /\ installed \in Flash

(* Requester r has been accepted and has not yet notified the task. *)
Owns(r) == pc[r] \in {"giveOk", "copy", "notify"}

(* The task is serving a request, or resetting after one. *)
Working == tpc \in {"identify", "report", "reportSet", "do", "finish",
                    "finishSet", "settle"}

(* xTaskNotifyWait clears all the bits and the else-if chain serves one of
   them: no accepted request is dropped, because two are never pending. *)
NoLostRequest == \A b, c \in bits : b = c

(* The reservation made by running = 1 is exclusive: at most one of the
   requesters, a pending notification and the updater itself owns the staging
   area, whatever the order in which they take the mutex; and there is one
   notification at most. *)
OneOwner ==
  /\ \A r, s \in Requester : Owns(r) /\ Owns(s) => r = s
  /\ \A r \in Requester : Owns(r) => ~Working /\ bits = {}
  /\ Working => bits = {}
  /\ NoLostRequest

(* What is copied to the active flash is what was verified: nobody changes the
   staging area between the two reads. *)
StagingStable == phase = "install" => staging = verified

(* When the system is about to be reset into the new image, that image is one
   that verification accepts, all of it: what is verified is what is copied. *)
InstalledVerified ==
  /\ tpc = "settle" => \E img \in Signed : \A c \in Chunk : installed[c] = img
  /\ StagingStable

(* An accepted request to run the update is under way. *)
RunPending ==
  \/ \E r \in Requester : op[r] = "start" /\ Owns(r)
  \/ "RUN_UPDATE" \in bits
  \/ Working /\ phase \in {"verify", "install"}

(* "Ownership remains reserved ... so other update and staging requests cannot
   modify the bytes that this updater will consume." *)
ConsumedBytesKept == [][RunPending /\ RunPending' => staging' = staging]_vars

(* An accepted request to write to the staging area is under way. *)
WritePending ==
  \/ \E r \in Requester : op[r] = "write" /\ Owns(r)
  \/ "WRITE_TO_STAGING" \in bits
  \/ Working /\ phase = "write"

(* What the task writes to the staging area is the chunk of the request that
   was accepted: it reads staging_buf without the lock, after the requester has
   given the mutex back and gone on to its next request. *)
WriteIntact == [][WritePending /\ WritePending' => stagingBuf' = stagingBuf]_vars

(* Every caller gets its answer, and every accepted request ends: the updater
   is free again or the system is reset. *)
Answered ==
  /\ \A r \in Requester : pc[r] = "want" ~> pc[r] = "idle"
  /\ running # 0 /\ handle # NULL ~> running = 0

(* The updater implements the slot of UpdateSlot. *)
slotOwner ==
  IF tpc \in {"off", "boot", "bootLock", "bootSet"} THEN "booting"
  ELSE IF tpc = "settle" THEN "resetting"
  ELSE IF Working \/ bits # {} THEN "updater"
  ELSE IF \E r \in Requester : Owns(r) THEN CHOOSE r \in Requester : Owns(r)
  ELSE "nobody"

Slot == INSTANCE UpdateSlot WITH owner <- slotOwner

ImplementsSlot == Slot!Spec
=============================================================================
