------------------------ MODULE FwUpdateTaskProofs --------------------------
(***************************************************************************)
(* Proofs about FwUpdateTask, for any number of requesters, images and     *)
(* chunks.  The safety properties of the module are not inductive: they    *)
(* follow from IInv, whose conjuncts say who may hold the mutex, who may   *)
(* own the slot while running is what it is, and what the update run has   *)
(* done so far.                                                            *)
(***************************************************************************)
EXTENDS FwUpdateTask, TLAPS

Critical == {"check", "claim", "giveBusy", "giveOk"}

(* The mutex is held by exactly the one who is between take and give. *)
LockInv ==
  /\ \A r \in Requester : lock = r <=> pc[r] \in Critical
  /\ lock = Task <=> tpc \in {"bootSet", "reportSet", "finishSet"}

Starting == tpc \in {"boot", "bootLock", "bootSet"}

(* The slot and its owner. *)
SlotState ==
  /\ handle = Task <=> tpc # "off"
  /\ handle = Task <=> sys \in {"waiting", "serving"}
  /\ handle = NULL => bits = {}
  /\ sys = "starting" => running # 0
  /\ Starting => running # 0 /\ bits = {}
  /\ bits # {} => tpc = "wait" /\ running # 0
  /\ Working => running # 0
  /\ \A b, c \in bits : b = c

SlotUser(r) ==
  /\ pc[r] = "claim" => handle = Task /\ running = 0
  /\ Owns(r) => tpc = "wait" /\ bits = {} /\ running # 0
  /\ pc[r] = "copy" => op[r] = "stage"
  /\ op[r] = "write" /\ Owns(r) => stagingBuf = arg[r]

SlotInv ==
  /\ SlotState
  /\ \A r \in Requester : SlotUser(r)
  /\ \A r, s \in Requester : Owns(r) /\ Owns(s) => r = s

(* The progress of a run: what is verified, what is installed. *)
RunInv ==
  /\ phase # "none" => Working
  /\ pos[Task] # 0 => phase = "install" /\ tpc = "do"
  /\ phase = "install" =>
       /\ tpc # "settle"
       /\ staging = verified /\ Verifies(verified)
       /\ \A c \in Chunk : c <= pos[Task] \/ result = 0 => installed[c] = staging[c]
       /\ result = 0 => tpc \in {"finish", "finishSet"}
  /\ tpc \in {"identify", "report", "reportSet", "do"} => result = 1
  /\ tpc = "settle" => \E img \in Signed : \A c \in Chunk : installed[c] = img

IInv == TypeOK /\ LockInv /\ SlotInv /\ RunInv
-----------------------------------------------------------------------------
LEMMA TypeInit == Init => TypeOK
  BY NAssumption, ImageAssumption DEF Init, TypeOK, Blank, Flash, Chunk, Code

(* Every action keeps every variable in its type. *)
LEMMA TypeStep == TypeOK /\ [Next]_vars => TypeOK'
  <1> SUFFICES ASSUME TypeOK, [Next]_vars PROVE TypeOK'
    OBVIOUS
  <1> USE NAssumption, ImageAssumption, RequesterAssumption DEF TypeOK,
       Flash, Chunk, Op, Bit, Phase, FailPhase, Code
  <1>1. CASE TaskInit
    BY <1>1 DEF TaskInit, requesterVars, taskVars, stagingVars, statusVars
  <1>2. CASE StartRunning
    BY <1>2 DEF StartRunning, requesterVars, taskVars, stagingVars,
       statusVars
  <1>3. CASE StartCreate
    BY <1>3 DEF StartCreate, requesterVars, taskVars, stagingVars,
       statusVars
  <1>4. CASE StartFails
    BY <1>4 DEF StartFails, Reboot, Blank, requesterVars, taskVars,
       stagingVars, statusVars
  <1>5. CASE Serve
    BY <1>5 DEF Serve, requesterVars, taskVars, stagingVars, statusVars
  <1>6. ASSUME NEW r \in Requester, CallControl(r) PROVE TypeOK'
    BY <1>6 DEF CallControl, Goto, requesterVars, taskVars, stagingVars,
       statusVars
  <1>7. ASSUME NEW r \in Requester, CallDirect(r) PROVE TypeOK'
    BY <1>7 DEF CallDirect, Goto, requesterVars, taskVars, stagingVars,
       statusVars
  <1>8. ASSUME NEW r \in Requester, Acquire(r) PROVE TypeOK'
    BY <1>8 DEF Acquire, Goto, LockFree, requesterVars, taskVars,
       stagingVars, statusVars
  <1>9. ASSUME NEW r \in Requester, Refuse(r) PROVE TypeOK'
    BY <1>9 DEF Refuse, Goto, Available, requesterVars, taskVars,
       stagingVars, statusVars
  <1>10. ASSUME NEW r \in Requester, Accept(r) PROVE TypeOK'
    BY <1>10 DEF Accept, Goto, Available, requesterVars, taskVars,
       stagingVars, statusVars
  <1>11. ASSUME NEW r \in Requester, Claim(r) PROVE TypeOK'
    BY <1>11 DEF Claim, Goto, Reserved, requesterVars, taskVars,
       stagingVars, statusVars
  <1>12. ASSUME NEW r \in Requester, GiveBusy(r) PROVE TypeOK'
    BY <1>12 DEF GiveBusy, Goto, AfterBusy, requesterVars, taskVars,
       stagingVars, statusVars
  <1>13. ASSUME NEW r \in Requester, GiveOk(r) PROVE TypeOK'
    BY <1>13 DEF GiveOk, Goto, requesterVars, taskVars, stagingVars,
       statusVars
  <1>14. ASSUME NEW r \in Requester, CopyChunk(r) PROVE TypeOK'
    BY <1>14 DEF CopyChunk, requesterVars, taskVars, stagingVars, statusVars
  <1>15. ASSUME NEW r \in Requester, CopyDone(r) PROVE TypeOK'
    BY <1>15 DEF CopyDone, Goto, requesterVars, taskVars, stagingVars,
       statusVars
  <1>16. ASSUME NEW r \in Requester, Notify(r) PROVE TypeOK'
    BY <1>16 DEF Notify, Goto, BitOf, requesterVars, taskVars, stagingVars,
       statusVars
  <1>17. CASE Boot
    BY <1>17 DEF Boot, TGoto, requesterVars, taskVars, stagingVars,
       statusVars
  <1>18. CASE BootSet
    BY <1>18 DEF BootSet, TGoto, requesterVars, taskVars, stagingVars,
       statusVars
  <1>19. CASE TaskAcquire
    BY <1>19 DEF TaskAcquire, TGoto, LockFree, requesterVars, taskVars,
       stagingVars, statusVars
  <1>20. CASE Wake
    BY <1>20 DEF Wake, requesterVars, taskVars, stagingVars, statusVars
  <1>21. CASE Identify
    BY <1>21 DEF Identify, requesterVars, taskVars, stagingVars, statusVars
  <1>22. CASE ReportSet
    BY <1>22 DEF ReportSet, TGoto, requesterVars, taskVars, stagingVars,
       statusVars
  <1>23. CASE Erase
    BY <1>23 DEF Erase, Succeed, Fail, Blank, requesterVars, taskVars,
       stagingVars, statusVars
  <1>24. CASE Write
    BY <1>24 DEF Write, Succeed, Fail, Room, requesterVars, taskVars,
       stagingVars, statusVars
  <1>25. CASE Verify
    BY <1>25 DEF Verify, Fail, requesterVars, taskVars, stagingVars,
       statusVars
  <1>26. CASE Install
    BY <1>26 DEF Install, Succeed, Fail, Blank, requesterVars, taskVars,
       stagingVars, statusVars
  <1>27. CASE FinishSet
    BY <1>27 DEF FinishSet, EndRunning, requesterVars, taskVars,
       stagingVars, statusVars
  <1>28. CASE Reset
    BY <1>28 DEF Reset, Reboot, Blank, requesterVars, taskVars, stagingVars,
       statusVars
  <1>29. CASE UNCHANGED vars
    BY <1>29 DEF vars, requesterVars, taskVars, stagingVars, statusVars
  <1>30. QED
    BY <1>1, <1>2, <1>3, <1>4, <1>5, <1>6, <1>7, <1>8, <1>9, <1>10, <1>11,
       <1>12, <1>13, <1>14, <1>15, <1>16, <1>17, <1>18, <1>19, <1>20, <1>21,
       <1>22, <1>23, <1>24, <1>25, <1>26, <1>27, <1>28, <1>29
       DEF Next, InitTask, Serving, UpdateTask

(* Type correctness of the update task and of everything it shares with its
   requesters. *)
THEOREM TypeCorrect == Spec => []TypeOK
  BY TypeInit, TypeStep, PTL DEF Spec
-----------------------------------------------------------------------------
(* Taking and giving the mutex keeps it exclusive. *)
LEMMA LockStep == TypeOK /\ LockInv /\ SlotInv /\ [Next]_vars => LockInv'
  <1> SUFFICES ASSUME TypeOK, LockInv, SlotInv, [Next]_vars PROVE LockInv'
    OBVIOUS
  <1> USE RequesterAssumption DEF LockInv, Critical, NULL, NoOne, Task
  <1>pc. pc \in [Requester -> {"idle", "want", "check", "claim", "giveBusy",
                              "giveOk", "copy", "notify"}]
    BY DEF TypeOK
  <1>1. CASE TaskInit
    BY <1>1, <1>pc DEF TaskInit, requesterVars, taskVars, stagingVars,
       statusVars
  <1>2. CASE StartRunning
    BY <1>2, <1>pc DEF StartRunning, requesterVars, taskVars, stagingVars,
       statusVars
  <1>3. CASE StartCreate
    BY <1>3 DEF StartCreate, requesterVars, SlotInv, SlotState
  <1>4. CASE StartFails
    BY <1>4, <1>pc DEF StartFails, Reboot, Blank, requesterVars, taskVars,
       stagingVars, statusVars
  <1>5. CASE Serve
    BY <1>5, <1>pc DEF Serve, requesterVars, taskVars, stagingVars,
       statusVars
  <1>6. ASSUME NEW r \in Requester, CallControl(r) PROVE LockInv'
    BY <1>6, <1>pc DEF CallControl, Goto, requesterVars, taskVars,
       stagingVars, statusVars
  <1>7. ASSUME NEW r \in Requester, CallDirect(r) PROVE LockInv'
    BY <1>7, <1>pc DEF CallDirect, Goto, requesterVars, taskVars,
       stagingVars, statusVars
  <1>8. ASSUME NEW r \in Requester, Acquire(r) PROVE LockInv'
    BY <1>8, <1>pc DEF Acquire, Goto, LockFree, requesterVars, taskVars,
       stagingVars, statusVars
  <1>9. ASSUME NEW r \in Requester, Refuse(r) PROVE LockInv'
    BY <1>9, <1>pc DEF Refuse, Goto, Available, requesterVars, taskVars,
       stagingVars, statusVars
  <1>10. ASSUME NEW r \in Requester, Accept(r) PROVE LockInv'
    BY <1>10, <1>pc DEF Accept, Goto, Available, requesterVars, taskVars,
       stagingVars, statusVars
  <1>11. ASSUME NEW r \in Requester, Claim(r) PROVE LockInv'
    BY <1>11, <1>pc DEF Claim, Goto, Reserved, requesterVars, taskVars,
       stagingVars, statusVars
  <1>12. ASSUME NEW r \in Requester, GiveBusy(r) PROVE LockInv'
    BY <1>12, <1>pc DEF GiveBusy, Goto, AfterBusy, requesterVars, taskVars,
       stagingVars, statusVars
  <1>13. ASSUME NEW r \in Requester, GiveOk(r) PROVE LockInv'
    BY <1>13, <1>pc DEF GiveOk, Goto, requesterVars, taskVars, stagingVars,
       statusVars
  <1>14. ASSUME NEW r \in Requester, CopyChunk(r) PROVE LockInv'
    BY <1>14, <1>pc DEF CopyChunk, requesterVars, taskVars, stagingVars,
       statusVars
  <1>15. ASSUME NEW r \in Requester, CopyDone(r) PROVE LockInv'
    BY <1>15, <1>pc DEF CopyDone, Goto, requesterVars, taskVars,
       stagingVars, statusVars
  <1>16. ASSUME NEW r \in Requester, Notify(r) PROVE LockInv'
    BY <1>16, <1>pc DEF Notify, Goto, BitOf, requesterVars, taskVars,
       stagingVars, statusVars
  <1>17. CASE Boot
    BY <1>17, <1>pc DEF Boot, TGoto, requesterVars, taskVars, stagingVars,
       statusVars
  <1>18. CASE BootSet
    BY <1>18, <1>pc DEF BootSet, TGoto, requesterVars, taskVars,
       stagingVars, statusVars
  <1>19. CASE TaskAcquire
    BY <1>19, <1>pc DEF TaskAcquire, TGoto, LockFree, requesterVars,
       taskVars, stagingVars, statusVars
  <1>20. CASE Wake
    BY <1>20, <1>pc DEF Wake, requesterVars, taskVars, stagingVars,
       statusVars
  <1>21. CASE Identify
    BY <1>21, <1>pc DEF Identify, requesterVars, taskVars, stagingVars,
       statusVars
  <1>22. CASE ReportSet
    BY <1>22, <1>pc DEF ReportSet, TGoto, requesterVars, taskVars,
       stagingVars, statusVars
  <1>23. CASE Erase
    BY <1>23, <1>pc DEF Erase, Succeed, Fail, Blank, requesterVars,
       taskVars, stagingVars, statusVars
  <1>24. CASE Write
    BY <1>24, <1>pc DEF Write, Succeed, Fail, Room, requesterVars, taskVars,
       stagingVars, statusVars
  <1>25. CASE Verify
    BY <1>25, <1>pc DEF Verify, Fail, requesterVars, taskVars, stagingVars,
       statusVars
  <1>26. CASE Install
    BY <1>26, <1>pc DEF Install, Succeed, Fail, Blank, requesterVars,
       taskVars, stagingVars, statusVars
  <1>27. CASE FinishSet
    BY <1>27, <1>pc DEF FinishSet, EndRunning, requesterVars, taskVars,
       stagingVars, statusVars
  <1>28. CASE Reset
    BY <1>28, <1>pc DEF Reset, Reboot, Blank, requesterVars, taskVars,
       stagingVars, statusVars
  <1>29. CASE UNCHANGED vars
    BY <1>29, <1>pc DEF vars, requesterVars, taskVars, stagingVars, statusVars
  <1>30. QED
    BY <1>1, <1>2, <1>3, <1>4, <1>5, <1>6, <1>7, <1>8, <1>9, <1>10, <1>11,
       <1>12, <1>13, <1>14, <1>15, <1>16, <1>17, <1>18, <1>19, <1>20, <1>21,
       <1>22, <1>23, <1>24, <1>25, <1>26, <1>27, <1>28, <1>29
       DEF Next, InitTask, Serving, UpdateTask

(* The reservation that running = 1 stands for is kept by every action. *)
LEMMA SlotStep == TypeOK /\ LockInv /\ SlotInv /\ [Next]_vars => SlotInv'
  <1> SUFFICES ASSUME TypeOK, LockInv, SlotInv, [Next]_vars PROVE SlotInv'
    OBVIOUS
  <1>types. /\ pc \in [Requester -> {"idle", "want", "check", "claim",
                                   "giveBusy", "giveOk", "copy", "notify"}]
            /\ op \in [Requester -> Op \cup {"none"}]
            /\ arg \in [Requester -> Image \cup {Erased}]
            /\ handle \in {NULL, Task} /\ running \in 0 .. 2
            /\ tpc \in {"off", "boot", "bootLock", "bootSet", "wait", "identify",
                        "report", "reportSet", "do", "finish", "finishSet",
                        "settle"}
    BY DEF TypeOK
  <1>1. CASE TaskInit
    BY <1>1, <1>types DEF SlotInv, SlotState, SlotUser, Owns, Working,
       Starting, NULL, Task, TaskInit, requesterVars, taskVars, stagingVars,
       statusVars
  <1>2. CASE StartRunning
    <2>1. handle # Task /\ tpc = "off" /\ bits = {}
      BY <1>2, <1>types DEF StartRunning, SlotInv, SlotState, NULL
    <2>2. \A r \in Requester : pc[r] # "claim" /\ ~Owns(r)
      BY <2>1 DEF SlotInv, SlotUser
    <2>3. /\ running' # 0 /\ sys' = "starting"
          /\ UNCHANGED <<handle, bits, pc, op, arg, tpc, stagingBuf>>
      BY <1>2 DEF StartRunning, requesterVars, taskVars, stagingVars
    <2>4. SlotState'
      BY <2>1, <2>3 DEF SlotInv, SlotState, Starting, Working
    <2>5. QED
      BY <2>2, <2>3, <2>4 DEF SlotInv, SlotUser, Owns
  <1>3. CASE StartCreate
    BY <1>3, <1>types DEF SlotInv, SlotState, SlotUser, Owns, Working,
       Starting, NULL, Task, StartCreate, requesterVars, taskVars, stagingVars,
       statusVars
  <1>4. CASE StartFails
    BY <1>4, <1>types DEF SlotInv, SlotState, SlotUser, Owns, Working,
       Starting, NULL, Task, StartFails, Reboot, Blank, requesterVars,
       taskVars, stagingVars, statusVars
  <1>5. CASE Serve
    BY <1>5, <1>types DEF SlotInv, SlotState, SlotUser, Owns, Working,
       Starting, NULL, Task, Serve, requesterVars, taskVars, stagingVars,
       statusVars
  <1>6. ASSUME NEW r \in Requester, CallControl(r) PROVE SlotInv'
    BY <1>6, <1>types DEF SlotInv, SlotState, SlotUser, Owns, Working,
       Starting, NULL, Task, CallControl, Goto, requesterVars, taskVars,
       stagingVars, statusVars
  <1>7. ASSUME NEW r \in Requester, CallDirect(r) PROVE SlotInv'
    BY <1>7, <1>types DEF SlotInv, SlotState, SlotUser, Owns, Working,
       Starting, NULL, Task, CallDirect, Goto, requesterVars, taskVars,
       stagingVars, statusVars
  <1>8. ASSUME NEW r \in Requester, Acquire(r) PROVE SlotInv'
    BY <1>8, <1>types DEF SlotInv, SlotState, SlotUser, Owns, Working,
       Starting, NULL, Task, Acquire, Goto, LockFree, requesterVars, taskVars,
       stagingVars, statusVars
  <1>9. ASSUME NEW r \in Requester, Refuse(r) PROVE SlotInv'
    BY <1>9, <1>types DEF SlotInv, SlotState, SlotUser, Owns, Working,
       Starting, NULL, Task, Refuse, Goto, Available, requesterVars, taskVars,
       stagingVars, statusVars
  <1>10. ASSUME NEW r \in Requester, Accept(r) PROVE SlotInv'
    BY <1>10, <1>types DEF SlotInv, SlotState, SlotUser, Owns, Working,
       Starting, NULL, Task, Accept, Goto, Available, requesterVars, taskVars,
       stagingVars, statusVars, LockInv, Critical
  <1>11. ASSUME NEW r \in Requester, Claim(r) PROVE SlotInv'
    <2>1. /\ running = 0 /\ handle = Task /\ lock = r /\ pc[r] = "claim"
          /\ pc' = [pc EXCEPT ![r] = "giveOk"] /\ running' = 1
          /\ stagingBuf' = IF op[r] = "write" THEN arg[r] ELSE stagingBuf
          /\ UNCHANGED <<sys, handle, bits, op, arg, tpc>>
      BY <1>11, <1>types DEF Claim, Goto, Reserved, taskVars, SlotInv, SlotUser,
         LockInv, Critical
    <2>2. tpc = "wait" /\ bits = {}
      BY <2>1, <1>types DEF SlotInv, SlotState, Starting, Working
    <2>3. \A s \in Requester : ~Owns(s) /\ (pc[s] = "claim" => s = r)
      BY <2>1, <1>types DEF SlotInv, SlotUser, LockInv, Critical
    <2>4. ASSUME NEW s \in Requester
          PROVE  pc'[s] # "claim" /\ (Owns(s)' <=> s = r) /\ pc'[s] # "copy"
      BY <2>1, <2>3, <1>types DEF Owns
    <2>5. op[r] = "write" => stagingBuf' = arg'[r]
      BY <2>1
    <2>6. SlotState'
      BY <2>1, <2>2 DEF SlotInv, SlotState, Starting, Working
    <2>7. ASSUME NEW s \in Requester PROVE SlotUser(s)'
      BY <2>1, <2>2, <2>4, <2>5 DEF SlotUser
    <2>8. QED
      BY <2>4, <2>6, <2>7 DEF SlotInv
  <1>12. ASSUME NEW r \in Requester, GiveBusy(r) PROVE SlotInv'
    BY <1>12, <1>types DEF SlotInv, SlotState, SlotUser, Owns, Working,
       Starting, NULL, Task, GiveBusy, Goto, AfterBusy, requesterVars,
       taskVars, stagingVars, statusVars
  <1>13. ASSUME NEW r \in Requester, GiveOk(r) PROVE SlotInv'
    BY <1>13, <1>types DEF SlotInv, SlotState, SlotUser, Owns, Working,
       Starting, NULL, Task, GiveOk, Goto, requesterVars, taskVars,
       stagingVars, statusVars
  <1>14. ASSUME NEW r \in Requester, CopyChunk(r) PROVE SlotInv'
    BY <1>14, <1>types DEF SlotInv, SlotState, SlotUser, Owns, Working,
       Starting, NULL, Task, CopyChunk, requesterVars, taskVars, stagingVars,
       statusVars
  <1>15. ASSUME NEW r \in Requester, CopyDone(r) PROVE SlotInv'
    BY <1>15, <1>types DEF SlotInv, SlotState, SlotUser, Owns, Working,
       Starting, NULL, Task, CopyDone, Goto, requesterVars, taskVars,
       stagingVars, statusVars
  <1>16. ASSUME NEW r \in Requester, Notify(r) PROVE SlotInv'
    BY <1>16, <1>types DEF SlotInv, SlotState, SlotUser, Owns, Working,
       Starting, NULL, Task, Notify, Goto, BitOf, requesterVars, taskVars,
       stagingVars, statusVars
  <1>17. CASE Boot
    BY <1>17, <1>types DEF SlotInv, SlotState, SlotUser, Owns, Working,
       Starting, NULL, Task, Boot, TGoto, requesterVars, taskVars, stagingVars,
       statusVars
  <1>18. CASE BootSet
    BY <1>18, <1>types DEF SlotInv, SlotState, SlotUser, Owns, Working,
       Starting, NULL, Task, BootSet, TGoto, requesterVars, taskVars,
       stagingVars, statusVars
  <1>19. CASE TaskAcquire
    BY <1>19, <1>types DEF SlotInv, SlotState, SlotUser, Owns, Working,
       Starting, NULL, Task, TaskAcquire, TGoto, LockFree, requesterVars,
       taskVars, stagingVars, statusVars
  <1>20. CASE Wake
    BY <1>20, <1>types DEF SlotInv, SlotState, SlotUser, Owns, Working,
       Starting, NULL, Task, Wake, requesterVars, taskVars, stagingVars,
       statusVars
  <1>21. CASE Identify
    BY <1>21, <1>types DEF SlotInv, SlotState, SlotUser, Owns, Working,
       Starting, NULL, Task, Identify, requesterVars, taskVars, stagingVars,
       statusVars
  <1>22. CASE ReportSet
    BY <1>22, <1>types DEF SlotInv, SlotState, SlotUser, Owns, Working,
       Starting, NULL, Task, ReportSet, TGoto, requesterVars, taskVars,
       stagingVars, statusVars
  <1>23. CASE Erase
    BY <1>23, <1>types DEF SlotInv, SlotState, SlotUser, Owns, Working,
       Starting, NULL, Task, Erase, Succeed, Fail, Blank, requesterVars,
       taskVars, stagingVars, statusVars
  <1>24. CASE Write
    BY <1>24, <1>types DEF SlotInv, SlotState, SlotUser, Owns, Working,
       Starting, NULL, Task, Write, Succeed, Fail, Room, requesterVars,
       taskVars, stagingVars, statusVars
  <1>25. CASE Verify
    BY <1>25, <1>types DEF SlotInv, SlotState, SlotUser, Owns, Working,
       Starting, NULL, Task, Verify, Fail, requesterVars, taskVars,
       stagingVars, statusVars
  <1>26. CASE Install
    BY <1>26, <1>types DEF SlotInv, SlotState, SlotUser, Owns, Working,
       Starting, NULL, Task, Install, Succeed, Fail, Blank, requesterVars,
       taskVars, stagingVars, statusVars
  <1>27. CASE FinishSet
    <2>1. running # 0 /\ bits = {} /\ tpc = "finishSet"
      BY <1>27 DEF FinishSet, SlotInv, SlotState, Working
    <2>2. \A r \in Requester : pc[r] # "claim" /\ ~Owns(r)
      BY <2>1 DEF SlotInv, SlotUser
    <2>3. /\ \/ running' = 1 /\ tpc' = "settle"
             \/ running' = 0 /\ tpc' = "wait"
          /\ UNCHANGED <<sys, handle, bits, pc, op, arg, stagingBuf>>
      BY <1>27 DEF FinishSet, EndRunning, requesterVars, stagingVars
    <2>4. SlotState'
      BY <2>1, <2>3 DEF SlotInv, SlotState, Starting, Working
    <2>5. QED
      BY <2>2, <2>3, <2>4 DEF SlotInv, SlotUser, Owns
  <1>28. CASE Reset
    BY <1>28, <1>types DEF SlotInv, SlotState, SlotUser, Owns, Working,
       Starting, NULL, Task, Reset, Reboot, Blank, requesterVars, taskVars,
       stagingVars, statusVars
  <1>29. CASE UNCHANGED vars
    BY <1>29, <1>types DEF SlotInv, SlotState, SlotUser, Owns, Working,
       Starting, NULL, Task, vars, requesterVars, taskVars, stagingVars,
       statusVars
  <1>30. QED
    BY <1>1, <1>2, <1>3, <1>4, <1>5, <1>6, <1>7, <1>8, <1>9, <1>10, <1>11,
       <1>12, <1>13, <1>14, <1>15, <1>16, <1>17, <1>18, <1>19, <1>20, <1>21,
       <1>22, <1>23, <1>24, <1>25, <1>26, <1>27, <1>28, <1>29
       DEF Next, InitTask, Serving, UpdateTask

(* The run installs what it has verified. *)
LEMMA RunStep == TypeOK /\ SlotInv /\ RunInv /\ [Next]_vars => RunInv'
  <1> SUFFICES ASSUME TypeOK, SlotInv, RunInv, [Next]_vars PROVE RunInv'
    OBVIOUS
  <1> USE NAssumption DEF RunInv, Working
  <1>types. /\ staging \in Flash /\ installed \in Flash /\ verified \in Flash
            /\ pos \in [Requester \cup {Task} -> 0 .. N] /\ Task \notin Requester
            /\ result \in 0 .. 1 /\ Task \in Requester \cup {Task}
    BY RequesterAssumption DEF TypeOK
  <1>1. CASE TaskInit
    BY <1>1, <1>types DEF TaskInit, requesterVars, taskVars, stagingVars,
       statusVars
  <1>2. CASE StartRunning
    BY <1>2, <1>types DEF StartRunning, requesterVars, taskVars,
       stagingVars, statusVars
  <1>3. CASE StartCreate
    BY <1>3 DEF StartCreate, SlotInv, SlotState
  <1>4. CASE StartFails
    BY <1>4, <1>types DEF StartFails, Reboot, Blank, requesterVars,
       taskVars, stagingVars, statusVars
  <1>5. CASE Serve
    BY <1>5, <1>types DEF Serve, requesterVars, taskVars, stagingVars,
       statusVars
  <1>6. ASSUME NEW r \in Requester, CallControl(r) PROVE RunInv'
    BY <1>6, <1>types DEF CallControl, Goto, requesterVars, taskVars,
       stagingVars, statusVars
  <1>7. ASSUME NEW r \in Requester, CallDirect(r) PROVE RunInv'
    BY <1>7, <1>types DEF CallDirect, Goto, requesterVars, taskVars,
       stagingVars, statusVars
  <1>8. ASSUME NEW r \in Requester, Acquire(r) PROVE RunInv'
    BY <1>8, <1>types DEF Acquire, Goto, LockFree, requesterVars, taskVars,
       stagingVars, statusVars
  <1>9. ASSUME NEW r \in Requester, Refuse(r) PROVE RunInv'
    BY <1>9, <1>types DEF Refuse, Goto, Available, requesterVars, taskVars,
       stagingVars, statusVars
  <1>10. ASSUME NEW r \in Requester, Accept(r) PROVE RunInv'
    BY <1>10, <1>types DEF Accept, Goto, Available, requesterVars, taskVars,
       stagingVars, statusVars
  <1>11. ASSUME NEW r \in Requester, Claim(r) PROVE RunInv'
    BY <1>11, <1>types DEF Claim, Goto, Reserved, requesterVars, taskVars,
       stagingVars, statusVars
  <1>12. ASSUME NEW r \in Requester, GiveBusy(r) PROVE RunInv'
    BY <1>12, <1>types DEF GiveBusy, Goto, AfterBusy, requesterVars,
       taskVars, stagingVars, statusVars
  <1>13. ASSUME NEW r \in Requester, GiveOk(r) PROVE RunInv'
    BY <1>13, <1>types DEF GiveOk, Goto, requesterVars, taskVars,
       stagingVars, statusVars
  <1>14. ASSUME NEW r \in Requester, CopyChunk(r) PROVE RunInv'
    <2>1. tpc = "wait" /\ phase = "none" /\ pos[Task] = 0
      BY <1>14 DEF CopyChunk, SlotInv, SlotUser, Owns
    <2>2. pos'[Task] = 0 /\ tpc' = "wait" /\ phase' = "none"
      BY <1>14, <1>types, <2>1 DEF CopyChunk, taskVars
    <2>3. QED
      BY <2>2
  <1>15. ASSUME NEW r \in Requester, CopyDone(r) PROVE RunInv'
    BY <1>15, <1>types DEF CopyDone, Goto, requesterVars, taskVars,
       stagingVars, statusVars
  <1>16. ASSUME NEW r \in Requester, Notify(r) PROVE RunInv'
    BY <1>16, <1>types DEF Notify, Goto, BitOf, requesterVars, taskVars,
       stagingVars, statusVars
  <1>17. CASE Boot
    BY <1>17, <1>types DEF Boot, TGoto, requesterVars, taskVars,
       stagingVars, statusVars
  <1>18. CASE BootSet
    BY <1>18, <1>types DEF BootSet, TGoto, requesterVars, taskVars,
       stagingVars, statusVars
  <1>19. CASE TaskAcquire
    BY <1>19, <1>types DEF TaskAcquire, TGoto, LockFree, requesterVars,
       taskVars, stagingVars, statusVars
  <1>20. CASE Wake
    BY <1>20, <1>types DEF Wake, requesterVars, taskVars, stagingVars,
       statusVars
  <1>21. CASE Identify
    BY <1>21, <1>types DEF Identify, requesterVars, taskVars, stagingVars,
       statusVars
  <1>22. CASE ReportSet
    BY <1>22, <1>types DEF ReportSet, TGoto, requesterVars, taskVars,
       stagingVars, statusVars
  <1>23. CASE Erase
    BY <1>23, <1>types DEF Erase, Succeed, Fail, Blank, requesterVars,
       taskVars, stagingVars, statusVars
  <1>24. CASE Write
    BY <1>24, <1>types DEF Write, Succeed, Fail, Room, requesterVars,
       taskVars, stagingVars, statusVars
  <1>25. CASE Verify
    <2>1. tpc = "do" /\ phase = "verify" /\ result = 1 /\ pos[Task] = 0
      BY <1>25 DEF Verify
    <2>2. UNCHANGED <<staging, pos, installed, result>>
      BY <1>25 DEF Verify, Fail, stagingVars
    <2>3. CASE Verifies(staging)
      <3>1. tpc' = "report" /\ phase' = "install" /\ verified' = staging
        BY <1>25, <2>3 DEF Verify
      <3>2. Verifies(verified)'
        BY <2>3, <3>1 DEF Verifies
      <3>3. QED
        BY <1>types, <2>1, <2>2, <3>1, <3>2 DEF Chunk
    <2>4. CASE ~Verifies(staging)
      <3>1. tpc' = "report" /\ phase' = "verify_fail"
        BY <1>25, <2>4 DEF Verify, Fail
      <3>2. QED
        BY <2>1, <2>2, <3>1
    <2>5. QED
      BY <2>3, <2>4
  <1>26. CASE Install
    <2>1. /\ tpc = "do" /\ phase = "install" /\ result = 1
          /\ UNCHANGED staging /\ staging = verified /\ Verifies(verified)
          /\ \A c \in Chunk : c <= pos[Task] => installed[c] = staging[c]
      BY <1>26 DEF Install, stagingVars
    <2>2. CASE /\ pos[Task] < N
               /\ pos' = [pos EXCEPT ![Task] = @ + 1]
               /\ installed' = [installed EXCEPT ![pos[Task] + 1] =
                                                   staging[pos[Task] + 1]]
               /\ UNCHANGED <<tpc, phase, result, verified>>
      <3>1. Verifies(verified)'
        BY <2>1, <2>2 DEF Verifies
      <3>2. pos[Task] \in 0 .. N /\ pos'[Task] = pos[Task] + 1
        BY <1>types, <2>2
      <3>3. ASSUME NEW c \in Chunk, c <= pos'[Task]
            PROVE  installed'[c] = staging[c]
        BY <1>types, <2>1, <2>2, <3>2, <3>3 DEF Chunk, Flash
      <3>4. QED
        BY <2>1, <2>2, <3>1, <3>3
    <2>3. CASE /\ pos[Task] = N
               /\ pos' = [pos EXCEPT ![Task] = 0]
               /\ Succeed
               /\ UNCHANGED <<verified, installed>>
      <3>1. Verifies(verified)'
        BY <2>1, <2>3 DEF Verifies
      <3>2. pos'[Task] = 0
        BY <1>types, <2>3
      <3>3. \A c \in Chunk : installed'[c] = staging[c]
        BY <2>1, <2>3 DEF Chunk
      <3>4. QED
        BY <2>1, <2>3, <3>1, <3>2, <3>3 DEF Succeed
    <2>4. CASE /\ pos' = [pos EXCEPT ![Task] = 0]
               /\ Fail("install_fail")
      <3>1. pos'[Task] = 0
        BY <1>types, <2>4
      <3>2. QED
        BY <2>1, <2>4, <3>1 DEF Fail
    <2>5. QED
      BY <1>26, <2>2, <2>3, <2>4 DEF Install
  <1>27. CASE FinishSet
    <2>1. /\ tpc = "finishSet" /\ phase' = "none" /\ pos[Task] = 0
          /\ UNCHANGED <<staging, pos, verified, installed>> /\ result' = 1
          /\ tpc' \in {"settle", "wait"}
          /\ tpc' = "settle" => result = 0 /\ phase = "install"
      BY <1>27 DEF FinishSet, stagingVars
    <2>2. tpc' = "settle" => Verifies(installed)
      BY <2>1, <1>types DEF Verifies, Flash
    <2>3. QED
      BY <2>1, <2>2 DEF Verifies
  <1>28. CASE Reset
    BY <1>28, <1>types DEF Reset, Reboot, Blank, requesterVars, taskVars,
       stagingVars, statusVars
  <1>29. CASE UNCHANGED vars
    BY <1>29, <1>types DEF vars, requesterVars, taskVars, stagingVars, statusVars
  <1>30. QED
    BY <1>1, <1>2, <1>3, <1>4, <1>5, <1>6, <1>7, <1>8, <1>9, <1>10, <1>11,
       <1>12, <1>13, <1>14, <1>15, <1>16, <1>17, <1>18, <1>19, <1>20, <1>21,
       <1>22, <1>23, <1>24, <1>25, <1>26, <1>27, <1>28, <1>29
       DEF Next, InitTask, Serving, UpdateTask
-----------------------------------------------------------------------------
LEMMA InvInit == Init => IInv
  <1> SUFFICES ASSUME Init PROVE IInv
    OBVIOUS
  <1>1. TypeOK
    BY TypeInit
  <1>2. LockInv
    BY RequesterAssumption DEF Init, LockInv, Critical, NoOne, Task
  <1>3. SlotInv
    BY DEF Init, SlotInv, SlotState, SlotUser, Starting, Working, Owns, NULL,
           Task
  <1>4. RunInv
    BY DEF Init, RunInv, Working
  <1>5. QED
    BY <1>1, <1>2, <1>3, <1>4 DEF IInv

LEMMA InvStep == IInv /\ [Next]_vars => IInv'
  BY TypeStep, LockStep, SlotStep, RunStep DEF IInv

(* The inductive invariant holds: the mutex has one holder, the slot has one
   owner, and a run installs what it has verified. *)
THEOREM Invariance == Spec => []IInv
  BY InvInit, InvStep, PTL DEF Spec

(* Two notification bits are never pending together: the task, which clears
   them all and serves one, drops no accepted request. *)
LEMMA RequestsKept == IInv => NoLostRequest
  BY DEF IInv, SlotInv, SlotState, NoLostRequest

(* The reservation is exclusive for any number of requesters. *)
THEOREM Exclusive == Spec => []OneOwner
  <1>1. IInv => OneOwner
    BY RequestsKept DEF IInv, SlotInv, SlotState, SlotUser, OneOwner, Working
  <1>2. QED
    BY <1>1, Invariance, PTL

(* The staging area is the same when it is copied as when it was verified. *)
LEMMA StagingUntouched == IInv => StagingStable
  BY DEF IInv, RunInv, StagingStable

(* What the system is reset into has been verified, for any number of chunks
   and whoever else tries to use the updater in the meantime. *)
THEOREM OnlyVerifiedInstalled == Spec => []InstalledVerified
  <1>1. IInv => InstalledVerified
    BY StagingUntouched DEF IInv, RunInv, InstalledVerified
  <1>2. QED
    BY <1>1, Invariance, PTL
-----------------------------------------------------------------------------
(* Only these actions write to the staging area or to staging_buf. *)
LEMMA StagingWriters ==
  ASSUME [Next]_vars
  PROVE  \/ UNCHANGED staging
         \/ \E r \in Requester : CopyChunk(r)
         \/ Erase
         \/ Write
  BY DEF Next, InitTask, Serving, UpdateTask, TaskInit, StartRunning,
     StartCreate, StartFails, Reboot, Serve, CallControl, CallDirect, Acquire,
     Refuse, Accept, Claim, GiveBusy, GiveOk, CopyDone, Notify, Boot, BootSet,
     TaskAcquire, Wake, Identify, ReportSet, Verify, Install, FinishSet, Reset,
     vars, stagingVars

LEMMA BufferWriters ==
  ASSUME [Next]_vars
  PROVE  UNCHANGED stagingBuf \/ Reboot \/ \E r \in Requester : Claim(r)
  BY DEF Next, InitTask, Serving, UpdateTask, TaskInit, StartRunning,
     StartCreate, StartFails, Serve, CallControl, CallDirect, Acquire,
     Refuse, Accept, GiveBusy, GiveOk, CopyChunk, CopyDone, Notify, Boot,
     BootSet, TaskAcquire, Wake, Identify, ReportSet, Erase, Write, Verify,
     Install, FinishSet, Reset, vars, stagingVars

(* From the moment a request to run the update is accepted until the run ends
   nobody writes to the bytes it consumes. *)
THEOREM ConsumedBytes == Spec => ConsumedBytesKept
  <1>1. IInv /\ [Next]_vars => (RunPending /\ RunPending' => staging' = staging)
    <2> SUFFICES ASSUME IInv, [Next]_vars, RunPending PROVE staging' = staging
      OBVIOUS
    <2>1. ASSUME NEW r \in Requester, CopyChunk(r) PROVE FALSE
      <3>1. Owns(r) /\ op[r] = "stage" /\ tpc = "wait" /\ bits = {}
        BY <2>1 DEF CopyChunk, Owns, IInv, SlotInv, SlotUser
      <3>2. \A s \in Requester : Owns(s) => s = r
        BY <3>1 DEF IInv, SlotInv
      <3>3. QED
        BY <3>1, <3>2 DEF RunPending, Working
    <2>2. CASE Erase \/ Write
      <3>1. tpc = "do" /\ phase \in {"erase", "write"} /\ bits = {}
        BY <2>2 DEF Erase, Write, IInv, SlotInv, SlotState
      <3>2. \A r \in Requester : ~Owns(r)
        BY <3>1 DEF IInv, SlotInv, SlotUser
      <3>3. QED
        BY <3>1, <3>2 DEF RunPending
    <2>3. QED
      BY <2>1, <2>2, StagingWriters
  <1>2. QED
    BY <1>1, Invariance, PTL DEF Spec, ConsumedBytesKept

(* From the moment a request to write a chunk is accepted until the task has
   finished with it, staging_buf is not written to. *)
THEOREM WritesIntact == Spec => WriteIntact
  <1>1. IInv /\ [Next]_vars =>
          (WritePending /\ WritePending' => stagingBuf' = stagingBuf)
    <2> SUFFICES ASSUME IInv, [Next]_vars, WritePending, WritePending'
                 PROVE  stagingBuf' = stagingBuf
      OBVIOUS
    <2>1. running # 0
      BY DEF WritePending, IInv, SlotInv, SlotState, SlotUser
    <2>2. ASSUME NEW r \in Requester, Claim(r) PROVE FALSE
      BY <2>1, <2>2 DEF Claim, Goto, IInv, SlotInv, SlotUser
    <2>3. CASE Reboot
      BY <2>3 DEF Reboot, WritePending, Owns, Working
    <2>4. QED
      BY <2>2, <2>3, BufferWriters
  <1>2. QED
    BY <1>1, Invariance, PTL DEF Spec, WriteIntact
-----------------------------------------------------------------------------
(* The refinement.  Under the invariant the owner of the abstract slot is
   determined by where the task is, by the pending bits and by who owns. *)
Busy == Working /\ tpc # "settle"

OwnerCase ==
  /\ tpc = "off" \/ Starting => slotOwner = "booting"
  /\ tpc = "settle" => slotOwner = "resetting"
  /\ Busy \/ bits # {} => slotOwner = "updater"
  /\ \A r \in Requester : Owns(r) => slotOwner = r
  /\ (tpc = "wait" /\ bits = {} /\ \A r \in Requester : ~Owns(r))
       => slotOwner = "nobody"

LEMMA OwnerCases == IInv => OwnerCase
  <1> SUFFICES ASSUME IInv PROVE OwnerCase
    OBVIOUS
  <1>1. tpc = "off" \/ Starting => slotOwner = "booting"
    BY DEF slotOwner, Starting
  <1>2. tpc = "settle" => slotOwner = "resetting"
    BY DEF slotOwner
  <1>3. bits # {} => tpc = "wait"
    BY DEF IInv, SlotInv, SlotState
  <1>4. Busy \/ bits # {} => slotOwner = "updater"
    BY <1>3 DEF slotOwner, Busy, Working
  <1>5. ASSUME NEW r \in Requester, Owns(r) PROVE slotOwner = r
    <2>1. tpc = "wait" /\ bits = {}
      BY <1>5 DEF IInv, SlotInv, SlotUser
    <2>2. \A s \in Requester : Owns(s) <=> s = r
      BY <1>5 DEF IInv, SlotInv
    <2>3. slotOwner = CHOOSE s \in Requester : Owns(s)
      BY <1>5, <2>1 DEF slotOwner, Working
    <2>4. (CHOOSE s \in Requester : Owns(s)) = r
      BY <1>5, <2>2, Zenon
    <2>5. QED
      BY <2>3, <2>4
  <1>6. (tpc = "wait" /\ bits = {} /\ \A r \in Requester : ~Owns(r))
          => slotOwner = "nobody"
    BY DEF slotOwner, Working
  <1>7. QED
    BY <1>1, <1>2, <1>4, <1>5, <1>6 DEF OwnerCase

(* The step of the slot that each step of the updater is. *)
LEMMA SlotSteps ==
  ASSUME IInv, IInv', [Next]_vars
  PROVE  [Slot!Next]_slotOwner
  <1> USE DEF Slot!Next, Slot!Move, Slot!Start, Slot!Grant, Slot!HandOver,
       Slot!Release, Slot!Commit, Slot!Restart, Slot!Booting, Slot!Nobody,
       Slot!Updater, Slot!Resetting
  <1>now. OwnerCase
    BY OwnerCases
  <1>then. OwnerCase'
    BY OwnerCases, PTL
  <1>types. /\ tpc \in {"off", "boot", "bootLock", "bootSet", "wait", "identify",
                        "report", "reportSet", "do", "finish", "finishSet",
                        "settle"}
            /\ pc \in [Requester -> {"idle", "want", "check", "claim",
                                     "giveBusy", "giveOk", "copy", "notify"}]
    BY DEF IInv, TypeOK
  <1>same. ASSUME UNCHANGED <<tpc, bits>>,
                  \A r \in Requester : Owns(r)' <=> Owns(r)
           PROVE  UNCHANGED slotOwner
    BY <1>now, <1>then, <1>types, <1>same
       DEF OwnerCase, Starting, Busy, Working
  <1>1. CASE TaskInit
    BY <1>1, <1>same DEF TaskInit, requesterVars, taskVars, Owns
  <1>2. CASE StartRunning
    BY <1>2, <1>same DEF StartRunning, requesterVars, taskVars, Owns
  <1>3. CASE Serve
    BY <1>3, <1>same DEF Serve, requesterVars, taskVars, Owns
  <1>4. CASE StartCreate
    <2>1. tpc' = "boot" /\ tpc = "off"
      BY <1>4 DEF StartCreate, IInv, SlotInv, SlotState
    <2>2. QED
      BY <2>1, <1>now, <1>then DEF OwnerCase, Starting
  <1>5. CASE StartFails
    <2>1. tpc' = "off" /\ tpc = "off"
      BY <1>5 DEF StartFails, Reboot, IInv, SlotInv, SlotState
    <2>2. QED
      BY <2>1, <1>now, <1>then DEF OwnerCase
  <1>6. ASSUME NEW r \in Requester, CallControl(r) PROVE UNCHANGED slotOwner
    BY <1>6, <1>types, <1>same DEF CallControl, Goto, taskVars, Owns
  <1>7. ASSUME NEW r \in Requester, CallDirect(r) PROVE UNCHANGED slotOwner
    BY <1>7, <1>types, <1>same DEF CallDirect, Goto, taskVars, Owns
  <1>8. ASSUME NEW r \in Requester, Acquire(r) PROVE UNCHANGED slotOwner
    BY <1>8, <1>types, <1>same DEF Acquire, Goto, taskVars, Owns
  <1>9. ASSUME NEW r \in Requester, Refuse(r) PROVE UNCHANGED slotOwner
    BY <1>9, <1>types, <1>same DEF Refuse, Goto, taskVars, Owns
  <1>10. ASSUME NEW r \in Requester, Accept(r) PROVE UNCHANGED slotOwner
    BY <1>10, <1>types, <1>same DEF Accept, Goto, taskVars, Owns
  <1>11. ASSUME NEW r \in Requester, GiveBusy(r) PROVE UNCHANGED slotOwner
    BY <1>11, <1>types, <1>same DEF GiveBusy, Goto, AfterBusy, taskVars, Owns
  <1>12. ASSUME NEW r \in Requester, GiveOk(r) PROVE UNCHANGED slotOwner
    BY <1>12, <1>types, <1>same DEF GiveOk, Goto, taskVars, Owns
  <1>13. ASSUME NEW r \in Requester, CopyChunk(r) PROVE UNCHANGED slotOwner
    BY <1>13, <1>types, <1>same DEF CopyChunk, requesterVars, taskVars, Owns
  <1>14. ASSUME NEW r \in Requester, CopyDone(r) PROVE UNCHANGED slotOwner
    BY <1>14, <1>types, <1>same DEF CopyDone, Goto, taskVars, Owns
  <1>15. ASSUME NEW r \in Requester, Claim(r) PROVE slotOwner = "nobody" /\ slotOwner' = r
    <2>1. /\ pc[r] = "claim" /\ Owns(r)'
          /\ running = 0 /\ handle = Task
      BY <1>15, <1>types DEF Claim, Goto, Owns, IInv, SlotInv, SlotUser
    <2>2. tpc = "wait" /\ bits = {}
      BY <2>1, <1>types DEF IInv, SlotInv, SlotState, Starting, Working
    <2>3. \A s \in Requester : ~Owns(s)
      BY <2>1 DEF IInv, SlotInv, SlotUser
    <2>4. QED
      BY <2>1, <2>2, <2>3, <1>now, <1>then DEF OwnerCase
  <1>16. ASSUME NEW r \in Requester, Notify(r)
       PROVE  slotOwner = r /\ slotOwner' = "updater"
    <2>1. Owns(r) /\ bits' # {}
      BY <1>16 DEF Notify, Goto, Owns
    <2>2. QED
      BY <2>1, <1>now, <1>then DEF OwnerCase
  <1>17. CASE Boot
    BY <1>17, <1>now, <1>then DEF OwnerCase, Boot, TGoto, Starting
  <1>18. CASE BootSet
    <2>1. /\ tpc = "bootSet" /\ tpc' = "wait" /\ bits = {} /\ bits' = {} /\ pc' = pc
      BY <1>18 DEF BootSet, TGoto, requesterVars, IInv, SlotInv, SlotState, Starting
    <2>2. \A r \in Requester : ~Owns(r)'
      BY <2>1 DEF IInv, SlotInv, SlotUser, Owns
    <2>3. QED
      BY <2>1, <2>2, <1>now, <1>then DEF OwnerCase, Starting
  <1>19. CASE TaskAcquire
    BY <1>19, <1>now, <1>then
       DEF OwnerCase, TaskAcquire, TGoto, Starting, Busy, Working
  <1>20. CASE Wake
    <2>1. bits # {} /\ tpc' \in {"identify", "report"}
      BY <1>20 DEF Wake
    <2>2. QED
      BY <2>1, <1>now, <1>then DEF OwnerCase, Busy, Working
  <1>21. CASE Identify
    <2>1. Busy /\ Busy'
      BY <1>21 DEF Identify, Busy, Working
    <2>2. QED
      BY <2>1, <1>now, <1>then DEF OwnerCase
  <1>22. CASE ReportSet
    <2>1. Busy /\ Busy'
      BY <1>22 DEF ReportSet, TGoto, Busy, Working
    <2>2. QED
      BY <2>1, <1>now, <1>then DEF OwnerCase
  <1>23. CASE Erase
    <2>1. Busy /\ Busy'
      BY <1>23 DEF Erase, Succeed, Fail, Busy, Working
    <2>2. QED
      BY <2>1, <1>now, <1>then DEF OwnerCase
  <1>24. CASE Write
    <2>1. Busy /\ Busy'
      BY <1>24 DEF Write, Succeed, Fail, Busy, Working
    <2>2. QED
      BY <2>1, <1>now, <1>then DEF OwnerCase
  <1>25. CASE Verify
    <2>1. Busy /\ Busy'
      BY <1>25 DEF Verify, Fail, Busy, Working
    <2>2. QED
      BY <2>1, <1>now, <1>then DEF OwnerCase
  <1>26. CASE Install
    <2>1. Busy /\ Busy'
      BY <1>26 DEF Install, Succeed, Fail, Busy, Working
    <2>2. QED
      BY <2>1, <1>now, <1>then DEF OwnerCase
  <1>27. CASE FinishSet
    <2>1. /\ Busy /\ tpc' \in {"settle", "wait"} /\ bits = {} /\ bits' = bits
          /\ pc' = pc
      BY <1>27 DEF FinishSet, requesterVars, IInv, SlotInv, SlotState, Busy, Working
    <2>2. \A r \in Requester : ~Owns(r)'
      BY <2>1 DEF IInv, SlotInv, SlotUser, Owns, Busy, Working
    <2>3. QED
      BY <2>1, <2>2, <1>now, <1>then DEF OwnerCase
  <1>28. CASE Reset
    BY <1>28, <1>now, <1>then DEF OwnerCase, Reset, Reboot
  <1>29. CASE UNCHANGED vars
    BY <1>29, <1>same DEF vars, requesterVars, taskVars, Owns
  <1>30. QED
    BY <1>1, <1>2, <1>3, <1>4, <1>5, <1>6, <1>7, <1>8, <1>9, <1>10, <1>11,
       <1>12, <1>13, <1>14, <1>15, <1>16, <1>17, <1>18, <1>19, <1>20, <1>21,
       <1>22, <1>23, <1>24, <1>25, <1>26, <1>27, <1>28, <1>29
       DEF Next, InitTask, Serving, UpdateTask

(* Every behaviour of the updater and its requesters is, seen from the owner of
   the staging area, one of the exclusive slot of UpdateSlot. *)
THEOREM ImplementsSlotSafely == Spec => Slot!Safe
  <1>1. Init => Slot!Init
    BY DEF Init, Slot!Init, Slot!Booting, slotOwner
  <1>2. QED
    BY <1>1, SlotSteps, Invariance, PTL DEF Spec, Slot!Safe
=============================================================================
