----------------------------- MODULE NclEngines -----------------------------
(***************************************************************************)
(* The crypto engines of L1 (common/crypto/tip_*_ncl.c) as the tasks share *)
(* them: one mutex, ncl_shared_state, for every call to the crypto library *)
(* of the ROM.                                                             *)
(*                                                                         *)
(* An operation of an engine is a sequence of critical sections, and a     *)
(* critical section a sequence of calls to the ROM, any of which may fail. *)
(* Between two sections of an operation another task may run the hardware. *)
(* The hash engine is also behind shared_hash, a lock that is held from    *)
(* the start of a hash to its end; bmc_export_data calls the engine past   *)
(* that lock.                                                              *)
(*                                                                         *)
(* The ROM is modelled from what tip_ncl_rom_if.h says of its calls: one   *)
(* of the keys in the AES hardware is selected, the others stay in it, and *)
(* a key is set where one is selected.  Software sets key 0; the keys of   *)
(* the OTP cannot be changed.                                              *)
(***************************************************************************)
EXTENDS Integers, Sequences, SequencesExt

CONSTANTS
  NoTask,
  Jobs       \* Jobs[t]: the operations that task t uses

Tasks == DOMAIN Jobs

(* The critical sections of each operation, and the calls in each; SetCurve
   stands for the initialisation of the context before it, too.
   "fw": firmware under the key of the device in the OTP; "direct": AES for
   the BMC; "session": AES-GCM of a session with the BMC; "hash": tip_image_hash
   with shared_hash; "calc": a hash in one call of shared_hash; "export": the same
   without shared_hash; "pka": a public key, a key pair, a verification; "sign":
   a signature or a shared secret. *)
Op == {"fw", "direct", "session", "hash", "calc", "export", "pka", "sign"}

WrongAesFw == << <<"SetParams", "Cipher">> >>
AesFw      == << <<"SelectOtp">>, <<"SetParams", "Cipher">> >>
AesDirect  == << <<"SetKey">>, <<"SetParams", "Cipher">> >>
AesSession == << <<"SetKey">>, <<"SelectSoft", "SetParams">>, <<"Cipher">> >>
HashParts  == << <<"Reset", "Start">>, <<"Update">>, <<"Finish">> >>
HashCalc   == << <<"Reset", "Calc">> >>

WrongPka == << <<"SetCurve">>, <<"Compute">> >>
Pka      == << <<"SetCurve", "Compute">> >>
Sign     == << <<"SetCurve", "Compute">> >>

Sections(op) ==
  CASE op = "fw"      -> AesFw
    [] op = "direct"  -> AesDirect
    [] op = "session" -> AesSession
    [] op = "hash"    -> HashParts
    [] op = "pka"     -> Pka
    [] op = "sign"    -> Sign
    [] OTHER          -> HashCalc

ASSUME JobsAssumption == \A t \in Tasks : Jobs[t] \subseteq Op /\ NoTask # t

VARIABLES
  mutex,    \* ncl_shared_state: the task that has it, or NoTask
  shared,   \* shared_hash: the task that has it, or NoTask
  active,   \* state->active of the hash engine
  ctx,      \* the task whose hash is in the context of the hash engine
  parts,    \* the pieces of data in that hash
  hw,       \* whose key, parameters and curve are in the hardware
  at,       \* where each task is
  clean,    \* history: 0 once what a task set may not be what it uses
  unfinished \* history: the task whose hash the ROM failed to finish

hash == <<active, ctx, parts>>
vars == <<mutex, shared, hash, hw, at, clean, unfinished>>

Idle == [pc |-> "idle", op |-> "none", sec |-> 0, call |-> 0]

Calls(t) == Sections(at[t].op)[at[t].sec]
CallOf(t) == Calls(t)[at[t].call]
Aes(t)   == at[t].op \in {"fw", "direct", "session"}

(* The operations that hold shared_hash from their start to their end. *)
Wrapped(op) == op \in {"hash", "calc"}

Init ==
  /\ mutex = NoTask /\ shared = NoTask
  /\ active = 0 /\ ctx = NoTask /\ parts = 0
  /\ hw = [sel |-> "soft", soft |-> NoTask, params |-> NoTask, curve |-> NoTask]
  /\ at = [t \in Tasks |-> Idle]
  /\ clean = [t \in Tasks |-> 1]
  /\ unfinished = NoTask

Goto(t, pc) == at' = [at EXCEPT ![t].pc = pc]

(* The task returns from the operation; what has shared_hash unlocks it. *)
Return(t) ==
  /\ at' = [at EXCEPT ![t] = Idle]
  /\ clean' = [clean EXCEPT ![t] = 1]
  /\ shared' = IF Wrapped(at[t].op) THEN NoTask ELSE shared

(* What follows the entry: a hash in one call, and start_sha384 and start_sha512,
   which tip_image_hash calls, test active first. *)
Entry(op) == IF op \in {"hash", "calc", "export"} THEN "test" ELSE "lock"

(* A task calls an operation. *)
Begin(t, op) ==
  /\ at[t] = Idle
  /\ at' = [at EXCEPT ![t] = [pc |-> IF Wrapped(op) THEN "shared" ELSE Entry(op),
                              op |-> op, sec |-> 1, call |-> 1]]
  /\ UNCHANGED <<mutex, shared, hash, hw, clean, unfinished>>

(* An export is between its test of active and its return. *)
Exporting == \E t \in Tasks : at[t].op = "export" /\ at[t].pc \in {"lock", "call"}

(* hash_thread_safe *)
LockShared(t) ==
  /\ at[t].pc = "shared" /\ shared = NoTask
  /\ shared' = t
  /\ Goto(t, Entry(at[t].op))
  /\ clean' = [clean EXCEPT ![t] = IF Exporting THEN 0 ELSE @]
  /\ UNCHANGED <<mutex, hash, hw, unfinished>>

(* "if (active != HASH_ACTIVE_NONE)", read without the lock of the library. *)
WrongMayCalculate == TRUE
MayCalculate      == active = 0

Test(t) ==
  /\ at[t].pc = "test"
  /\ \/ /\ MayCalculate
        /\ Goto(t, "lock")
        /\ clean' = [u \in Tasks |->
                       IF u # t /\ shared = u /\ active = 0 THEN 0 ELSE clean[u]]
        /\ UNCHANGED shared
     \/ ~MayCalculate /\ Return(t)
  /\ UNCHANGED <<mutex, hash, hw, unfinished>>

Lock(t) ==
  /\ at[t].pc = "lock" /\ mutex = NoTask
  /\ mutex' = t
  /\ Goto(t, "call")
  /\ UNCHANGED <<shared, hash, hw, clean, unfinished>>
-----------------------------------------------------------------------------
(* The calls to the ROM.                                                   *)

Hardware(t) ==
  CASE CallOf(t) = "SelectOtp"  -> hw' = [hw EXCEPT !.sel = "otp"]
    [] CallOf(t) = "SelectSoft" -> hw' = [hw EXCEPT !.sel = "soft"]
    [] CallOf(t) = "SetKey"     -> hw' = [hw EXCEPT !.soft =
                                            IF hw.sel = "soft" THEN t ELSE @]
    [] CallOf(t) = "SetParams"  -> hw' = [hw EXCEPT !.params = t]
    [] CallOf(t) = "SetCurve"   -> hw' = [hw EXCEPT !.curve = t]
    [] OTHER                    -> UNCHANGED hw

(* Disturbed by a call: the tasks between two sections of an AES operation, if
   the call is another one of AES, and the task itself, if it sets its key
   where a key of the OTP is selected.  For the hashes that the export
   disturbs see LockShared and Test. *)
Disturbed(t) ==
  {u \in Tasks \ {t} : Aes(t) /\ Aes(u) /\ at[u].sec > 1}
    \cup {u \in {t} : CallOf(t) = "SetKey" /\ hw.sel = "otp"}

Disturb(t) == clean' = [u \in Tasks |-> IF u \in Disturbed(t) THEN 0 ELSE clean[u]]

(* tip_hash_ncl_free_context *)
WrongFreeContext == ctx' = NoTask /\ parts' = 0 /\ UNCHANGED active
FreeContext      == ctx' = NoTask /\ parts' = 0 /\ active' = 0

HashCall(t) ==
  CASE CallOf(t) = "Reset"  -> ctx' = NoTask /\ parts' = 0 /\ UNCHANGED active
    [] CallOf(t) = "Start"  -> ctx' = t /\ UNCHANGED <<active, parts>>
    [] CallOf(t) = "Update" -> parts' = parts + (IF ctx = t THEN 1 ELSE 0)
                               /\ UNCHANGED <<active, ctx>>
    [] CallOf(t) = "Finish" -> FreeContext
    [] OTHER                -> UNCHANGED hash

(* Before it locks, tip_hash_ncl_update looks at active; finish does after. *)
EntryOf(op, sec) ==
  IF Sections(op)[sec][1] = "Update" THEN "update" ELSE "lock"

NextSection(t) ==
  at' = [at EXCEPT ![t].pc = EntryOf(at[t].op, at[t].sec + 1),
                   ![t].sec = @ + 1, ![t].call = 1]

(* After a section: the next one, or the return; start_sha* sets active when
   it has unlocked the state. *)
AfterSection(t) ==
  IF at[t].op = "hash" /\ at[t].sec = 1
    THEN Goto(t, "active") /\ UNCHANGED shared /\ Disturb(t)
  ELSE IF at[t].sec = Len(Sections(at[t].op)) THEN Return(t)
  ELSE NextSection(t) /\ UNCHANGED shared /\ Disturb(t)

(* One call that succeeds; the last one of a section unlocks the state. *)
Call(t) ==
  /\ at[t].pc = "call"
  /\ CallOf(t) = "Finish" => active = 1
  /\ Hardware(t) /\ HashCall(t)
  /\ IF at[t].call < Len(Calls(t))
       THEN /\ at' = [at EXCEPT ![t].call = @ + 1]
            /\ UNCHANGED <<mutex, shared>> /\ Disturb(t)
       ELSE /\ mutex' = NoTask
            /\ AfterSection(t)
  /\ UNCHANGED unfinished

(* NCL_STATUS_RET_CHECK_MUTEX *)
WrongUnlocked == mutex
Unlocked      == NoTask

(* A call that fails: the state is unlocked and the operation returns an error,
   but tip_image_hash cancels the hash when an update fails. *)
Fail(t) ==
  /\ at[t].pc = "call" /\ CallOf(t) # "Finish"
  /\ mutex' = Unlocked
  /\ IF CallOf(t) = "Update" THEN Goto(t, "cancel") /\ UNCHANGED <<shared, clean>>
                             ELSE Return(t)
  /\ UNCHANGED <<hash, hw, unfinished>>

(* The ROM fails to finish: active stays set, tip_image_hash returns without
   canceling, and shared_hash, which only a finish that succeeds or a cancel
   unlocks, stays with the task. *)
FinishFails(t) ==
  /\ at[t].pc = "call" /\ CallOf(t) = "Finish"
  /\ mutex' = NoTask
  /\ at' = [at EXCEPT ![t] = Idle]
  /\ clean' = [clean EXCEPT ![t] = 1]
  /\ unfinished' = t
  /\ UNCHANGED <<shared, hash, hw>>

(* ecdsa_sign and ecdh_compute overwrite the status of SetCurve and go on, with
   the curve that is set or with none. *)
CurveFails(t) ==
  /\ at[t].pc = "call" /\ at[t].op = "sign" /\ CallOf(t) = "SetCurve"
  /\ \E curve \in {hw.curve, NoTask} : hw' = [hw EXCEPT !.curve = curve]
  /\ at' = [at EXCEPT ![t].call = @ + 1]
  /\ clean' = [clean EXCEPT ![t] = 0]
  /\ UNCHANGED <<mutex, shared, hash, unfinished>>

(* "engine->state->active = HASH_ACTIVE_SHA256" *)
SetActive(t) ==
  /\ at[t].pc = "active"
  /\ active' = 1
  /\ NextSection(t)
  /\ UNCHANGED <<mutex, shared, ctx, parts, hw, clean, unfinished>>

TestUpdate(t) ==
  /\ at[t].pc = "update"
  /\ Goto(t, IF active = 1 THEN "lock" ELSE "cancel")
  /\ UNCHANGED <<mutex, shared, hash, hw, clean, unfinished>>

(* tip_hash_ncl_cancel *)
Cancel(t) ==
  /\ at[t].pc = "cancel" /\ mutex = NoTask
  /\ FreeContext
  /\ Return(t)
  /\ UNCHANGED <<mutex, hw, unfinished>>

Step(t) ==
  \/ LockShared(t) \/ Test(t) \/ Lock(t) \/ Call(t) \/ Fail(t)
  \/ FinishFails(t) \/ CurveFails(t) \/ SetActive(t) \/ TestUpdate(t) \/ Cancel(t)

Next == \E t \in Tasks : Step(t) \/ \E op \in Jobs[t] : Begin(t, op)

Spec == Init /\ [][Next]_vars

(* Every task runs on; a task that waits for a lock that is free again and
   again gets it. *)
Fairness == \A t \in Tasks : SF_vars(Step(t))

FairSpec == Spec /\ Fairness
-----------------------------------------------------------------------------
(* Properties.                                                             *)

Pcs == {"idle", "shared", "test", "lock", "call", "active", "update", "cancel"}

TypeOK ==
  /\ mutex \in Tasks \cup {NoTask} /\ shared \in Tasks \cup {NoTask}
  /\ active \in 0 .. 1 /\ ctx \in Tasks \cup {NoTask} /\ parts \in 0 .. 1
  /\ hw \in [sel : {"soft", "otp"}, soft : Tasks \cup {NoTask},
              params : Tasks \cup {NoTask}, curve : Tasks \cup {NoTask}]
  /\ \A t \in Tasks :
       /\ at[t].pc \in Pcs /\ at[t].op \in Jobs[t] \cup {"none"}
       /\ at[t].sec \in 0 .. 3 /\ at[t].call \in 0 .. 2
       /\ at[t].pc = "call" <=> mutex = t
  /\ clean \in [Tasks -> 0 .. 1] /\ unfinished \in Tasks \cup {NoTask}

Calling(t, call) == at[t].pc = "call" /\ CallOf(t) = call

KeyOf(op) == IF op = "fw" THEN "otp" ELSE "soft"

KeyIsOwn(t) ==
  /\ hw.sel = KeyOf(at[t].op)
  /\ hw.sel = "soft" => hw.soft = t

(* "Implementations provide lock/unlock to serialize hardware access".  What
   one critical section sets and uses, the parameters of AES other than GCM and
   the curve of ECC, is never another task's, but when a signature or a shared
   secret is computed although its curve could not be set.  A key is set or
   selected in one section and used in a later one: an AES operation works under
   its own key, in spite of the keys that earlier operations left selected,
   unless an AES operation of another task came between its sections or its key
   was set where a key of the OTP was selected. *)
OwnKey ==
  \A t \in Tasks :
    /\ Calling(t, "Cipher") /\ at[t].op # "session" => hw.params = t
    /\ Calling(t, "Compute") /\ (at[t].op = "pka" \/ clean[t] = 1) => hw.curve = t
    /\ Calling(t, "Cipher") /\ clean[t] = 1 => KeyIsOwn(t) /\ hw.params = t

(* "Engine that will be shared between multiple components": a hash that is
   computed with shared_hash is the hash of its own data, all of it, unless it
   started when the export to the BMC had already found the engine free. *)
DigestWhole ==
  \A t \in Tasks :
    Calling(t, "Finish") /\ clean[t] = 1 => active = 1 /\ ctx = t /\ parts = 1

(* The task is between the start and the end of a hash with shared_hash. *)
Holds(t) == Wrapped(at[t].op) /\ at[t].pc # "shared"

(* A hash that fails half-way does not leave the engine active, which would
   refuse every later hash, nor shared_hash locked: both belong to a hash that
   goes on.  Only if the ROM fails to finish, the engine stays active and the
   lock with the task that does not come back for it. *)
NotLeftActive ==
  /\ active = 1 => shared # NoTask
  /\ shared # NoTask => Holds(shared) \/ unfinished = shared
  /\ unfinished # NoTask => active = 1 /\ shared = unfinished

(* Whatever call of the ROM fails, every operation of every task returns, but for
   those that wait for shared_hash after a hash that was not finished. *)
Returns ==
  \A t \in Tasks :
    at[t] # Idle ~> at[t] = Idle \/ (at[t].pc = "shared" /\ unfinished # NoTask)
=============================================================================
