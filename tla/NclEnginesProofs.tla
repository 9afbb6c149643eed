-------------------------- MODULE NclEnginesProofs --------------------------
(***************************************************************************)
(* Proofs about NclEngines, for any set of tasks and whatever operations   *)
(* they use.                                                               *)
(*                                                                         *)
(* The argument: the task that has shared_hash is the only one between the *)
(* start and the end of a wrapped hash, so that active, the context and    *)
(* the data belong to it; and of what is in the AES hardware, a task that  *)
(* nobody disturbed knows what its earlier sections left there.            *)
(***************************************************************************)
EXTENDS NclEngines, TLAPS

(* The places of an operation: its sections and the calls in each. *)
Placed(t) ==
  /\ at[t].op \in Jobs[t] \cup {"none"}
  /\ at[t].op = "none" => at[t] = Idle
  /\ at[t].pc = "idle" => at[t].op = "none"
  /\ at[t].op # "none" => at[t].sec >= 1 /\ at[t].call >= 1
  /\ at[t].sec >= 2 => at[t].op \in {"fw", "direct", "session", "hash"}
  /\ at[t].sec = 3  => at[t].op \in {"session", "hash"}
  /\ at[t].call = 2 =>
       /\ at[t].pc \in {"call", "active"}
       /\ \/ at[t].sec = 1 /\ at[t].op \in {"hash", "calc", "export", "pka", "sign"}
          \/ at[t].sec = 2 /\ at[t].op \in {"fw", "direct", "session"}
  /\ at[t].pc = "shared" => Wrapped(at[t].op) /\ at[t].sec = 1
  /\ at[t].pc = "test"   => at[t].op \in {"hash", "calc", "export"} /\ at[t].sec = 1
  /\ at[t].pc = "active" => at[t].op = "hash" /\ at[t].sec = 1
  /\ at[t].pc = "update" => at[t].op = "hash" /\ at[t].sec = 2
  /\ at[t].pc = "cancel" => at[t].op = "hash" /\ at[t].sec >= 2

Record == [pc : Pcs, op : Op \cup {"none"}, sec : 0 .. 3, call : 0 .. 2]

AtInv ==
  /\ at \in [Tasks -> Record]
  /\ \A t \in Tasks : Placed(t)

(* shared_hash is had from the start of a wrapped hash to its end, and for ever
   after one that was not finished. *)
SharedInv ==
  \A t \in Tasks : /\ shared = t <=> Holds(t) \/ unfinished = t
                   /\ ~(Holds(t) /\ unfinished = t)

(* The task has shared_hash for a hash in parts. *)
Hashing(t) == at[t].op = "hash" /\ at[t].pc # "shared"

(* The engine is active for the hash in parts that is past its first section, or
   was not finished; its context and data are right unless the export came in
   between. *)
HashInv ==
  /\ active = 1 => \/ \E t \in Tasks : Hashing(t) /\ at[t].sec >= 2
                   \/ unfinished # NoTask
  /\ unfinished # NoTask => active = 1
  /\ \A t \in Tasks : Hashing(t) =>
       /\ at[t].sec >= 2 => active = 1
       /\ at[t].call = 2 \/ at[t].pc = "active" \/ at[t].sec = 2 => parts = 0
       /\ clean[t] = 1 =>
            /\ ~Exporting
            /\ at[t].pc = "active" => ctx = t
            /\ at[t].sec >= 2 /\ at[t].pc # "cancel" => ctx = t
            /\ at[t].sec = 3 /\ at[t].pc # "cancel" => parts = 1

(* What the hardware holds for a task. *)
KeyInv ==
  \A t \in Tasks :
    /\ at[t].call = 2 /\ at[t].op \in {"fw", "direct"} => hw.params = t
    /\ at[t].call = 2 /\ at[t].op = "pka" => hw.curve = t
    /\ at[t].call = 2 /\ at[t].op = "sign" /\ clean[t] = 1 => hw.curve = t
    /\ at[t].sec >= 2 /\ clean[t] = 1 =>
         /\ at[t].op = "fw" => hw.sel = "otp"
         /\ at[t].op \in {"direct", "session"} => hw.sel = "soft" /\ hw.soft = t
         /\ at[t].op = "session" /\ at[t].sec = 3 => hw.params = t

IInv == TypeOK /\ AtInv /\ SharedInv /\ HashInv /\ KeyInv
-----------------------------------------------------------------------------
(* The sections of the operations, one by one. *)
LEMMA SectionTable ==
  /\ Len(Sections("fw")) = 2
  /\ Len(Sections("fw")[1]) = 1 /\ Sections("fw")[1][1] = "SelectOtp"
  /\ Len(Sections("fw")[2]) = 2 /\ Sections("fw")[2][1] = "SetParams"
                                /\ Sections("fw")[2][2] = "Cipher"
  /\ Len(Sections("direct")) = 2
  /\ Len(Sections("direct")[1]) = 1 /\ Sections("direct")[1][1] = "SetKey"
  /\ Len(Sections("direct")[2]) = 2 /\ Sections("direct")[2][1] = "SetParams"
                                    /\ Sections("direct")[2][2] = "Cipher"
  /\ Len(Sections("session")) = 3
  /\ Len(Sections("session")[1]) = 1 /\ Sections("session")[1][1] = "SetKey"
  /\ Len(Sections("session")[2]) = 2 /\ Sections("session")[2][1] = "SelectSoft"
                                     /\ Sections("session")[2][2] = "SetParams"
  /\ Len(Sections("session")[3]) = 1 /\ Sections("session")[3][1] = "Cipher"
  /\ Len(Sections("hash")) = 3
  /\ Len(Sections("hash")[1]) = 2 /\ Sections("hash")[1][1] = "Reset"
                                  /\ Sections("hash")[1][2] = "Start"
  /\ Len(Sections("hash")[2]) = 1 /\ Sections("hash")[2][1] = "Update"
  /\ Len(Sections("hash")[3]) = 1 /\ Sections("hash")[3][1] = "Finish"
  /\ \A op \in {"pka", "sign"} :
       /\ Len(Sections(op)) = 1
       /\ Len(Sections(op)[1]) = 2 /\ Sections(op)[1][1] = "SetCurve"
                                   /\ Sections(op)[1][2] = "Compute"
  /\ \A op \in {"calc", "export"} :
       /\ Len(Sections(op)) = 1
       /\ Len(Sections(op)[1]) = 2 /\ Sections(op)[1][1] = "Reset"
                                   /\ Sections(op)[1][2] = "Calc"
  BY DEF Sections, AesFw, AesDirect, AesSession, HashParts, HashCalc, Pka, Sign

LEMMA EntryTable ==
  /\ EntryOf("fw", 2) = "lock" /\ EntryOf("direct", 2) = "lock"
  /\ EntryOf("session", 2) = "lock" /\ EntryOf("session", 3) = "lock"
  /\ EntryOf("hash", 2) = "update" /\ EntryOf("hash", 3) = "lock"
  BY SectionTable DEF EntryOf

(* Task t is at this call: one after which its section goes on, the last of a
   section, the last of the operation. *)
Place(t, op, sec, call, name) ==
  at[t].op = op /\ at[t].sec = sec /\ at[t].call = call /\ CallOf(t) = name

InnerCall(t) ==
  \/ Place(t, "fw", 2, 1, "SetParams") \/ Place(t, "direct", 2, 1, "SetParams")
  \/ Place(t, "session", 2, 1, "SelectSoft") \/ Place(t, "hash", 1, 1, "Reset")
  \/ Place(t, "pka", 1, 1, "SetCurve") \/ Place(t, "sign", 1, 1, "SetCurve")
  \/ Place(t, "calc", 1, 1, "Reset") \/ Place(t, "export", 1, 1, "Reset")

LastCall(t) ==
  \/ Place(t, "fw", 1, 1, "SelectOtp") \/ Place(t, "direct", 1, 1, "SetKey")
  \/ Place(t, "session", 1, 1, "SetKey") \/ Place(t, "session", 2, 2, "SetParams")
  \/ Place(t, "hash", 1, 2, "Start") \/ Place(t, "hash", 2, 1, "Update")

FinalCall(t) ==
  \/ Place(t, "fw", 2, 2, "Cipher") \/ Place(t, "direct", 2, 2, "Cipher")
  \/ Place(t, "session", 3, 1, "Cipher") \/ Place(t, "hash", 3, 1, "Finish")
  \/ Place(t, "pka", 1, 2, "Compute") \/ Place(t, "sign", 1, 2, "Compute")
  \/ Place(t, "calc", 1, 2, "Calc") \/ Place(t, "export", 1, 2, "Calc")

GoesOn(t) == at[t].call < Len(Calls(t))
AtEnd(t)  == at[t].sec = Len(Sections(at[t].op))

LEMMA PlaceOfCall ==
  ASSUME AtInv, NEW t \in Tasks, at[t].pc = "call"
  PROVE  InnerCall(t) \/ LastCall(t) \/ FinalCall(t)
  <1>1. /\ at[t].op \in Op /\ at[t].sec \in 1 .. 3 /\ at[t].call \in 1 .. 2
    BY JobsAssumption DEF AtInv, Placed, Record, Pcs, Op, Idle
  <1>2. QED
    BY <1>1, SectionTable
    DEF AtInv, Placed, InnerCall, LastCall, FinalCall, Place, CallOf, Calls, Op

LEMMA InnerGoesOn == ASSUME NEW t, InnerCall(t) PROVE GoesOn(t)
  <1>1. at[t].call = 1 /\ Len(Calls(t)) = 2
    BY SectionTable DEF InnerCall, Place, Calls
  <1>2. QED
    BY <1>1 DEF GoesOn

LEMMA LastUnlocks == ASSUME NEW t, LastCall(t) PROVE ~GoesOn(t) /\ ~AtEnd(t)
  <1>1. /\ \/ at[t].call = 1 /\ Len(Calls(t)) = 1
           \/ at[t].call = 2 /\ Len(Calls(t)) = 2
        /\ at[t].sec \in {1, 2} /\ Len(Sections(at[t].op)) \in {2, 3}
        /\ at[t].sec # Len(Sections(at[t].op))
    BY SectionTable DEF LastCall, Place, Calls
  <1>2. ~GoesOn(t)
    <2>1. CASE at[t].call = 1 /\ Len(Calls(t)) = 1
      BY <2>1 DEF GoesOn
    <2>2. CASE at[t].call = 2 /\ Len(Calls(t)) = 2
      BY <2>2 DEF GoesOn
    <2>3. QED
      BY <1>1, <2>1, <2>2
  <1>3. QED
    BY <1>1, <1>2 DEF AtEnd

LEMMA FinalEnds == ASSUME NEW t, FinalCall(t) PROVE ~GoesOn(t) /\ AtEnd(t)
  <1>1. /\ \/ at[t].call = 1 /\ Len(Calls(t)) = 1
           \/ at[t].call = 2 /\ Len(Calls(t)) = 2
        /\ at[t].sec = Len(Sections(at[t].op))
    BY SectionTable DEF FinalCall, Place, Calls
  <1>2. ~GoesOn(t)
    <2>1. CASE at[t].call = 1 /\ Len(Calls(t)) = 1
      BY <2>1 DEF GoesOn
    <2>2. CASE at[t].call = 2 /\ Len(Calls(t)) = 2
      BY <2>2 DEF GoesOn
    <2>3. QED
      BY <1>1, <2>1, <2>2
  <1>3. QED
    BY <1>1, <1>2 DEF AtEnd

(* The three ways of a call that succeeds. *)
CallGoesOn(t) ==
  /\ at' = [at EXCEPT ![t].call = @ + 1]
  /\ UNCHANGED <<mutex, shared>> /\ Disturb(t)

CallUnlocks(t) ==
  /\ mutex' = NoTask /\ UNCHANGED shared /\ Disturb(t)
  /\ IF at[t].op = "hash" /\ at[t].sec = 1
       THEN at' = [at EXCEPT ![t].pc = "active"]
       ELSE at' = [at EXCEPT ![t].pc = "lock", ![t].sec = @ + 1, ![t].call = 1]

LEMMA CallCases ==
  ASSUME AtInv, NEW t \in Tasks, Call(t)
  PROVE  \/ InnerCall(t) /\ CallGoesOn(t)
         \/ LastCall(t)  /\ CallUnlocks(t)
         \/ FinalCall(t) /\ mutex' = NoTask /\ Return(t)
  <1>1. CASE InnerCall(t)
    BY <1>1, InnerGoesOn DEF Call, GoesOn, CallGoesOn
  <1>2. CASE LastCall(t)
    <2>1. mutex' = NoTask /\ AfterSection(t)
      BY <1>2, LastUnlocks DEF Call, GoesOn
    <2>2. CASE at[t].op = "hash" /\ at[t].sec = 1
      BY <1>2, <2>1, <2>2 DEF AfterSection, Goto, CallUnlocks
    <2>3. CASE ~(at[t].op = "hash" /\ at[t].sec = 1)
      <3>1. NextSection(t) /\ UNCHANGED shared /\ Disturb(t)
        BY <1>2, <2>1, <2>3, LastUnlocks DEF AfterSection, AtEnd
      <3>2. EntryOf(at[t].op, at[t].sec + 1) = "lock"
        BY <1>2, <2>3, EntryTable DEF LastCall, Place
      <3>3. QED
        BY <1>2, <2>1, <2>3, <3>1, <3>2 DEF NextSection, CallUnlocks
    <2>4. QED
      BY <2>2, <2>3
  <1>3. CASE FinalCall(t)
    <2>1. mutex' = NoTask /\ AfterSection(t)
      BY <1>3, FinalEnds DEF Call, GoesOn
    <2>2. ~(at[t].op = "hash" /\ at[t].sec = 1)
      BY <1>3 DEF FinalCall, Place
    <2>3. QED
      BY <1>3, <2>1, <2>2, FinalEnds DEF AfterSection, AtEnd
  <1>4. QED
    BY <1>1, <1>2, <1>3, PlaceOfCall DEF Call
-----------------------------------------------------------------------------
(* How a task moves. *)
Moved(t) ==
  /\ at' \in [Tasks -> Record] /\ Placed(t)'
  /\ \A u \in Tasks \ {t} : at'[u] = at[u]

LEMMA AtStep == TypeOK /\ AtInv /\ [Next]_vars => AtInv'
  <1> SUFFICES ASSUME TypeOK, AtInv, [Next]_vars PROVE AtInv'
    OBVIOUS
  <1> USE JobsAssumption DEF AtInv, Record
  <1>1. CASE UNCHANGED vars
    BY <1>1 DEF vars, Placed
  <1>2. ASSUME NEW t \in Tasks, Step(t) \/ \E op \in Jobs[t] : Begin(t, op)
        PROVE  Moved(t)
    <2>1. ASSUME NEW op \in Jobs[t], Begin(t, op) PROVE Moved(t)
      BY <2>1 DEF Begin, Entry, Wrapped, Moved, Placed, Pcs, Op, Idle
    <2>2. CASE LockShared(t)
      BY <2>2 DEF LockShared, Goto, Entry, Wrapped, Moved, Placed, Pcs, Idle
    <2>3. CASE Test(t)
      BY <2>3 DEF Test, Goto, Return, Wrapped, Moved, Placed, Pcs, Idle, Op
    <2>4. CASE Lock(t)
      BY <2>4 DEF Lock, Goto, Moved, Placed, Pcs, Idle
    <2>5. CASE Fail(t)
      <3>1. at[t].pc = "call" /\ Placed(t) /\ (CallOf(t) = "Update" => Place(t, "hash", 2, 1, "Update"))
        BY <2>5, PlaceOfCall DEF Fail, InnerCall, LastCall, FinalCall, Place
      <3>2. QED
        BY <2>5, <3>1 DEF Fail, Goto, Return, Moved, Placed, Pcs, Idle, Op, Wrapped, Place
    <2>11. CASE FinishFails(t)
      BY <2>11 DEF FinishFails, Moved, Placed, Pcs, Idle, Op, Wrapped
    <2>12. CASE CurveFails(t)
      <3>1. Place(t, "sign", 1, 1, "SetCurve") /\ Placed(t)
        BY <2>12, PlaceOfCall DEF CurveFails, InnerCall, LastCall, FinalCall, Place
      <3>2. QED
        BY <2>12, <3>1 DEF CurveFails, Moved, Placed, Pcs, Idle, Op, Wrapped, Place
    <2>6. CASE SetActive(t)
      BY <2>6, EntryTable DEF SetActive, NextSection, Moved, Placed, Pcs, Idle, Op
    <2>7. CASE TestUpdate(t)
      BY <2>7 DEF TestUpdate, Goto, Moved, Placed, Pcs, Idle
    <2>8. CASE Cancel(t)
      BY <2>8 DEF Cancel, Return, Moved, Placed, Pcs, Idle, Op
    <2>9. CASE Call(t)
      <3>1. at[t].pc = "call" /\ Placed(t)
        BY <2>9 DEF Call
      <3>2. CASE InnerCall(t) /\ CallGoesOn(t)
        BY <3>1, <3>2 DEF InnerCall, Place, CallGoesOn, Moved, Placed, Wrapped, Idle
      <3>3. CASE LastCall(t) /\ CallUnlocks(t)
        <4>1. CASE at[t].op = "hash" /\ at[t].sec = 1
          BY <3>1, <3>3, <4>1
          DEF LastCall, Place, CallUnlocks, Moved, Placed, Wrapped, Idle, Pcs
        <4>2. CASE ~(at[t].op = "hash" /\ at[t].sec = 1)
          BY <3>1, <3>3, <4>2
          DEF LastCall, Place, CallUnlocks, Moved, Placed, Wrapped, Idle, Pcs
        <4>3. QED
          BY <4>1, <4>2
      <3>4. CASE Return(t)
        BY <3>4 DEF Return, Moved, Placed, Wrapped, Idle, Pcs
      <3>5. QED
        BY <2>9, <3>2, <3>3, <3>4, CallCases
    <2>10. QED
      BY <1>2, <2>1, <2>2, <2>3, <2>4, <2>5, <2>6, <2>7, <2>8, <2>9, <2>11, <2>12
         DEF Step
  <1>3. QED
    BY <1>1, <1>2 DEF Next, Moved, Placed

(* Everybody else stays where it is. *)
LEMMA OthersStay ==
  ASSUME AtInv, NEW t \in Tasks, Step(t) \/ \E op \in Jobs[t] : Begin(t, op)
  PROVE  \A u \in Tasks \ {t} : at'[u] = at[u]
  <1> USE DEF AtInv
  <1>1. CASE \E op \in Jobs[t] : Begin(t, op)
    BY <1>1 DEF Begin
  <1>2. CASE Call(t)
    BY <1>2, CallCases DEF CallGoesOn, CallUnlocks, Return
  <1>3. CASE Step(t) /\ ~Call(t)
    BY <1>3 DEF Step, LockShared, Test, Lock, Fail, FinishFails, CurveFails, SetActive,
       TestUpdate, Cancel, Goto, Return, NextSection
  <1>4. QED
    BY <1>1, <1>2, <1>3

(* The mutex and shared_hash. *)
MutexInv == \A t \in Tasks : at[t].pc = "call" <=> mutex = t

LEMMA LocksStep == TypeOK /\ AtInv /\ SharedInv /\ [Next]_vars => (MutexInv /\ SharedInv)'
  <1> SUFFICES ASSUME TypeOK, AtInv, SharedInv, [Next]_vars PROVE (MutexInv /\ SharedInv)'
    OBVIOUS
  <1>0. MutexInv
    BY DEF TypeOK, MutexInv
  <1>1. CASE UNCHANGED vars
    BY <1>0, <1>1 DEF vars, MutexInv, SharedInv, Holds
  <1>2. ASSUME NEW t \in Tasks, Step(t) \/ \E op \in Jobs[t] : Begin(t, op)
        PROVE  (MutexInv /\ SharedInv)'
    <2>1. \A u \in Tasks \ {t} : at'[u] = at[u]
      BY <1>2, OthersStay
    <2>2. NoTask \notin Tasks
      BY JobsAssumption
    <2>3. Placed(t) /\ at \in [Tasks -> Record]
      BY DEF AtInv
    <2> USE <1>0, <2>1, <2>2, <2>3 DEF MutexInv, SharedInv, Holds, Record
    <2>4. ASSUME NEW op \in Jobs[t], Begin(t, op) PROVE (MutexInv /\ SharedInv)'
      BY <2>4 DEF Begin, Entry, Wrapped, Idle
    <2>5. CASE LockShared(t)
      BY <2>5 DEF LockShared, Goto, Entry, Placed
    <2>6. CASE Test(t)
      BY <2>6 DEF Test, Goto, Return, Placed, Idle, Wrapped
    <2>7. CASE Lock(t)
      BY <2>7 DEF Lock, Goto
    <2>8. CASE Fail(t)
      BY <2>8 DEF Fail, Goto, Return, Placed, Idle, Unlocked, Wrapped
    <2>14. CASE FinishFails(t)
      <3>1. Place(t, "hash", 3, 1, "Finish")
        BY <2>14, PlaceOfCall DEF FinishFails, InnerCall, LastCall, FinalCall, Place
      <3>2. Holds(t) /\ shared = t
        BY <2>14, <3>1 DEF FinishFails, Place, Wrapped
      <3>3. \A u \in Tasks : unfinished # u
        BY <3>2
      <3>4. QED
        BY <2>14, <3>2, <3>3 DEF FinishFails, Idle, Wrapped
    <2>15. CASE CurveFails(t)
      BY <2>15 DEF CurveFails
    <2>9. CASE SetActive(t)
      BY <2>9, EntryTable DEF SetActive, NextSection, Placed
    <2>10. CASE TestUpdate(t)
      BY <2>10 DEF TestUpdate, Goto, Placed
    <2>11. CASE Cancel(t)
      BY <2>11 DEF Cancel, Return, Idle, Placed, Wrapped
    <2>12. CASE Call(t)
      <3>1. at[t].pc = "call" /\ mutex = t /\ unfinished' = unfinished
        BY <2>12 DEF Call
      <3>2. CASE CallGoesOn(t)
        BY <3>1, <3>2 DEF CallGoesOn
      <3>3. CASE CallUnlocks(t)
        BY <3>1, <3>3 DEF CallUnlocks
      <3>4. CASE mutex' = NoTask /\ Return(t)
        BY <3>1, <3>4 DEF Return, Idle, Placed, Wrapped
      <3>5. QED
        BY <2>12, <3>2, <3>3, <3>4, CallCases
    <2>13. QED
      BY <1>2, <2>4, <2>5, <2>6, <2>7, <2>8, <2>9, <2>10, <2>11, <2>12,
         <2>14, <2>15 DEF Step
  <1>3. QED
    BY <1>1, <1>2 DEF Next
-----------------------------------------------------------------------------
(* Of a wrapped hash. *)
LEMMA OneHash ==
  ASSUME AtInv, SharedInv, NEW t \in Tasks, NEW u \in Tasks, Hashing(t), shared = u
  PROVE  t = u
  BY DEF SharedInv, Hashing, Holds, Wrapped

LEMMA HashStep == IInv /\ [Next]_vars => HashInv'
  <1> SUFFICES ASSUME IInv, [Next]_vars PROVE HashInv'
    OBVIOUS
  <1>0. TypeOK /\ AtInv /\ SharedInv /\ HashInv /\ NoTask \notin Tasks
    BY JobsAssumption DEF IInv
  <1>1. CASE UNCHANGED vars
    BY <1>0, <1>1 DEF vars, hash, HashInv, Hashing, Exporting
  <1>2. ASSUME NEW t \in Tasks, Step(t) \/ \E op \in Jobs[t] : Begin(t, op)
        PROVE  HashInv'
    <2>1. \A u \in Tasks \ {t} : at'[u] = at[u]
      BY <1>0, <1>2, OthersStay
    <2>2. Placed(t) /\ at \in [Tasks -> Record] /\ clean \in [Tasks -> 0 .. 1]
      BY <1>0 DEF AtInv, TypeOK
    <2>3. \A u \in Tasks : Hashing(u) => shared = u
      BY <1>0 DEF SharedInv, Hashing, Holds, Wrapped
    <2>4. Wrapped(at[t].op) /\ at[t].pc # "shared" => shared = t
      BY <1>0 DEF SharedInv, Holds
    <2>15. Hashing(t) => unfinished = NoTask
      BY <1>0, <2>3 DEF SharedInv, Hashing, Holds, Wrapped, TypeOK
    <2>16. Hashing(t) => \A u \in Tasks \ {t} : ~Hashing(u)
      BY <2>3
    <2> USE <1>0, <2>1, <2>2, <2>3, <2>4, <2>15, <2>16 DEF HashInv, Hashing, Exporting, Record
    <2>5. ASSUME NEW op \in Jobs[t], Begin(t, op) PROVE HashInv'
      BY <2>5 DEF Begin, Entry, Wrapped, Idle, hash
    <2>6. CASE LockShared(t)
      BY <2>6 DEF LockShared, Goto, Entry, Placed, Wrapped, hash
    <2>7. CASE Test(t)
      BY <2>7 DEF Test, Goto, Return, Placed, Idle, MayCalculate, hash
    <2>8. CASE Lock(t)
      BY <2>8 DEF Lock, Goto, hash
    <2>9. CASE Fail(t)
      <3>1. at[t].op = "hash" => Place(t, "hash", 1, 1, "Reset")
              \/ Place(t, "hash", 1, 2, "Start") \/ Place(t, "hash", 2, 1, "Update")
        BY <2>9, PlaceOfCall DEF Fail, InnerCall, LastCall, FinalCall, Place
      <3>2. QED
        BY <2>9, <3>1 DEF Fail, Goto, Return, Placed, Idle, hash, Wrapped, Place
    <2>17. CASE FinishFails(t)
      <3>1. Place(t, "hash", 3, 1, "Finish")
        BY <2>17, PlaceOfCall DEF FinishFails, InnerCall, LastCall, FinalCall, Place
      <3>2. QED
        BY <2>17, <3>1 DEF FinishFails, Placed, Idle, hash, Wrapped, Place
    <2>18. CASE CurveFails(t)
      BY <2>18 DEF CurveFails, hash
    <2>10. CASE SetActive(t)
      BY <2>10, EntryTable DEF SetActive, NextSection, Placed
    <2>11. CASE TestUpdate(t)
      BY <2>11 DEF TestUpdate, Goto, Placed, hash
    <2>12. CASE Cancel(t)
      BY <2>12 DEF Cancel, Return, Idle, Placed, FreeContext, Wrapped
    <2>13. CASE Call(t)
      <3>1. at[t].pc = "call" /\ HashCall(t) /\ unfinished' = unfinished
        BY <2>13 DEF Call
      <3>2. CASE InnerCall(t) /\ CallGoesOn(t)
        BY <3>1, <3>2 DEF CallGoesOn, InnerCall, Place, HashCall, Disturb, hash, Wrapped
      <3>3. CASE LastCall(t) /\ CallUnlocks(t)
        BY <3>1, <3>3 DEF CallUnlocks, LastCall, Place, HashCall, Disturb, hash, Wrapped
      <3>4. CASE FinalCall(t) /\ Return(t)
        BY <3>1, <3>4 DEF Return, Idle, FinalCall, Place, HashCall, FreeContext, hash, Wrapped
      <3>5. QED
        BY <2>13, <3>2, <3>3, <3>4, CallCases
    <2>14. QED
      BY <1>2, <2>5, <2>6, <2>7, <2>8, <2>9, <2>10, <2>11, <2>12, <2>13,
         <2>17, <2>18 DEF Step
  <1>3. QED
    BY <1>1, <1>2 DEF Next

LEMMA KeyStep == IInv /\ [Next]_vars => KeyInv'
  <1> SUFFICES ASSUME IInv, [Next]_vars PROVE KeyInv'
    OBVIOUS
  <1>0. TypeOK /\ AtInv /\ KeyInv
    BY DEF IInv
  <1>1. CASE UNCHANGED vars
    BY <1>0, <1>1 DEF vars, KeyInv
  <1>2. ASSUME NEW t \in Tasks, Step(t) \/ \E op \in Jobs[t] : Begin(t, op)
        PROVE  KeyInv'
    <2>1. \A u \in Tasks \ {t} : at'[u] = at[u]
      BY <1>0, <1>2, OthersStay
    <2>2. /\ \A u \in Tasks : Placed(u)
          /\ at \in [Tasks -> Record] /\ clean \in [Tasks -> 0 .. 1]
      BY <1>0 DEF AtInv, TypeOK
    <2>3. \A u \in Tasks \ {t} : clean'[u] = 1 => clean[u] = 1
      <3>1. CASE Call(t)
        <4>1. Disturb(t) \/ Return(t)
          BY <1>0, <3>1, CallCases DEF CallGoesOn, CallUnlocks
        <4>2. QED
          BY <2>2, <4>1 DEF Disturb, Return
      <3>2. CASE ~Call(t)
        BY <1>2, <2>2, <3>2 DEF Begin, Step, LockShared, Test, Lock, Fail, FinishFails,
           CurveFails, SetActive, TestUpdate, Cancel, Return
      <3>3. QED
        BY <3>1, <3>2
    <2>4. CASE ~Call(t) /\ ~CurveFails(t)
      <3>1. UNCHANGED hw
        BY <1>2, <2>4 DEF Begin, Step, LockShared, Test, Lock, Fail, FinishFails,
           SetActive, TestUpdate, Cancel
      <3>2. at'[t].op \in {"calc", "export", "hash", "none"}
              \/ (at'[t].call = at[t].call /\ at'[t].sec = at[t].sec
                   /\ at'[t].op = at[t].op /\ clean'[t] = clean[t])
              \/ (at'[t].call = 1 /\ at'[t].sec = 1)
        <4>1. CASE \E op \in Jobs[t] : Begin(t, op)
          BY <2>2, <4>1 DEF Begin, Record
        <4>2. CASE LockShared(t) \/ Test(t)
          BY <2>2, <4>2 DEF LockShared, Test, Goto, Return, Placed, Wrapped, Record, Idle
        <4>3. CASE Lock(t) \/ TestUpdate(t)
          BY <2>2, <4>3 DEF Lock, TestUpdate, Goto, Record
        <4>4. CASE Fail(t) \/ FinishFails(t) \/ Cancel(t) \/ SetActive(t)
          BY <2>2, <4>4 DEF Fail, FinishFails, Cancel, SetActive, NextSection, Goto, Return,
             Placed, Record, Idle
        <4>5. QED
          BY <1>2, <2>4, <4>1, <4>2, <4>3, <4>4 DEF Step
      <3>3. QED
        BY <1>0, <2>1, <2>3, <3>1, <3>2 DEF KeyInv
    <2>5. CASE Call(t)
      <3>1. /\ at[t].pc = "call" /\ Hardware(t) /\ Placed(t)
            /\ \A u \in Tasks \ {t} : at[u].pc # "call"
        BY <1>0, <2>2, <2>5 DEF Call, TypeOK
      <3>2. \A u \in Tasks \ {t} : at[u].call = 2 => at[u].pc = "active"
        BY <2>2, <3>1 DEF Placed
      <3> USE <1>0, <2>1, <2>2, <2>3, <3>1, <3>2 DEF KeyInv, Record
      <3>3. CASE InnerCall(t) /\ CallGoesOn(t)
        BY <3>3 DEF CallGoesOn, InnerCall, Place, Hardware, Disturb, Disturbed, Aes, Placed, TypeOK
      <3>4. CASE LastCall(t) /\ CallUnlocks(t)
        BY <3>4 DEF CallUnlocks, LastCall, Place, Hardware, Disturb, Disturbed, Aes, Placed, TypeOK
      <3>5. CASE FinalCall(t) /\ Return(t)
        <4>1. UNCHANGED hw
          BY <3>5 DEF FinalCall, Place, Hardware
        <4>2. QED
          BY <3>5, <4>1 DEF Return, Idle
      <3>6. QED
        BY <2>5, <3>3, <3>4, <3>5, CallCases
    <2>6. CASE CurveFails(t)
      <3>1. Place(t, "sign", 1, 1, "SetCurve")
        BY <1>0, <2>6, PlaceOfCall DEF CurveFails, InnerCall, LastCall, FinalCall, Place
      <3>2. \A u \in Tasks \ {t} : at[u].call = 2 => at[u].op = "hash"
        BY <1>0, <2>2, <2>6 DEF CurveFails, TypeOK, Placed
      <3>3. /\ hw'.sel = hw.sel /\ hw'.soft = hw.soft /\ hw'.params = hw.params
            /\ clean'[t] = 0 /\ at'[t].op = "sign" /\ at'[t].sec = 1
        BY <1>0, <2>2, <2>6, <3>1 DEF CurveFails, TypeOK, Place, Record
      <3>4. QED
        BY <1>0, <2>1, <2>3, <3>2, <3>3 DEF KeyInv
    <2>7. QED
      BY <2>4, <2>5, <2>6
  <1>3. QED
    BY <1>1, <1>2 DEF Next

LEMMA TypeStep == IInv /\ [Next]_vars => TypeOK'
  <1> SUFFICES ASSUME IInv, [Next]_vars PROVE TypeOK'
    OBVIOUS
  <1>1. AtInv' /\ MutexInv'
    BY AtStep, LocksStep DEF IInv
  <1>2. \A t \in Tasks : /\ at'[t].pc \in Pcs /\ at'[t].op \in Jobs[t] \cup {"none"}
                         /\ at'[t].sec \in 0 .. 3 /\ at'[t].call \in 0 .. 2
                         /\ at'[t].pc = "call" <=> mutex' = t
    BY <1>1 DEF AtInv, Placed, Record, MutexInv
  <1>0. TypeOK /\ AtInv /\ HashInv
    BY DEF IInv
  <1>3. CASE UNCHANGED vars
    BY <1>0, <1>3 DEF vars, hash, TypeOK
  <1>4. ASSUME NEW t \in Tasks, Step(t) \/ \E op \in Jobs[t] : Begin(t, op)
        PROVE  TypeOK'
    <2>1. CASE ~Call(t)
      BY <1>0, <1>2, <1>4, <2>1 DEF TypeOK, Begin, Step, LockShared, Test, Lock, Fail,
         FinishFails, CurveFails, SetActive, TestUpdate, Cancel, Return, FreeContext, hash,
         Unlocked
    <2>2. CASE Call(t)
      <3>1. clean' \in [Tasks -> 0 .. 1]
        <4>1. Disturb(t) \/ Return(t)
          BY <1>0, <2>2, CallCases DEF CallGoesOn, CallUnlocks
        <4>2. QED
          BY <1>0, <4>1 DEF Disturb, Return, TypeOK
      <3>2. mutex' \in Tasks \cup {NoTask} /\ shared' \in Tasks \cup {NoTask}
        BY <1>0, <2>2, CallCases DEF CallGoesOn, CallUnlocks, Return, TypeOK
      <3>3. hw' \in [sel : {"soft", "otp"}, soft : Tasks \cup {NoTask},
                     params : Tasks \cup {NoTask}, curve : Tasks \cup {NoTask}]
        BY <1>0, <2>2 DEF Call, Hardware, TypeOK
      <3>4. active' \in 0 .. 1 /\ ctx' \in Tasks \cup {NoTask} /\ parts' \in 0 .. 1
        <4>1. HashCall(t)
          BY <2>2 DEF Call
        <4>2. CallOf(t) = "Update" => parts = 0
          BY <1>0, <2>2, PlaceOfCall
          DEF Call, InnerCall, LastCall, FinalCall, Place, HashInv, Hashing
        <4>3. QED
          BY <1>0, <4>1, <4>2 DEF HashCall, FreeContext, TypeOK, hash
      <3>5. QED
        BY <1>0, <1>2, <2>2, <3>1, <3>2, <3>3, <3>4 DEF TypeOK, Call
    <2>3. QED
      BY <2>1, <2>2
  <1>5. QED
    BY <1>3, <1>4 DEF Next

LEMMA InvInit == Init => IInv
  <1> SUFFICES ASSUME Init PROVE IInv
    OBVIOUS
  <1>1. TypeOK
    BY JobsAssumption DEF Init, TypeOK, Idle, Pcs
  <1>2. AtInv /\ SharedInv /\ HashInv /\ KeyInv
    BY JobsAssumption DEF Init, AtInv, Placed, Record, Idle, Pcs, SharedInv, Holds,
       HashInv, Hashing, KeyInv, Wrapped
  <1>3. QED
    BY <1>1, <1>2 DEF IInv

(* The inductive invariant of the engines. *)
THEOREM Invariance == Spec => []IInv
  <1>1. IInv /\ [Next]_vars => IInv'
    BY TypeStep, AtStep, LocksStep, HashStep, KeyStep DEF IInv
  <1>2. QED
    BY <1>1, InvInit, PTL DEF Spec
-----------------------------------------------------------------------------
(* Type correctness; above all, the mutex of the ROM library is with the task
   that calls it. *)
THEOREM TypeCorrect == Spec => []TypeOK
  <1>1. IInv => TypeOK
    BY DEF IInv
  <1>2. QED
    BY <1>1, Invariance, PTL

(* However the tasks interleave and whichever call fails, the AES and ECC
   hardware works with the parameters and the key of the task that uses it,
   but for the interruptions that OwnKey names. *)
THEOREM KeysAreOwn == Spec => []OwnKey
  <1>1. IInv => OwnKey
    <2> SUFFICES ASSUME IInv, NEW t \in Tasks, at[t].pc = "call"
                 PROVE  /\ CallOf(t) = "Cipher" /\ at[t].op # "session" => hw.params = t
                        /\ CallOf(t) = "Compute" /\ (at[t].op = "pka" \/ clean[t] = 1) =>
                             hw.curve = t
                        /\ CallOf(t) = "Cipher" /\ clean[t] = 1 =>
                             KeyIsOwn(t) /\ hw.params = t
      BY DEF OwnKey, Calling
    <2>1. InnerCall(t) \/ LastCall(t) \/ FinalCall(t)
      BY PlaceOfCall DEF IInv
    <2>2. QED
      BY <2>1 DEF IInv, KeyInv, InnerCall, LastCall, FinalCall, Place, KeyIsOwn, KeyOf
  <1>2. QED
    BY <1>1, Invariance, PTL

(* A hash with shared_hash is that of its own data, all of it, unless the export
   came in between (tip_hash_ncl.c behind hash_thread_safe). *)
THEOREM DigestIsWhole == Spec => []DigestWhole
  <1>1. IInv => DigestWhole
    <2> SUFFICES ASSUME IInv, NEW t \in Tasks, at[t].pc = "call", CallOf(t) = "Finish",
                        clean[t] = 1
                 PROVE  active = 1 /\ ctx = t /\ parts = 1
      BY DEF DigestWhole, Calling
    <2>1. InnerCall(t) \/ LastCall(t) \/ FinalCall(t)
      BY PlaceOfCall DEF IInv
    <2>2. QED
      BY <2>1 DEF IInv, HashInv, Hashing, InnerCall, LastCall, FinalCall, Place
  <1>2. QED
    BY <1>1, Invariance, PTL

(* Whatever call fails, the engine is active and shared_hash locked only for a
   hash that goes on, or for one that the ROM failed to finish, and that for ever. *)
THEOREM EngineIsFreed == Spec => []NotLeftActive
  <1>1. IInv => NotLeftActive
    BY JobsAssumption
    DEF IInv, TypeOK, HashInv, SharedInv, Holds, Hashing, Wrapped, NotLeftActive
  <1>2. QED
    BY <1>1, Invariance, PTL
=============================================================================
