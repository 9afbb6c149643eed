------------------------ MODULE ResetCountersProofs ------------------------
(***************************************************************************)
(* Proofs about ResetCounters, for every window, uptime and number of      *)
(* resets.  Those about the counters are for a BMC that is not reset while *)
(* it is loaded again.                                                     *)
(*                                                                         *)
(* The argument: a counter and hits differ by the reset that is being      *)
(* handled and not yet counted.  Hits start again after a gap; if anything *)
(* had been counted before the gap, the counters have run since before it, *)
(* and are initialised, too, when the reset after it is handled.           *)
(***************************************************************************)
EXTENDS ResetCounters, TLAPS

(* Resets that are being handled and have not been counted. *)
Handling == \/ pc = "idle" /\ notif = 1
            \/ pc \in {"load", "verify", "clear", "count"}

Uncounted ==
  IF pc = "idle" /\ notif = 1 THEN ressr \cup scr
  ELSE IF pc \in {"load", "verify", "clear", "count"} THEN seen ELSE {}

Used(k) == MaxCount[k] - count[k]

(* Interrupt 46 notifies a task that is idle, and nobody else. *)
NotifyInv ==
  /\ notif = 1 => pc = "idle"
  /\ pc = "idle" /\ notif = 0 => en46 = 1

(* Only a TIP that is about to shut down has used up a counter. *)
LeftInv ==
  /\ pc # "shutdown" => \A k \in Kind : MaxCount[k] # 0 => count[k] # 0
  /\ pc = "shutdown" => \E k \in Kind : MaxCount[k] # 0 /\ count[k] = 0

(* Within the window every reset and every GPIO is accounted for. *)
WindowInv ==
  now <= Window /\ boot = "main" =>
    /\ \A k \in Kind : MaxCount[k] # 0 =>
         hits[k] <= Used(k) + (IF k \in Uncounted THEN 1 ELSE 0)
    /\ \A g \in Gpio : gpio[g] = 0 => g \in Uncounted

(* Counters have been initialised before the last reset that they count. *)
InitInv ==
  Handling \/ (\E k \in Kind : Used(k) # 0) => lastInit <= lastReset

(* Without GPIOs: what is in RESSR is the reset that is being handled, and
   nothing is counted that did not happen, unless it is too late to count. *)
CountInv ==
  scr = {} =>
    /\ ~Handling => ressr = {}
    /\ pc = "count" => ressr = {}
    /\ \/ Handling /\ lastReset - lastInit > Window
       \/ \A k \in Kind : MaxCount[k] # 0 =>
            Used(k) + (IF k \in Uncounted THEN 1 ELSE 0) <= hits[k]

IInv == TypeOK /\ NotifyInv /\ LeftInv /\ WindowInv /\ InitInv /\ CountInv
-----------------------------------------------------------------------------
LEMMA Maxima == \A k \in Kind : MaxCount[k] \in {0, 2}
  BY DEF MaxCount

LEMMA TypeInit == Init => TypeOK
  BY BoundsAssumption, Maxima DEF Init, TypeOK, Pcs, Kind, Gpio, MaxCount

LEMMA RestartType == TypeOK /\ Restart => TypeOK'
  BY BoundsAssumption, Maxima DEF Restart, TypeOK, Pcs, Kind, Gpio, MaxCount

LEMMA HitType ==
  ASSUME TypeOK, NEW k \in Kind, Hit(k)
  PROVE  /\ hits' \in [Kind -> 0 .. MaxHits]
         /\ now' = now /\ lastInit' = lastInit /\ lastReset' = now
  <1>1. \A i \in Kind : hits[i] \in 0 .. MaxHits /\ hits[k] + 1 \in 0 .. MaxHits
    BY BoundsAssumption DEF TypeOK, Hit
  <1>2. QED
    BY <1>1, BoundsAssumption DEF TypeOK, Hit

LEMMA TypeStep == TypeOK /\ [Next]_vars => TypeOK'
  <1> SUFFICES ASSUME TypeOK, [Next]_vars PROVE TypeOK'
    OBVIOUS
  <1> USE BoundsAssumption DEF TypeOK
  <1>1. CASE UNCHANGED vars
    BY <1>1 DEF vars, indications, history
  <1>2. CASE Tick
    BY <1>2 DEF Tick, indications, history
  <1>3. ASSUME NEW k \in Kind, BmcReset(k) PROVE TypeOK'
    BY <1>3, HitType DEF BmcReset, Hit, Kind, Gpio
  <1>4. ASSUME NEW k \in Kind, GpioReset(k) PROVE TypeOK'
    BY <1>4, HitType DEF GpioReset, Hit, Gpio
  <1>5. CASE Take
    BY <1>5 DEF Take, history, Pcs, Gpio, Kind
  <1>6. CASE Release \/ Loaded \/ Clear \/ Continue
    BY <1>6 DEF Release, Loaded, Clear, Continue, Left, indications, history, Pcs
  <1>7. CASE Refused \/ Shutdown
    BY <1>7, RestartType DEF Refused, Shutdown
  <1>8. CASE StartCount \/ CountInRecovery
    BY <1>8, Maxima DEF StartCount, CountInRecovery, CountersInit, history, Pcs, MaxCount
  <1>9. CASE Count
    <2>1. \A k \in Kind : count'[k] \in 0 .. MaxCount[k]
      BY <1>9, Maxima DEF Count, Running, Counted
    <2>2. QED
      BY <1>9, <2>1 DEF Count, history, Pcs, Completed
  <1>10. QED
    BY <1>1, <1>2, <1>3, <1>4, <1>5, <1>6, <1>7, <1>8, <1>9 DEF Next, Loop

(* Counters stay within their range whatever is reset and counted. *)
THEOREM TypeCorrect == Spec => []TypeOK
  BY TypeInit, TypeStep, PTL DEF Spec
-----------------------------------------------------------------------------
CounterInv == NotifyInv /\ LeftInv /\ WindowInv /\ InitInv /\ CountInv

(* A TIP that starts has counted nothing. *)
Started ==
  /\ pc = "idle" /\ notif = 0 /\ en46 = 1 /\ count = MaxCount
  /\ lastInit = 0 /\ lastReset = 0 /\ hits = [k \in Kind |-> 0]
  /\ gpio = [g \in Gpio |-> 1] /\ ressr = {}

LEMMA StartedInv == Started => CounterInv
  <1> SUFFICES ASSUME Started PROVE CounterInv
    OBVIOUS
  <1>1. \A k \in Kind : Used(k) = 0 /\ hits[k] = 0
    BY Maxima DEF Used, Started
  <1>2. Uncounted = {} /\ ~Handling
    BY DEF Uncounted, Handling, Started
  <1>3. LeftInv /\ NotifyInv /\ InitInv
    BY DEF LeftInv, NotifyInv, InitInv, Started
  <1>4. WindowInv /\ CountInv
    BY <1>1, <1>2 DEF WindowInv, CountInv, Gpio, Started
  <1>5. QED
    BY <1>3, <1>4 DEF CounterInv

LEMMA InvInit == Init => IInv
  BY TypeInit, StartedInv DEF Init, Started, IInv, CounterInv

LEMMA RestartInv == Restart => CounterInv'
  <1>1. Started' => CounterInv'
    BY StartedInv, PTL
  <1>2. QED
    BY <1>1 DEF Restart, Started

LEMMA CounterStep ==
  ASSUME During = "no", IInv, [Next]_vars
  PROVE  CounterInv'
  <1>0. TypeOK /\ TypeOK' /\ CounterInv
    BY TypeStep DEF IInv, CounterInv
  <1>types. /\ \A k \in Kind : /\ count[k] \in 0 .. MaxCount[k] /\ count'[k] \in 0 .. MaxCount[k]
                              /\ hits[k] \in Nat /\ hits'[k] \in Nat
                              /\ MaxCount[k] \in {0, 2}
            /\ now \in Nat /\ lastInit \in Nat /\ lastReset \in Nat
            /\ lastInit <= now /\ lastReset <= now /\ Window \in Nat
    BY <1>0, Maxima, BoundsAssumption DEF TypeOK
  <1> USE <1>types DEF CounterInv, NotifyInv, LeftInv, WindowInv, InitInv, CountInv, Used
  <1>1. CASE UNCHANGED vars
    BY <1>0, <1>1 DEF vars, indications, history, Uncounted, Handling
  <1>2. CASE Tick
    BY <1>0, <1>2 DEF Tick, indications, history, Uncounted, Handling
  <1>3. ASSUME NEW k \in Kind, BmcReset(k) \/ GpioReset(k) PROVE CounterInv'
    <2>1. /\ Hit(k) /\ pc = "idle" /\ notif = 0 /\ en46 = 1
      BY <1>0, <1>3 DEF BmcReset, GpioReset, Hit, Resettable
    <2>2. /\ pc' = "idle" /\ notif' = 1 /\ ressr' \cup scr' = ressr \cup scr \cup {k}
          /\ scr \subseteq scr' /\ now' = now /\ lastInit' = lastInit /\ count' = count
          /\ boot' = boot /\ lastReset' = now
          /\ scr' = {} => ressr' = ressr \cup {k}
          /\ \A g \in Gpio : gpio'[g] = 0 => gpio[g] = 0 \/ g = k
      BY <1>0, <1>3, <2>1 DEF BmcReset, GpioReset, Hit, TypeOK, Gpio
    <2>3. \A i \in Kind : hits'[i] = (IF now - lastReset > Window THEN 0 ELSE hits[i])
                                      + (IF i = k THEN 1 ELSE 0)
      BY <2>1 DEF Hit
    <2>4. Handling' /\ Uncounted' = ressr \cup scr \cup {k} /\ Uncounted = {} /\ ~Handling
      BY <2>1, <2>2 DEF Handling, Uncounted
    <2>5. NotifyInv' /\ LeftInv' /\ InitInv'
      BY <1>0, <2>1, <2>2
    <2>6. WindowInv'
      BY <1>0, <2>2, <2>3, <2>4
    <2>7. CountInv'
      <3> SUFFICES ASSUME scr' = {}, ~(lastReset' - lastInit' > Window), NEW i \in Kind,
                          MaxCount[i] # 0
                   PROVE  Used(i)' + (IF i \in Uncounted' THEN 1 ELSE 0) <= hits'[i]
        BY <2>2, <2>4
      <3>1. Uncounted' = {k} /\ scr = {} /\ Used(i) <= hits[i]
        BY <1>0, <2>2, <2>4
      <3>2. CASE now - lastReset > Window
        <4>1. Used(i) = 0
          BY <1>0, <2>2, <3>2
        <4>2. QED
          BY <2>2, <2>3, <3>1, <3>2, <4>1
      <3>3. CASE ~(now - lastReset > Window)
        BY <2>2, <2>3, <3>1, <3>3
      <3>4. QED
        BY <3>2, <3>3
    <2>8. QED
      BY <2>5, <2>6, <2>7
  <1>5. CASE Take
    BY <1>0, <1>5 DEF Take, history, Uncounted, Handling
  <1>6. CASE Release \/ Loaded
    BY <1>0, <1>6 DEF Release, Loaded, indications, history, Uncounted, Handling
  <1>7. CASE Refused \/ Shutdown
    BY <1>7, RestartInv DEF Refused, Shutdown
  <1>8. CASE Clear
    BY <1>0, <1>8 DEF Clear, Left, history, Uncounted, Handling
  <1>9. CASE Continue
    BY <1>0, <1>9 DEF Continue, history, Uncounted, Handling
  <1>10. CASE StartCount
    BY <1>0, <1>10 DEF StartCount, CountersInit, history, TooLate, Uncounted, Handling
  <1>11. CASE CountInRecovery
    BY <1>0, <1>11 DEF CountInRecovery, CountersInit, history, Uncounted, Handling
  <1>12. CASE Count
    <2>1. \A k \in Kind : MaxCount[k] # 0 => count[k] # 0
      BY <1>0, <1>12 DEF Count
    <2>2. \A k \in Kind : MaxCount[k] # 0 =>
             count'[k] = count[k] - (IF k \in seen THEN 1 ELSE 0)
      BY <2>1, <1>12 DEF Count, Running, Counted
    <2>3. /\ pc' \in {"shutdown", "continue"}
          /\ pc' = "shutdown" <=> MaxedOut
          /\ UNCHANGED <<now, lastInit, ressr, scr, en46, notif, seen, boot, hits, lastReset>>
          /\ \A g \in Gpio : gpio'[g] = 0 => gpio[g] = 0 /\ g \notin seen
          /\ pc = "count" /\ now - lastInit <= Window
      BY <1>0, <1>12 DEF Count, history, Completed, TypeOK, TooLate
    <2>4. Uncounted = seen /\ Uncounted' = {} /\ Handling /\ ~Handling'
      BY <2>3 DEF Uncounted, Handling
    <2>5. NotifyInv' /\ InitInv'
      BY <1>0, <2>3, <2>4
    <2>6. LeftInv'
      <3>1. CASE MaxedOut
        <4>1. PICK k \in seen : count[k] = 1
          BY <3>1 DEF MaxedOut
        <4>2. k \in Kind /\ MaxCount[k] # 0
          BY <1>0, <4>1 DEF TypeOK
        <4>3. QED
          BY <2>2, <2>3, <3>1, <4>1, <4>2
      <3>2. CASE ~MaxedOut
        BY <2>1, <2>2, <2>3, <3>2 DEF MaxedOut
      <3>3. QED
        BY <3>1, <3>2
    <2>7. WindowInv'
      BY <1>0, <2>2, <2>3, <2>4
    <2>8. CountInv'
      BY <1>0, <2>2, <2>3, <2>4
    <2>9. QED
      BY <2>5, <2>6, <2>7, <2>8
  <1>13. QED
    BY <1>1, <1>2, <1>3, <1>5, <1>6, <1>7, <1>8, <1>9, <1>10, <1>11, <1>12 DEF Next, Loop

(* The inductive invariant. *)
THEOREM Invariance == During = "no" => (Spec => []IInv)
  <1> SUFFICES ASSUME During = "no" PROVE Spec => []IInv
    OBVIOUS
  <1>1. IInv /\ [Next]_vars => IInv'
    BY CounterStep, TypeStep DEF IInv, CounterInv
  <1>2. QED
    BY <1>1, InvInit, PTL DEF Spec
-----------------------------------------------------------------------------
(* TIP goes to recovery only when the resets of one kind reached the maximum
   of that kind, as long as no GPIO has left its indication. *)
THEOREM Justified == During = "no" => (Spec => []RecoveryJustified)
  <1>1. IInv => RecoveryJustified
    <2> SUFFICES ASSUME IInv, pc = "shutdown", scr = {}
                 PROVE  \E k \in Kind : MaxCount[k] # 0 /\ hits[k] >= MaxCount[k]
      BY DEF RecoveryJustified
    <2>1. PICK k \in Kind : MaxCount[k] # 0 /\ count[k] = 0
      BY DEF IInv, LeftInv
    <2>2. ~Handling /\ Uncounted = {}
      BY DEF Handling, Uncounted
    <2>3. Used(k) <= hits[k]
      BY <2>1, <2>2, Maxima DEF IInv, CountInv, TypeOK, Used
    <2>4. hits[k] \in Nat
      BY BoundsAssumption DEF IInv, TypeOK
    <2>5. QED
      BY <2>1, <2>3, <2>4, Maxima DEF Used
  <1>2. QED
    BY <1>1, Invariance, PTL

(* Within the window, a main image whose resets reached a maximum is not run
   again. *)
THEOREM ResetsLimited == During = "no" => (Spec => []Limited)
  <1>1. IInv => Limited
    <2> SUFFICES ASSUME IInv, SettledInWindow, NEW k \in Kind, MaxCount[k] # 0
                 PROVE  hits[k] < MaxCount[k]
      BY DEF Limited
    <2>1. Uncounted = {} /\ pc # "shutdown"
      BY DEF Uncounted, SettledInWindow
    <2>2. count[k] \in 0 .. MaxCount[k] /\ count[k] # 0 /\ hits[k] <= Used(k)
      BY <2>1, BoundsAssumption, Maxima
      DEF IInv, LeftInv, WindowInv, SettledInWindow, TypeOK, Used
    <2>3. hits[k] \in Nat
      BY BoundsAssumption DEF IInv, TypeOK
    <2>4. QED
      BY <2>2, <2>3, Maxima DEF Used
  <1>2. QED
    BY <1>1, Invariance, PTL

(* Within the window no GPIO stays disabled once its reset is handled. *)
THEOREM Rearmed == During = "no" => (Spec => []GpioRearmed)
  <1>1. IInv => GpioRearmed
    <2> SUFFICES ASSUME IInv, SettledInWindow, NEW g \in Gpio PROVE gpio[g] = 1
      BY DEF GpioRearmed
    <2>1. Uncounted = {}
      BY DEF Uncounted, SettledInWindow
    <2>2. QED
      BY <2>1 DEF IInv, WindowInv, SettledInWindow, TypeOK
  <1>2. QED
    BY <1>1, Invariance, PTL
=============================================================================
