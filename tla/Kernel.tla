-------------------------------- MODULE Kernel --------------------------------
(***************************************************************************)
(* The scheduler that the tasks of L1 run under: FreeRTOS V10.4.3 as       *)
(* FreeRTOSConfig.h configures it (preemption, time slicing, mutexes with  *)
(* priority inheritance, indefinite blocking, no tickless idle).           *)
(*                                                                         *)
(* An action is one critical section, one section with the scheduler       *)
(* suspended, or one interrupt; the critical section of xTaskResumeAll is  *)
(* an action for each turn of its loop, with the interrupts masked.  A     *)
(* task gives its mutexes in the reverse of the order it took them in, the *)
(* order of their numbers, which is how the tasks of L1 nest them.         *)
(* Mutexes, delays and notifications are modelled; queues, timers and the  *)
(* creation of tasks are not.                                              *)
(***************************************************************************)
EXTENDS Integers, FiniteSets, FiniteSetsExt, Functions

CONSTANTS
  NoTask,
  Idle,      \* the idle task: priority 0, never blocks
  Base,      \* Base[t]: uxBasePriority of task t
  Calls,     \* Calls[t]: the operations that task t calls, each with its ticks
  Mutexes,   \* numbers
  Nesting,   \* the tasks that take a mutex while they hold another
  Width,     \* number of values of TickType_t
  Lag,       \* bound: ticks by which a task may be late
  MaxPended  \* bound: ticks in one section with the scheduler suspended

Tasks   == DOMAIN Base
Forever == Width - 1      \* portMAX_DELAY
Op      == {"take", "delay", "until", "notify", "wait"}
Ticks(t, op) == IF op \in DOMAIN Calls[t] THEN Calls[t][op] ELSE {}
Periodic(t)  == Ticks(t, "until") # {}

ASSUME KernelAssumption ==
  /\ Base \in [Tasks -> Nat] /\ NoTask \notin Tasks
  /\ Idle \in Tasks /\ Base[Idle] = 0 /\ Calls[Idle] = <<>>
  /\ Mutexes \subseteq Nat \ {0} /\ Nesting \subseteq Tasks
  /\ Width \in Nat \ {0, 1} /\ Lag \in 0 .. Width - 1 /\ MaxPended \in Nat
  /\ \A t \in Tasks :
       /\ DOMAIN Calls[t] \subseteq Op
       /\ \A op \in DOMAIN Calls[t] : Calls[t][op] \subseteq 0 .. Forever
       /\ Ticks(t, "until") \subseteq 1 .. Forever - 1
       /\ Periodic(t) => /\ Ticks(t, "take") \subseteq {0, Forever}
                         /\ Ticks(t, "wait") \subseteq {Forever}
                         /\ Ticks(t, "delay") = {}
       /\ \A n \in Ticks(t, "take") \ {Forever} : n + Lag <= Width

VARIABLES
  time,     \* tick, overflows (modulo 2), next: xNextTaskUnblockTime
  pended,   \* xPendedTicks
  list,     \* list[t]: the list that xStateListItem is in
  wakeAt,   \* wakeAt[t]: value of xStateListItem, valid in the delayed lists
  waiters,  \* waiters[m]: the tasks in xTasksWaitingToReceive of mutex m
  ahead,    \* the pairs of tasks of such a list, the one that is ahead first
  readied,  \* xPendingReadyList
  susp,     \* uxSchedulerSuspended
  yield,    \* xYieldPending
  pendsv,   \* a context switch is pending
  cur,      \* pxCurrentTCB
  prio,     \* prio[t]: uxPriority
  owner,    \* owner[m]: xMutexHolder
  state,    \* state[t]: ucNotifyState
  at,       \* at[t]: where task t is in the kernel, and its local variables
  prev,     \* prev[t]: *pxPreviousWakeTime of a periodic task
  due       \* history: ticks until the wait that task t asked for is over, or Off

lists == <<time, list, wakeAt, waiters, ahead>>
sched == <<susp, yield, pendsv, cur>>
vars  == <<lists, pended, readied, sched, prio, owner, state, at, prev, due>>

(* Local variables of the operation that a task is in: the mutex, xTicksToWait,
   the TimeOut_t once it is set, xInheritanceOccurred, what follows
   xTaskResumeAll and whether a yield is forced after it. *)
Running == [pc |-> "run", m |-> 0, left |-> Forever, entry |-> <<>>, inh |-> 0,
            then |-> "run", force |-> 0]

Off == Width

Init ==
  /\ time = [tick |-> 0, overflows |-> 0, next |-> Forever] /\ pended = 0
  /\ list = [t \in Tasks |-> "ready"] /\ wakeAt = [t \in Tasks |-> 0]
  /\ waiters = [m \in Mutexes |-> {}] /\ ahead = {} /\ readied = {}
  /\ susp = 0 /\ yield = 0 /\ pendsv = 0
  /\ cur \in {t \in Tasks : \A u \in Tasks : Base[u] <= Base[t]}
  /\ prio = Base
  /\ owner = [m \in Mutexes |-> NoTask]
  /\ state = [t \in Tasks |-> "none"]
  /\ at = [t \in Tasks |-> Running]
  /\ prev = [t \in Tasks |-> 0]
  /\ due = [t \in Tasks |-> IF Periodic(t) THEN 0 ELSE Off]

(* Task t executes the next piece of code at pc. *)
Runs(t, pc) == cur = t /\ pendsv = 0 /\ at[t].pc = pc

Goto(t, pc) == at' = [at EXCEPT ![t].pc = pc]

Return(t) ==
  /\ at' = [at EXCEPT ![t] = Running]
  /\ due' = IF Periodic(t) THEN due ELSE [due EXCEPT ![t] = Off]

Held(t)  == {m \in Mutexes : owner[m] = t}
Ready(l) == {t \in Tasks : l[t] = "ready"}
-----------------------------------------------------------------------------
(* Lists and time.                                                         *)

(* The tasks of the list that nobody of a lower priority is ahead of. *)
Passed(m, t) ==
  {u \in waiters[m] :
     \A v \in waiters[m] : v = u \/ <<v, u>> \in ahead => prio[v] >= prio[t]}

(* vListInsert: behind the tasks of the same priority or a higher one. *)
Insert(m, t) ==
  /\ waiters' = [waiters EXCEPT ![m] = @ \cup {t}]
  /\ ahead' = ahead \cup (Passed(m, t) \X {t})
                    \cup ({t} \X (waiters[m] \ Passed(m, t)))

First(m) == {u \in waiters[m] : \A v \in waiters[m] : <<v, u>> \notin ahead}

(* prvResetNextTaskUnblockTime *)
NextUnblock(l, wake) ==
  LET delayed == {t \in Tasks : l[t] = "delayed"}
  IN IF delayed = {} THEN Forever ELSE Min({wake[t] : t \in delayed})

(* prvAddCurrentTaskToDelayedList *)
WrongAddToDelayed(t, ticks) ==
  LET wake == (time.tick + ticks) % Width IN
  /\ wakeAt' = [wakeAt EXCEPT ![t] = wake]
  /\ list' = [list EXCEPT ![t] = IF wake < time.tick THEN "overflow" ELSE "delayed"]
  /\ UNCHANGED time

AddToDelayed(t, ticks) ==
  LET wake == (time.tick + ticks) % Width IN
  /\ wakeAt' = [wakeAt EXCEPT ![t] = wake]
  /\ list' = [list EXCEPT ![t] = IF wake < time.tick THEN "overflow" ELSE "delayed"]
  /\ time' = IF wake >= time.tick /\ wake < time.next
                THEN [time EXCEPT !.next = wake] ELSE time

(* The same where the task may block indefinitely. *)
AddOrSuspend(t, ticks) ==
  IF ticks = Forever
    THEN list' = [list EXCEPT ![t] = "suspended"] /\ UNCHANGED <<time, wakeAt>>
    ELSE AddToDelayed(t, ticks)

(* A task whose time is over leaves the list of its event, too. *)
WrongLeaveEvents(out) == UNCHANGED <<waiters, ahead>>
LeaveEvents(out) ==
  /\ waiters' = [m \in Mutexes |-> waiters[m] \ out]
  /\ ahead' = ahead \cap ((Tasks \ out) \X (Tasks \ out))

(* xTaskIncrementTick with the scheduler running: the tick, the lists after
   taskSWITCH_DELAYED_LISTS, the tasks whose time is over. *)
Now == (time.tick + 1) % Width
Switched ==
  IF Now # 0 THEN list
  ELSE [t \in Tasks |-> CASE list[t] = "overflow" -> "delayed"
                          [] list[t] = "delayed"  -> "overflow"
                          [] OTHER                -> list[t]]
NextNow == IF Now = 0 THEN NextUnblock(Switched, wakeAt) ELSE time.next
Over    == IF Now < NextNow THEN {}
           ELSE {t \in Tasks : Switched[t] = "delayed" /\ wakeAt[t] <= Now}
ListNow == [t \in Tasks |-> IF t \in Over THEN "ready" ELSE Switched[t]]

IncrementTick ==
  /\ time' = [tick |-> Now,
              overflows |-> IF Now = 0 THEN 1 - time.overflows ELSE time.overflows,
              next |-> IF Now < NextNow THEN NextNow ELSE NextUnblock(ListNow, wakeAt)]
  /\ list' = ListNow
  /\ LeaveEvents(Over)
  /\ UNCHANGED wakeAt

(* What it returns: a context switch is required. *)
SwitchRequired ==
  \/ yield = 1
  \/ \E t \in Over : prio[t] >= prio[cur]
  \/ Cardinality({t \in Ready(ListNow) : prio[t] = prio[cur]}) > 1

(* In the critical section of xTaskResumeAll no interrupt is taken. *)
Masked == at[cur].pc = "catchUp"

(* The tick interrupt.  While the scheduler is suspended it only counts. *)
Tick ==
  /\ ~Masked
  /\ \A t \in Tasks : due[t] > -Lag
  /\ due' = [t \in Tasks |-> IF due[t] = Off THEN Off ELSE due[t] - 1]
  /\ IF susp > 0
       THEN /\ pended < MaxPended /\ pended' = pended + 1
            /\ UNCHANGED <<lists, pendsv>>
       ELSE /\ IncrementTick
            /\ pendsv' = IF SwitchRequired THEN 1 ELSE pendsv
            /\ UNCHANGED pended
  /\ UNCHANGED <<readied, susp, yield, cur, prio, owner, state, at, prev>>

(* vTaskSwitchContext: one of the ready tasks of the highest priority. *)
SwitchContext(t) ==
  /\ pendsv = 1 /\ t \in Ready(list)
  /\ \A u \in Ready(list) : prio[u] <= prio[t]
  /\ cur' = t /\ pendsv' = 0 /\ yield' = 0
  /\ UNCHANGED <<lists, pended, readied, susp, prio, owner, state, at, prev, due>>

Continue(t) ==
  at' = [at EXCEPT ![t].pc = at[t].then, ![t].then = "run", ![t].force = 0]

(* xTaskResumeAll: the tasks that interrupts readied, then the ticks that were
   not processed, then the yield that all of this may have left pending. *)
ResumeAll(t) ==
  /\ Runs(t, "resume")
  /\ list' = [u \in Tasks |-> IF u \in readied THEN "ready" ELSE list[u]]
  /\ time' = IF readied = {} THEN time
             ELSE [time EXCEPT !.next = NextUnblock(list', wakeAt)]
  /\ yield' = IF \E u \in readied : prio[u] >= prio[t] THEN 1 ELSE yield
  /\ Goto(t, "catchUp")
  /\ susp' = 0 /\ readied' = {}
  /\ UNCHANGED <<wakeAt, waiters, ahead, pended, pendsv, cur, prio, owner, state, prev, due>>

CatchUp(t) ==
  /\ Runs(t, "catchUp") /\ pended > 0
  /\ pended' = pended - 1
  /\ IncrementTick
  /\ yield' = IF SwitchRequired THEN 1 ELSE yield
  /\ UNCHANGED <<readied, susp, pendsv, cur, prio, owner, state, at, prev, due>>

Resumed(t) ==
  /\ Runs(t, "catchUp") /\ pended = 0
  /\ pendsv' = yield
  /\ IF at[t].force = 1 /\ yield = 0
       THEN at' = [at EXCEPT ![t].pc = "yield", ![t].force = 0]
       ELSE Continue(t)
  /\ UNCHANGED <<lists, pended, readied, susp, yield, cur, prio, owner, state, prev, due>>

(* portYIELD_WITHIN_API *)
Yield(t) ==
  /\ Runs(t, "yield")
  /\ pendsv' = 1
  /\ Continue(t)
  /\ UNCHANGED <<lists, pended, readied, susp, yield, cur, prio, owner, state, prev, due>>

(* The record of a task in a section with the scheduler suspended. *)
Suspended(r, then, force) ==
  [r EXCEPT !.pc = "resume", !.then = then, !.force = force]
-----------------------------------------------------------------------------
(* xSemaphoreTake and xSemaphoreGive of a mutex.                           *)

(* The application takes the mutexes that it holds together in their order. *)
CallTake(t, m, ticks) ==
  /\ Runs(t, "run")
  /\ \A h \in Held(t) : h < m /\ t \in Nesting
  /\ at' = [at EXCEPT ![t].pc = "try", ![t].m = m, ![t].left = ticks]
  /\ UNCHANGED <<lists, pended, readied, sched, prio, owner, state, prev, due>>

(* The critical section of xQueueSemaphoreTake.  For a free mutex there is no
   task in xTasksWaitingToSend.  inh is xInheritanceOccurred: configASSERT halts
   where it is 1 and no time is left; here the task does not go on. *)
Try(t) ==
  /\ Runs(t, "try")
  /\ \/ /\ owner[at[t].m] = NoTask
        /\ owner' = [owner EXCEPT ![at[t].m] = t]
        /\ Return(t)
     \/ /\ owner[at[t].m] # NoTask /\ at[t].left = 0 /\ at[t].inh = 0
        /\ Return(t) /\ UNCHANGED owner
     \/ /\ owner[at[t].m] # NoTask /\ at[t].left > 0
        /\ at' = [at EXCEPT ![t].pc = "check",
                            ![t].entry = IF @ = <<>> THEN <<time.overflows, time.tick>> ELSE @]
        /\ due' = IF at[t].entry = <<>> /\ at[t].left < Forever
                    THEN [due EXCEPT ![t] = at[t].left] ELSE due
        /\ UNCHANGED owner
  /\ UNCHANGED <<lists, pended, readied, sched, prio, state, prev>>

Elapsed(t) == (time.tick - at[t].entry[2]) % Width

(* xTaskCheckForTimeOut *)
TimedOut(t) ==
  /\ at[t].left # Forever
  /\ \/ time.overflows # at[t].entry[1] /\ time.tick >= at[t].entry[2]
     \/ Elapsed(t) >= at[t].left

(* xTicksToWait and TimeOut_t when it has not timed out. *)
StillWaits(t) ==
  IF at[t].left = Forever THEN at[t]
  ELSE [at[t] EXCEPT !.left = @ - Elapsed(t), !.entry = <<time.overflows, time.tick>>]

(* xTaskPriorityInherit *)
Inherit(t, h) ==
  /\ prio' = IF prio[h] < prio[t] THEN [prio EXCEPT ![h] = prio[t]] ELSE prio
  /\ at' = [at EXCEPT ![t] = [Suspended(StillWaits(t), "try", 1) EXCEPT
                                !.inh = IF Base[h] < prio[t] THEN 1 ELSE 0]]

(* xTaskPriorityInherit, vTaskPlaceOnEventList *)
Block(t) ==
  /\ Runs(t, "check")
  /\ ~TimedOut(t) /\ owner[at[t].m] # NoTask
  /\ Inherit(t, owner[at[t].m])
  /\ Insert(at[t].m, t)
  /\ AddOrSuspend(t, StillWaits(t).left)
  /\ susp' = 1
  /\ UNCHANGED <<pended, readied, yield, pendsv, cur, owner, state, prev, due>>

(* The mutex was given in the meantime, or the time is over. *)
DoNotBlock(t) ==
  /\ Runs(t, "check")
  /\ \/ /\ ~TimedOut(t) /\ owner[at[t].m] = NoTask
        /\ at' = [at EXCEPT ![t] = Suspended(StillWaits(t), "try", 0)]
     \/ /\ TimedOut(t)
        /\ at' = [at EXCEPT ![t] = [Suspended(@, "expired", 0) EXCEPT !.left = 0]]
  /\ susp' = 1
  /\ UNCHANGED <<lists, pended, readied, yield, pendsv, cur, prio, owner, state, prev, due>>

Highest(p, q) == IF p > q THEN p ELSE q

(* prvGetDisinheritPriorityAfterTimeout, vTaskPriorityDisinheritAfterTimeout *)
WrongDisinheritAfterTimeout(t, m) ==
  LET h == owner[m] IN
  prio' = IF at[t].inh = 1 /\ h # NoTask /\ Cardinality(Held(h)) = 1
            THEN [prio EXCEPT ![h] = Base[h]] ELSE prio

DisinheritAfterTimeout(t, m) ==
  LET h == owner[m] IN
  IF at[t].inh = 1 /\ h # NoTask /\ Cardinality(Held(h)) = 1
    THEN \E p \in IF waiters[m] = {} THEN {0} ELSE {prio[u] : u \in First(m)} :
           prio' = [prio EXCEPT ![h] = Highest(Base[h], p)]
    ELSE UNCHANGED prio

(* After the time-out: once more whether the mutex is free, in a critical
   section, and what was inherited is taken back in another one. *)
Expired(t) ==
  /\ Runs(t, "expired")
  /\ IF owner[at[t].m] = NoTask THEN Goto(t, "try") /\ UNCHANGED due
     ELSE IF at[t].inh = 1 THEN Goto(t, "disinherit") /\ UNCHANGED due
     ELSE Return(t)
  /\ UNCHANGED <<lists, pended, readied, sched, prio, owner, state, prev>>

Disinherit(t) ==
  /\ Runs(t, "disinherit")
  /\ DisinheritAfterTimeout(t, at[t].m)
  /\ Return(t)
  /\ UNCHANGED <<lists, pended, readied, sched, owner, state, prev>>

(* xTaskPriorityDisinherit: only with the last mutex. *)
LastGiven(t) == prio[t] # Base[t] /\ Cardinality(Held(t)) = 1

(* xQueueGenericSend, prvCopyDataToQueue, xTaskRemoveFromEventList: the first
   waiter is made ready; only when nobody waits does the disinheritance yield. *)
WrongGivenYields(t, m, p) == LastGiven(t) /\ \E u \in First(m) : prio[u] > p
GivenYields(t, m, p) ==
  IF waiters[m] = {} THEN LastGiven(t) ELSE \E u \in First(m) : prio[u] > p

WrongWake(u) == UNCHANGED list
Wake(u) == list' = [list EXCEPT ![u] = "ready"]

Give(t, m) ==
  /\ Runs(t, "run") /\ m \in Held(t) /\ \A h \in Held(t) : h <= m
  /\ owner' = [owner EXCEPT ![m] = NoTask]
  /\ \/ waiters[m] = {} /\ UNCHANGED <<list, waiters, ahead>>
     \/ \E u \in First(m) : Wake(u) /\ LeaveEvents({u})
  /\ LET p == IF LastGiven(t) THEN Base[t] ELSE prio[t] IN
     /\ prio' = [prio EXCEPT ![t] = p]
     /\ pendsv' = IF GivenYields(t, m, p) THEN 1 ELSE 0
     /\ yield' = IF waiters[m] # {} /\ GivenYields(t, m, p) THEN 1 ELSE yield
  /\ UNCHANGED <<time, wakeAt, pended, readied, susp, cur, state, at, prev, due>>
-----------------------------------------------------------------------------
(* vTaskDelay and vTaskDelayUntil.                                         *)

Delay(t, ticks) ==
  /\ Runs(t, "run")
  /\ due' = [due EXCEPT ![t] = ticks]
  /\ IF ticks = 0
       THEN /\ at' = [at EXCEPT ![t].pc = "yield", ![t].then = "woke"]
            /\ UNCHANGED <<lists, susp>>
       ELSE /\ AddToDelayed(t, ticks) /\ UNCHANGED <<waiters, ahead>>
            /\ susp' = 1
            /\ at' = [at EXCEPT ![t] = Suspended(@, "woke", 1)]
  /\ UNCHANGED <<pended, readied, yield, pendsv, cur, prio, owner, state, prev>>

(* xShouldDelay: the time to wake is ahead, whichever of it and the tick count
   has overflowed since the previous wake time. *)
ShouldDelay(wake, last) ==
  IF time.tick < last THEN wake < last /\ wake > time.tick
                      ELSE wake < last \/ wake > time.tick

DelayUntil(t, ticks) ==
  /\ Runs(t, "run")
  /\ LET wake == (prev[t] + ticks) % Width IN
     /\ prev' = [prev EXCEPT ![t] = wake]
     /\ IF ShouldDelay(wake, prev[t])
          THEN AddToDelayed(t, (wake - time.tick) % Width)
          ELSE UNCHANGED <<time, list, wakeAt>>
  /\ due' = [due EXCEPT ![t] = @ + ticks]
  /\ susp' = 1
  /\ at' = [at EXCEPT ![t] = Suspended(@, "woke", 1)]
  /\ UNCHANGED <<waiters, ahead, pended, readied, yield, pendsv, cur, prio, owner, state>>

Woke(t) ==
  /\ Runs(t, "woke")
  /\ Return(t)
  /\ UNCHANGED <<lists, pended, readied, sched, prio, owner, state, prev>>
-----------------------------------------------------------------------------
(* Notifications.                                                          *)

(* xTaskGenericNotifyWait, first critical section: a notification that is
   there already is not waited for. *)
WrongStartsWaiting(t) == TRUE
StartsWaiting(t) == state[t] # "received"

NotifyWait(t, ticks) ==
  /\ Runs(t, "run")
  /\ at' = [at EXCEPT ![t].pc = "received", ![t].left = ticks]
  /\ IF StartsWaiting(t)
       THEN /\ state' = [state EXCEPT ![t] = "waiting"]
            /\ due' = IF ticks < Forever THEN [due EXCEPT ![t] = ticks] ELSE due
            /\ IF ticks > 0
                 THEN AddOrSuspend(t, ticks) /\ pendsv' = 1
                 ELSE UNCHANGED <<time, list, wakeAt, pendsv>>
       ELSE UNCHANGED <<state, due, time, list, wakeAt, pendsv>>
  /\ UNCHANGED <<waiters, ahead, pended, readied, susp, yield, cur, prio, owner, prev>>

(* The second one. *)
NotifyReceived(t) ==
  /\ Runs(t, "received")
  /\ state' = [state EXCEPT ![t] = "none"]
  /\ Return(t)
  /\ UNCHANGED <<lists, pended, readied, sched, prio, owner, prev>>

(* xTaskGenericNotify *)
Notify(t, u) ==
  /\ Runs(t, "run") /\ Ticks(t, "notify") # {} /\ Ticks(u, "wait") # {} /\ u # t
  /\ state' = [state EXCEPT ![u] = "received"]
  /\ IF state[u] = "waiting"
       THEN /\ list' = [list EXCEPT ![u] = "ready"]
            /\ pendsv' = IF prio[u] > prio[t] THEN 1 ELSE pendsv
       ELSE UNCHANGED <<list, pendsv>>
  /\ UNCHANGED <<time, wakeAt, waiters, ahead, pended, readied, susp, yield, cur, prio,
                 owner, at, prev, due>>

(* xTaskGenericNotifyFromISR.  The interrupt handlers of L1 do not yield when it
   reports a woken task: the switch is left to the next tick. *)
NotifyFromISR(u) ==
  /\ ~Masked /\ Ticks(u, "wait") # {}
  /\ state' = [state EXCEPT ![u] = "received"]
  /\ IF state[u] = "waiting"
       THEN /\ IF susp = 0
                 THEN list' = [list EXCEPT ![u] = "ready"] /\ UNCHANGED readied
                 ELSE readied' = readied \cup {u} /\ UNCHANGED list
            /\ yield' = IF prio[u] > prio[cur] THEN 1 ELSE yield
       ELSE UNCHANGED <<list, readied, yield>>
  /\ UNCHANGED <<time, wakeAt, waiters, ahead, pended, susp, pendsv, cur, prio, owner, at,
                 prev, due>>
-----------------------------------------------------------------------------
Step(t) ==
  \/ \E m \in Mutexes, ticks \in Ticks(t, "take") : CallTake(t, m, ticks)
  \/ Try(t) \/ Block(t) \/ DoNotBlock(t) \/ Expired(t) \/ Disinherit(t)
  \/ \E m \in Mutexes : Give(t, m)
  \/ \E ticks \in Ticks(t, "delay") : Delay(t, ticks)
  \/ \E ticks \in Ticks(t, "until") : DelayUntil(t, ticks)
  \/ \E ticks \in Ticks(t, "wait") : NotifyWait(t, ticks)
  \/ Woke(t) \/ NotifyReceived(t)
  \/ \E u \in Tasks : Notify(t, u)
  \/ ResumeAll(t) \/ CatchUp(t) \/ Resumed(t) \/ Yield(t)

Next ==
  \/ \E t \in Tasks : Step(t) \/ SwitchContext(t) \/ NotifyFromISR(t)
  \/ Tick

Spec == Init /\ [][Next]_vars
-----------------------------------------------------------------------------
(* Properties.                                                             *)

Waiting(t) == \E m \in Mutexes : t \in waiters[m]

(* The order of a list: strict and total. *)
Ordered(S) ==
  /\ \A u, v \in S : <<u, v>> \in ahead => <<v, u>> \notin ahead
  /\ \A u, v \in S : u = v \/ <<u, v>> \in ahead \/ <<v, u>> \in ahead
  /\ \A u, v, w \in S : <<u, v>> \in ahead /\ <<v, w>> \in ahead => <<u, w>> \in ahead

TypeOK ==
  /\ time \in [tick : 0 .. Forever, overflows : 0 .. 1, next : 0 .. Forever]
  /\ pended \in 0 .. MaxPended /\ readied \subseteq Tasks
  /\ list \in [Tasks -> {"ready", "delayed", "overflow", "suspended"}]
  /\ wakeAt \in [Tasks -> 0 .. Forever] /\ prev \in [Tasks -> 0 .. Forever]
  /\ susp \in 0 .. 1 /\ yield \in 0 .. 1 /\ pendsv \in 0 .. 1 /\ cur \in Tasks
  /\ owner \in [Mutexes -> Tasks \cup {NoTask}]
  /\ state \in [Tasks -> {"none", "waiting", "received"}]
  /\ \A t \in Tasks :
       /\ prio[t] \in Range(Base) /\ due[t] \in -Lag .. Off
       /\ \A m \in Mutexes : t \in waiters[m] => list[t] # "ready" /\ at[t].m = m
       /\ t \in readied => susp = 1 /\ state[t] = "received"
  /\ waiters \in [Mutexes -> SUBSET Tasks]
  /\ \A m \in Mutexes : Ordered(waiters[m])
  /\ list[Idle] = "ready" /\ pendsv + susp <= 1

(* "The scheduler selects the highest priority task that is able to run": while
   no section with the scheduler suspended is open and no switch is pending, no
   task that is ready has a higher priority than the one that runs.  A task that
   an interrupt has readied waits for the next tick (yield). *)
HighestRuns ==
  susp = 0 /\ pendsv = 0 /\ yield = 0 =>
    \A t \in Ready(list) : prio[t] <= prio[cur]

(* The tasks whose wait for m is over before they were given it and that have
   not taken back the priority that they gave to its holder. *)
Leaving(m) ==
  {t \in Tasks : at[t].m = m /\ at[t].inh = 1 /\ ~Waiting(t)}

(* Priority inheritance: the holder of a mutex runs at least at the priority of
   every task that waits for it, so that no task of a priority between theirs
   delays them; and it has no higher priority than its own without one that
   waits, or whose time-out has still to be handled. *)
Inherited ==
  \A t \in Tasks :
    /\ \A m \in Held(t) : \A u \in waiters[m] : prio[t] >= prio[u]
    /\ prio[t] > Base[t] =>
         \E m \in Held(t) : \E u \in waiters[m] \cup Leaving(m) : prio[u] = prio[t]

(* A task that waits for some ticks waits for them, neither shorter nor longer,
   wherever the tick count overflows and however many ticks came while the
   scheduler was suspended; a periodic task does not drift; and a task that
   waits indefinitely returns with what it waited for. *)
OnTime ==
  \A t \in Tasks :
    /\ list[t] \in {"delayed", "overflow"} => due[t] + pended >= 1
    /\ list[t] = "ready" /\ at[t].pc = "woke" => due[t] <= 0
    /\ list[t] = "ready" /\ at[t].pc = "received" /\ state[t] = "waiting" => due[t] <= 0
    /\ at[t].pc = "expired" => due[t] <= 0

(* No wake-up is lost: when tasks wait for a mutex that is free, one that was
   woken is on its way to it; and a notification stays until the task that it
   is for has returned with it. *)
Retrying(m) ==
  {t \in Tasks : list[t] = "ready" /\ at[t].m = m
                   /\ at[t].pc \in {"try", "check", "yield", "resume", "catchUp", "expired"}}

NoLostWake ==
  /\ [](\A m \in Mutexes : owner[m] = NoTask /\ waiters[m] # {} => Retrying(m) # {})
  /\ [][\A t \in Tasks : state[t] = "received" =>
                            state'[t] = "received" \/ at[t].pc = "received"]_vars
===============================================================================
