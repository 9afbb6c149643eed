---------------------------- MODULE KernelProofs -----------------------------
(***************************************************************************)
(* Proofs about Kernel, for any tasks, priorities, calls and mutexes, any  *)
(* width of the tick counter and any number of pended ticks.               *)
(***************************************************************************)
EXTENDS Kernel, FiniteSetTheorems, WellFoundedInduction, TLAPS

Sections == {"resume", "catchUp", "yield"}
Places   == Sections \cup {"run", "try", "check", "expired", "disinherit", "woke", "received"}

Locals ==
  [pc : Places, m : Mutexes \cup {0}, left : 0 .. Forever,
   entry : {<<>>} \cup ((0 .. 1) \X (0 .. Forever)), inh : 0 .. 1,
   then : {"run", "try", "expired", "woke"}, force : 0 .. 1]

(* The types of the variables. *)
Types ==
  /\ time \in [tick : 0 .. Forever, overflows : 0 .. 1, next : 0 .. Forever]
  /\ pended \in 0 .. MaxPended /\ readied \subseteq Tasks
  /\ list \in [Tasks -> {"ready", "delayed", "overflow", "suspended"}]
  /\ wakeAt \in [Tasks -> 0 .. Forever] /\ prev \in [Tasks -> 0 .. Forever]
  /\ waiters \in [Mutexes -> SUBSET Tasks] /\ ahead \subseteq Tasks \X Tasks
  /\ susp \in 0 .. 1 /\ yield \in 0 .. 1 /\ pendsv \in 0 .. 1 /\ cur \in Tasks
  /\ prio \in [Tasks -> Range(Base)]
  /\ owner \in [Mutexes -> Tasks \cup {NoTask}]
  /\ state \in [Tasks -> {"none", "waiting", "received"}]
  /\ at \in [Tasks -> Locals]
  /\ due \in [Tasks -> Int]

(* Where a task is tells what its local variables hold. *)
Place(t) ==
  LET r == at[t] IN
  /\ r.pc = "run" => r = Running
  /\ r.pc \in {"try", "check", "expired", "disinherit"} => r.m # 0
  /\ r.pc \in {"woke", "received"} => r.m = 0
  /\ r.pc \in Sections => \/ r.then \in {"try", "expired"} /\ r.m # 0
                          \/ r.then = "woke" /\ r.m = 0
  /\ r.pc \notin Sections => r.then = "run"
  /\ r.pc = "check" => r.entry # <<>> /\ r.left > 0
  /\ r.pc \in Sections /\ r.then = "try" => r.left > 0

(* Where a task may be in another list than the ready lists: past the call that
   blocked it. *)
PastTake(t) == at[t].pc = "try"  \/ (at[t].pc \in Sections /\ at[t].then = "try")
PastWait(t) == at[t].pc = "woke" \/ (at[t].pc \in Sections /\ at[t].then = "woke")

Blocked(t) ==
  /\ list[t] # "ready" => at[t].pc = "received" \/ PastTake(t) \/ PastWait(t)
  /\ \A m \in Mutexes : t \in waiters[m] =>
       /\ list[t] # "ready" /\ at[t].m = m /\ PastTake(t) /\ at[t].left > 0
       /\ list[t] # "suspended" => at[t].left < Forever
  /\ state[t] = "waiting" => at[t].pc = "received"
  /\ t \in readied => state[t] = "received" /\ at[t].pc = "received"

(* The section with the scheduler suspended is the running task's. *)
Section ==
  /\ susp = 1 <=> at[cur].pc = "resume"
  /\ \A t \in Tasks : at[t].pc \in {"resume", "catchUp"} => t = cur /\ pendsv = 0
  /\ pended # 0 => at[cur].pc \in {"resume", "catchUp"}
  /\ readied # {} => susp = 1
  /\ \/ list[cur] = "ready" \/ pendsv = 1 \/ at[cur].pc = "yield"
     \/ at[cur].pc \in {"resume", "catchUp"} /\ at[cur].force = 1
  /\ at[Idle].pc = "run"

Lists ==
  /\ \A m \in Mutexes : Ordered(waiters[m])
  /\ \A u, v \in Tasks : <<u, v>> \in ahead => Waiting(u) /\ Waiting(v)

Shape ==
  /\ Types /\ Section /\ Lists
  /\ \A t \in Tasks : Place(t) /\ Blocked(t)

-----------------------------------------------------------------------------
(* Time.                                                                   *)

Sleeping(t) ==
  /\ list[t] = "delayed" => /\ wakeAt[t] > time.tick /\ time.next <= wakeAt[t]
                            /\ due[t] + pended = wakeAt[t] - time.tick
  /\ list[t] = "overflow" => /\ wakeAt[t] < time.tick
                             /\ due[t] + pended = wakeAt[t] + Width - time.tick

Awake(t) ==
  /\ list[t] = "ready" /\ PastWait(t) => due[t] <= 0
  /\ list[t] = "ready" /\ at[t].pc = "received" /\ state[t] = "waiting" => due[t] <= 0
  /\ at[t].pc = "expired" \/ (at[t].pc \in Sections /\ at[t].then = "expired") => due[t] <= 0

(* The ticks that have passed since the entry time, as the tick counter shows. *)
Seen(t) == at[t].left - (due[t] + pended)

Timed(t) ==
  at[t].entry # <<>> /\ at[t].left \in 1 .. Forever - 1 =>
    /\ at[t].left + Lag <= Width /\ Seen(t) >= 0
    /\ \/ time.tick = at[t].entry[2] + Seen(t) /\ time.overflows = at[t].entry[1]
       \/ time.tick = at[t].entry[2] + Seen(t) - Width /\ time.overflows # at[t].entry[1]

Asked(t) ==
  at[t].m # 0 /\ at[t].left < Forever => at[t].left + Lag <= Width

InStep(t) ==
  Periodic(t) =>
    /\ due[t] + pended <= Width - 2
    /\ prev[t] - (time.tick + due[t] + pended) \in {0, Width, -Width}
    /\ ~PastWait(t) => due[t] <= 0
    /\ at[t].m # 0 => at[t].left \in {0, Forever}

InTime(t) == /\ due[t] \in -Lag .. Off
             /\ Sleeping(t) /\ Awake(t) /\ Timed(t) /\ Asked(t) /\ InStep(t)

TimeInv == \A t \in Tasks : InTime(t)

-----------------------------------------------------------------------------
(* Inheritance.                                                            *)

(* No task takes a mutex while it holds another. *)
Unnested == Nesting = {}

(* No task l that may time out after it lent its priority to a holder h leaves
   behind a task w whose priority is not above that of h.  It is so where mutexes
   are waited for indefinitely or not at all. *)
TimeOutsHarmless ==
  \A h, l, w \in Tasks :
    /\ h # l /\ l # w /\ w # h
    /\ Ticks(h, "take") # {}
    /\ ~(Ticks(l, "take") \subseteq {0, Forever})
    /\ ~(Ticks(w, "take") \subseteq {0})
    => Base[l] <= Base[h] \/ Base[w] > Base[h]

Single == \A m, n \in Mutexes : m = n

(* Those whose wait for m is over and that will still take back what the holder
   inherited from them. *)
Lenders(m) ==
  {u \in Tasks : /\ at[u].m = m /\ at[u].inh = 1 /\ at[u].left < Forever
                 /\ ~Waiting(u) /\ ~(at[u].pc = "try" /\ at[u].left = 0)}

Holders ==
  /\ \A m \in Mutexes : owner[m] # NoTask => at[owner[m]].m = 0
  /\ \A m, n \in Mutexes : owner[m] = owner[n] /\ owner[m] # NoTask => m = n

Lent ==
  \A t \in Tasks :
    /\ prio[t] >= Base[t]
    /\ prio[t] > Base[t] =>
         \E m \in Mutexes : /\ owner[m] = t
                            /\ \E u \in waiters[m] \cup Lenders(m) : prio[u] = prio[t]

Bounded ==
  \A m \in Mutexes : \A w \in waiters[m] :
    /\ owner[m] # NoTask => /\ prio[w] <= prio[owner[m]]
                            /\ prio[w] > Base[owner[m]] => at[w].inh = 1
    /\ owner[m] = NoTask => /\ \E u \in Retrying(m) : prio[u] >= prio[w]
                            /\ pendsv = 0 => prio[w] <= prio[cur]

Sorted ==
  \A m \in Mutexes : \A u, v \in waiters[m] : <<u, v>> \in ahead => prio[u] >= prio[v]

InheritInv == Holders /\ Lent /\ Bounded /\ Sorted

(* The calls that the local variables and the holders come from. *)
CalledBy(t) ==
  at[t].m # 0 =>
    /\ Ticks(t, "take") # {}
    /\ at[t].left # 0 => ~(Ticks(t, "take") \subseteq {0})
    /\ at[t].left < Forever /\ (at[t].left # 0 \/ at[t].inh = 1) =>
         ~(Ticks(t, "take") \subseteq {0, Forever})

Called ==
  /\ \A t \in Tasks : CalledBy(t)
  /\ \A m \in Mutexes : owner[m] # NoTask => Ticks(owner[m], "take") # {}

Harmless ==
  \A m \in Mutexes : owner[m] # NoTask =>
    \A l \in Lenders(m), w \in waiters[m] :
      prio[l] <= Base[owner[m]] \/ prio[w] > Base[owner[m]]

Highest1 ==
  pendsv = 0 /\ yield = 0 => \A t \in Ready(list) : prio[t] <= prio[cur]

Free == \A m \in Mutexes : owner[m] = NoTask /\ waiters[m] # {} => Retrying(m) # {}

-----------------------------------------------------------------------------
(* The constants.                                                          *)

LEMMA Constants ==
  /\ Width \in Nat /\ Width >= 2 /\ Forever = Width - 1 /\ Off = Width
  /\ Lag \in 0 .. Width - 1 /\ MaxPended \in Nat
  /\ Mutexes \subseteq Nat /\ 0 \notin Mutexes
  /\ Idle \in Tasks /\ NoTask \notin Tasks
  /\ \A t \in Tasks : Base[t] \in Nat
  /\ Base \in [Tasks -> Range(Base)] /\ Range(Base) \subseteq Nat
  BY KernelAssumption DEF Forever, Off, Tasks, Range

LEMMA CallTicks ==
  ASSUME NEW t \in Tasks
  PROVE  /\ \A op : Ticks(t, op) \subseteq 0 .. Forever
         /\ Ticks(t, "until") \subseteq 1 .. Forever - 1
         /\ Periodic(t) => /\ Ticks(t, "take") \subseteq {0, Forever}
                           /\ Ticks(t, "wait") \subseteq {Forever}
                           /\ Ticks(t, "delay") = {}
         /\ \A n \in Ticks(t, "take") : n < Forever => n + Lag <= Width
         /\ \A op : Ticks(Idle, op) = {}
  <1>1. /\ Ticks(t, "until") \subseteq 1 .. Forever - 1
        /\ Periodic(t) => /\ Ticks(t, "take") \subseteq {0, Forever}
                          /\ Ticks(t, "wait") \subseteq {Forever}
                          /\ Ticks(t, "delay") = {}
        /\ \A n \in Ticks(t, "take") \ {Forever} : n + Lag <= Width
        /\ \A op \in DOMAIN Calls[t] : Calls[t][op] \subseteq 0 .. Forever
    BY KernelAssumption
  <1>2. \A op : Ticks(t, op) \subseteq 0 .. Forever
    BY <1>1 DEF Ticks
  <1>3. \A n \in Ticks(t, "take") : n < Forever => n + Lag <= Width
    BY <1>1, <1>2, Constants
  <1>4. \A op : Ticks(Idle, op) = {}
    <2>1. Calls[Idle] = <<>>
      BY KernelAssumption
    <2>2. DOMAIN <<>> = {}
      OBVIOUS
    <2>3. QED
      BY <2>1, <2>2 DEF Ticks
  <1>5. QED
    BY <1>1, <1>2, <1>3, <1>4

-----------------------------------------------------------------------------
(* Arithmetic of the tick counter.                                         *)

LEMMA OneWrap ==
  ASSUME NEW w \in Nat, w > 0, NEW x \in 0 .. 2 * w - 1
  PROVE  x % w = IF x < w THEN x ELSE x - w
  OBVIOUS

LEMMA NowIs ==
  ASSUME time.tick \in 0 .. Forever
  PROVE  /\ Now \in 0 .. Forever
         /\ Now = IF time.tick = Forever THEN 0 ELSE time.tick + 1
  <1>1. time.tick + 1 \in 0 .. 2 * Width - 1
    BY Constants
  <1>2. QED
    BY <1>1, Constants, OneWrap DEF Now

LEMMA Minimum ==
  ASSUME NEW S \in SUBSET Nat, S # {}
  PROVE  Min(S) \in S /\ \A y \in S : Min(S) <= y
  <1>1. IsWellFoundedOn(OpToRel(<, Nat), Nat)
    BY NatLessThanWellFounded
  <1>2. PICK x \in S : \A y \in S : <<y, x>> \notin OpToRel(<, Nat)
    BY <1>1, WFMin
  <1>3. ASSUME NEW y \in S PROVE x <= y
    <2>1. <<y, x>> \in Nat \X Nat /\ <<y, x>>[1] = y /\ <<y, x>>[2] = x
      OBVIOUS
    <2>2. ~(y < x)
      BY <1>2, <2>1 DEF OpToRel
    <2>3. QED
      BY <2>2
  <1>4. QED
    BY <1>3 DEF Min

(* xNextTaskUnblockTime is not past the time of any task in the delayed list. *)
LEMMA NextUnblockIs ==
  ASSUME NEW l, NEW wake \in [Tasks -> 0 .. Forever]
  PROVE  /\ NextUnblock(l, wake) \in 0 .. Forever
         /\ \A t \in Tasks : l[t] = "delayed" => NextUnblock(l, wake) <= wake[t]
  <1> DEFINE delayed == {t \in Tasks : l[t] = "delayed"}
             S == {wake[t] : t \in delayed}
  <1>1. CASE delayed = {}
    BY <1>1, Constants DEF NextUnblock
  <1>2. CASE delayed # {}
    <2>1. S \in SUBSET Nat /\ S # {} /\ S \subseteq 0 .. Forever
      BY <1>2, Constants
    <2>2. NextUnblock(l, wake) = Min(S)
      BY <1>2 DEF NextUnblock
    <2>3. Min(S) \in S /\ \A y \in S : Min(S) <= y
      BY <2>1, Minimum
    <2>4. QED
      BY <2>1, <2>2, <2>3
  <1>3. QED
    BY <1>1, <1>2

LEMMA BelowZero ==
  ASSUME NEW w \in Nat, w > 0, NEW x \in -w .. -1
  PROVE  x % w = x + w
  OBVIOUS

-----------------------------------------------------------------------------
(* What the actions do to the local variables of the task that runs.       *)

Others(t) == /\ at' \in [Tasks -> Locals]
             /\ \A u \in Tasks : u # t => at'[u] = at[u]

LEMMA Moved ==
  ASSUME Types, NEW t \in Tasks, NEW r \in Locals, at' = [at EXCEPT ![t] = r]
  PROVE  Others(t) /\ at'[t] = r
  BY DEF Types, Others

LEMMA RunningIs == Running \in Locals
  BY Constants DEF Running, Locals, Places

LEMMA SuspendedIs ==
  ASSUME NEW r \in Locals, NEW th \in {"run", "try", "expired", "woke"}, NEW f \in 0 .. 1
  PROVE  /\ Suspended(r, th, f) \in Locals
         /\ Suspended(r, th, f).pc = "resume" /\ Suspended(r, th, f).then = th
         /\ Suspended(r, th, f).force = f /\ Suspended(r, th, f).m = r.m
         /\ Suspended(r, th, f).left = r.left /\ Suspended(r, th, f).entry = r.entry
         /\ Suspended(r, th, f).inh = r.inh
  BY DEF Suspended, Locals, Places, Sections

(* One field at a time. *)
LEMMA FieldSet ==
  ASSUME NEW r \in Locals
  PROVE  /\ \A pc \in Places : [r EXCEPT !.pc = pc] \in Locals
         /\ \A m \in Mutexes : [r EXCEPT !.m = m] \in Locals
         /\ \A left \in 0 .. Forever : [r EXCEPT !.left = left] \in Locals
         /\ \A e \in (0 .. 1) \X (0 .. Forever) : [r EXCEPT !.entry = e] \in Locals
         /\ \A i \in 0 .. 1 : [r EXCEPT !.inh = i] \in Locals
         /\ \A th \in {"run", "try", "expired", "woke"} : [r EXCEPT !.then = th] \in Locals
         /\ \A f \in 0 .. 1 : [r EXCEPT !.force = f] \in Locals
  BY DEF Locals

LEMMA CallTakeAt ==
  ASSUME Types, NEW t \in Tasks, Place(t), NEW m \in Mutexes,
         NEW ticks \in 0 .. Forever, CallTake(t, m, ticks)
  PROVE  /\ Others(t)
         /\ at'[t].pc = "try" /\ at'[t].m = m /\ at'[t].left = ticks
         /\ at'[t].entry = <<>> /\ at'[t].inh = 0 /\ at'[t].then = "run" /\ at'[t].force = 0
  <1> DEFINE r1 == [Running EXCEPT !.pc = "try"]
             r2 == [r1 EXCEPT !.m = m]
             r  == [r2 EXCEPT !.left = ticks]
  <1>1. at[t] = Running
    BY DEF CallTake, Runs, Place
  <1>2. r \in Locals
    <2>1. r1 \in Locals
      BY RunningIs, FieldSet DEF Places
    <2>2. r2 \in Locals
      BY <2>1, FieldSet
    <2>3. QED
      BY <2>2, FieldSet
  <1>3. at' = [at EXCEPT ![t] = r]
    BY <1>1 DEF CallTake, Types
  <1>4. Others(t) /\ at'[t] = r
    BY <1>2, <1>3, Moved
  <1>5. QED
    BY <1>4 DEF Running

LEMMA ReturnAt ==
  ASSUME Types, NEW t \in Tasks, at' = [at EXCEPT ![t] = Running]
  PROVE  Others(t) /\ at'[t] = Running
  BY Moved, RunningIs

(* Steps that only move the program counter. *)
LEMMA GotoAt ==
  ASSUME Types, NEW t \in Tasks, NEW pc \in Places, Goto(t, pc)
  PROVE  /\ Others(t)
         /\ at'[t].pc = pc
         /\ at'[t].m = at[t].m /\ at'[t].left = at[t].left
         /\ at'[t].entry = at[t].entry /\ at'[t].inh = at[t].inh
         /\ at'[t].then = at[t].then /\ at'[t].force = at[t].force
  <1> DEFINE r == [at[t] EXCEPT !.pc = pc]
  <1>1. at[t] \in Locals
    BY DEF Types
  <1>2. r \in Locals
    BY <1>1 DEF Locals
  <1>3. Others(t) /\ at'[t] = r
    BY <1>2, Moved DEF Goto
  <1>4. QED
    BY <1>1, <1>3 DEF Locals

LEMMA ContinueAt ==
  ASSUME Types, NEW t \in Tasks, Continue(t)
  PROVE  /\ Others(t)
         /\ at'[t].pc = at[t].then
         /\ at'[t].m = at[t].m /\ at'[t].left = at[t].left
         /\ at'[t].entry = at[t].entry /\ at'[t].inh = at[t].inh
         /\ at'[t].then = "run" /\ at'[t].force = 0
  <1> DEFINE r1 == [at[t] EXCEPT !.pc = at[t].then]
             r2 == [r1 EXCEPT !.then = "run"]
             r  == [r2 EXCEPT !.force = 0]
  <1>1. at[t] \in Locals
    BY DEF Types
  <1>2. r \in Locals
    <2>1. at[t].then \in Places
      BY <1>1 DEF Locals, Places
    <2>2. r1 \in Locals
      BY <1>1, <2>1, FieldSet
    <2>3. r2 \in Locals
      BY <2>2, FieldSet
    <2>4. \A f \in 0 .. 1 : [r2 EXCEPT !.force = f] \in Locals
      BY <2>3, FieldSet
    <2>5. QED
      BY <2>4, 0 \in 0 .. 1
  <1>. HIDE DEF r
  <1>3. at' = [at EXCEPT ![t] = r]
    BY DEF Continue, r
  <1>4. Others(t) /\ at'[t] = r
    BY <1>2, <1>3, Moved
  <1>5. QED
    BY <1>1, <1>4 DEF Locals, r

LEMMA ForceAt ==
  ASSUME Types, NEW t \in Tasks, at' = [at EXCEPT ![t].pc = "yield", ![t].force = 0]
  PROVE  /\ Others(t)
         /\ at'[t].pc = "yield"
         /\ at'[t].m = at[t].m /\ at'[t].left = at[t].left
         /\ at'[t].entry = at[t].entry /\ at'[t].inh = at[t].inh
         /\ at'[t].then = at[t].then /\ at'[t].force = 0
  <1> DEFINE r1 == [at[t] EXCEPT !.pc = "yield"]
             r  == [r1 EXCEPT !.force = 0]
  <1>1. at[t] \in Locals
    BY DEF Types
  <1>2. r \in Locals
    <2>1. r1 \in Locals
      BY <1>1, FieldSet DEF Places, Sections
    <2>2. \A f \in 0 .. 1 : [r1 EXCEPT !.force = f] \in Locals
      BY <2>1, FieldSet
    <2>3. QED
      BY <2>2, 0 \in 0 .. 1
  <1>. HIDE DEF r
  <1>3. at' = [at EXCEPT ![t] = r]
    BY DEF r
  <1>4. Others(t) /\ at'[t] = r
    BY <1>2, <1>3, Moved
  <1>8. r1 \in Locals
    BY <1>1, FieldSet DEF Places, Sections
  <1>5. r1.pc = "yield" /\ r1.then = at[t].then /\ r1.m = at[t].m
        /\ r1.left = at[t].left /\ r1.entry = at[t].entry /\ r1.inh = at[t].inh
    BY <1>1 DEF Locals
  <1>6. r.pc = r1.pc /\ r.then = r1.then /\ r.force = 0 /\ r.m = r1.m
        /\ r.left = r1.left /\ r.entry = r1.entry /\ r.inh = r1.inh
    BY <1>8 DEF Locals, r
  <1>7. QED
    BY <1>4, <1>5, <1>6

(* vTaskDelay and vTaskDelayUntil. *)
LEMMA SleepAt ==
  ASSUME Types, NEW t \in Tasks, at[t] = Running,
         \/ at' = [at EXCEPT ![t].pc = "yield", ![t].then = "woke"]
         \/ at' = [at EXCEPT ![t] = Suspended(@, "woke", 1)]
  PROVE  /\ Others(t)
         /\ at'[t].pc = "yield" \/ (at'[t].pc = "resume" /\ at'[t].force = 1)
         /\ at'[t].m = 0 /\ at'[t].left = Forever /\ at'[t].entry = <<>>
         /\ at'[t].inh = 0 /\ at'[t].then = "woke"
  <1>1. CASE at' = [at EXCEPT ![t].pc = "yield", ![t].then = "woke"]
    <2> DEFINE r1 == [Running EXCEPT !.pc = "yield"]
               r  == [r1 EXCEPT !.then = "woke"]
    <2>1. r \in Locals
      <3>1. r1 \in Locals
        BY RunningIs, FieldSet DEF Places, Sections
      <3>2. QED
        BY <3>1, FieldSet
    <2>2. at' = [at EXCEPT ![t] = r]
      BY <1>1 DEF Types
    <2>3. Others(t) /\ at'[t] = r
      BY <2>1, <2>2, Moved
    <2>4. QED
      BY <2>3 DEF Running
  <1>2. CASE at' = [at EXCEPT ![t] = Suspended(@, "woke", 1)]
    <2> DEFINE r == Suspended(Running, "woke", 1)
    <2>1. r \in Locals
      BY RunningIs, SuspendedIs
    <2>2. at' = [at EXCEPT ![t] = r]
      BY <1>2 DEF Types
    <2>3. Others(t) /\ at'[t] = r
      BY <2>1, <2>2, Moved
    <2>4. QED
      BY <2>3, RunningIs, SuspendedIs DEF Running
  <1>3. QED
    BY <1>1, <1>2

LEMMA NotifyWaitAt ==
  ASSUME Types, NEW t \in Tasks, Place(t), NEW ticks \in 0 .. Forever, NotifyWait(t, ticks)
  PROVE  /\ Others(t)
         /\ at'[t].pc = "received" /\ at'[t].m = 0 /\ at'[t].left = ticks
         /\ at'[t].entry = <<>> /\ at'[t].inh = 0 /\ at'[t].then = "run" /\ at'[t].force = 0
  <1> DEFINE r1 == [Running EXCEPT !.pc = "received"]
             r  == [r1 EXCEPT !.left = ticks]
  <1>1. at[t] = Running
    BY DEF NotifyWait, Runs, Place
  <1>2. r \in Locals
    <2>1. r1 \in Locals
      BY RunningIs, FieldSet DEF Places
    <2>2. QED
      BY <2>1, FieldSet
  <1>3. at' = [at EXCEPT ![t] = r]
    BY <1>1 DEF NotifyWait, Types
  <1>4. Others(t) /\ at'[t] = r
    BY <1>2, <1>3, Moved
  <1>5. QED
    BY <1>4 DEF Running

(* The critical section of xQueueSemaphoreTake when the mutex is taken. *)
LEMMA TryAt ==
  ASSUME Types, NEW t \in Tasks, Try(t)
  PROVE  /\ Others(t)
         /\ \/ owner[at[t].m] = NoTask /\ at'[t] = Running
            \/ owner[at[t].m] # NoTask /\ at[t].left = 0 /\ at'[t] = Running
            \/ /\ owner[at[t].m] # NoTask /\ at[t].left > 0
               /\ at'[t].pc = "check" /\ at'[t].m = at[t].m /\ at'[t].left = at[t].left
               /\ at'[t].entry = IF at[t].entry = <<>> THEN <<time.overflows, time.tick>>
                                 ELSE at[t].entry
               /\ at'[t].inh = at[t].inh /\ at'[t].then = at[t].then
               /\ at'[t].force = at[t].force
  <1>1. CASE /\ owner[at[t].m] = NoTask \/ (owner[at[t].m] # NoTask /\ at[t].left = 0)
             /\ Return(t)
    <2>1. at' = [at EXCEPT ![t] = Running]
      BY <1>1 DEF Return
    <2>2. Others(t) /\ at'[t] = Running
      BY <2>1, ReturnAt
    <2>3. QED
      BY <1>1, <2>2
  <1>2. CASE /\ owner[at[t].m] # NoTask /\ at[t].left > 0
             /\ at' = [at EXCEPT ![t].pc = "check",
                         ![t].entry = IF @ = <<>> THEN <<time.overflows, time.tick>> ELSE @]
    <2> DEFINE e  == IF at[t].entry = <<>> THEN <<time.overflows, time.tick>> ELSE at[t].entry
               r1 == [at[t] EXCEPT !.pc = "check"]
               r  == [r1 EXCEPT !.entry = e]
    <2>1. at[t] \in Locals
      BY DEF Types
    <2>2. e \in (0 .. 1) \X (0 .. Forever)
      BY <2>1 DEF Types, Locals
    <2>3. r1 \in Locals
      BY <2>1, FieldSet DEF Places
    <2>4. r \in Locals
      BY <2>2, <2>3, FieldSet
    <2>5. r1.entry = at[t].entry
      BY <2>1 DEF Locals
    <2>6. at' = [at EXCEPT ![t] = r]
      BY <1>2, <2>5
    <2> HIDE DEF r, e
    <2>7. Others(t) /\ at'[t] = r
      BY <2>4, <2>6, Moved
    <2>8. /\ r1.pc = "check" /\ r1.m = at[t].m /\ r1.left = at[t].left
          /\ r1.inh = at[t].inh /\ r1.then = at[t].then /\ r1.force = at[t].force
      BY <2>1 DEF Locals
    <2>9. /\ r.pc = r1.pc /\ r.m = r1.m /\ r.left = r1.left /\ r.entry = e
          /\ r.inh = r1.inh /\ r.then = r1.then /\ r.force = r1.force
      BY <2>3 DEF Locals, r
    <2>10. QED
      BY <1>2, <2>7, <2>8, <2>9 DEF e
  <1>3. QED
    BY <1>1, <1>2 DEF Try

LEMMA ElapsedIs ==
  ASSUME Types, NEW t \in Tasks, at[t].entry # <<>>
  PROVE  /\ at[t].entry[1] \in 0 .. 1 /\ at[t].entry[2] \in 0 .. Forever
         /\ Elapsed(t) \in 0 .. Forever
         /\ Elapsed(t) = IF time.tick >= at[t].entry[2] THEN time.tick - at[t].entry[2]
                         ELSE time.tick - at[t].entry[2] + Width
  <1>1. at[t].entry \in (0 .. 1) \X (0 .. Forever)
    BY DEF Types, Locals
  <1>2. at[t].entry[1] \in 0 .. 1 /\ at[t].entry[2] \in 0 .. Forever
    BY <1>1
  <1>3. time.tick \in 0 .. Forever
    BY DEF Types
  <1>4. CASE time.tick >= at[t].entry[2]
    <2>1. time.tick - at[t].entry[2] \in 0 .. 2 * Width - 1
      BY <1>2, <1>3, <1>4, Constants
    <2>2. (time.tick - at[t].entry[2]) % Width = time.tick - at[t].entry[2]
      <3>1. time.tick - at[t].entry[2] < Width /\ Width \in Nat /\ Width > 0
        BY <1>2, <1>3, <1>4, Constants
      <3>. DEFINE x == time.tick - at[t].entry[2]
      <3>. HIDE DEF x
      <3>2. x \in 0 .. 2 * Width - 1 /\ x < Width
        BY <2>1, <3>1 DEF x
      <3>3. x % Width = x
        BY <3>1, <3>2, OneWrap
      <3>4. QED
        BY <3>3 DEF x
    <2>3. Elapsed(t) = time.tick - at[t].entry[2]
      BY <2>2 DEF Elapsed
    <2>4. QED
      BY <1>2, <1>3, <1>4, <2>3, Constants
  <1>5. CASE time.tick < at[t].entry[2]
    <2>1. time.tick - at[t].entry[2] \in -Width .. -1
      BY <1>2, <1>3, <1>5, Constants
    <2>2. (time.tick - at[t].entry[2]) % Width = time.tick - at[t].entry[2] + Width
      <3>1. Width \in Nat /\ Width > 0
        BY Constants
      <3>. DEFINE x == time.tick - at[t].entry[2]
      <3>. HIDE DEF x
      <3>2. x \in -Width .. -1
        BY <2>1 DEF x
      <3>3. x % Width = x + Width
        BY <3>1, <3>2, BelowZero
      <3>4. QED
        BY <3>3 DEF x
    <2>3. Elapsed(t) = time.tick - at[t].entry[2] + Width
      BY <2>2 DEF Elapsed
    <2>4. QED
      BY <1>2, <1>3, <1>5, <2>3, Constants
  <1>6. QED
    BY <1>2, <1>3, <1>4, <1>5, Constants

(* xTaskCheckForTimeOut of a task that has not timed out. *)
LEMMA StillWaitsIs ==
  ASSUME Types, NEW t \in Tasks, Place(t), at[t].pc = "check", ~TimedOut(t)
  PROVE  LET r == StillWaits(t) IN
         /\ r \in Locals
         /\ r.m = at[t].m /\ r.inh = at[t].inh /\ r.left \in 1 .. Forever
         /\ r.left = IF at[t].left = Forever THEN Forever ELSE at[t].left - Elapsed(t)
         /\ r.entry = IF at[t].left = Forever THEN at[t].entry
                      ELSE <<time.overflows, time.tick>>
  <1>1. at[t] \in Locals /\ at[t].left \in 1 .. Forever /\ at[t].entry # <<>>
    <2>1. at[t] \in Locals
      BY DEF Types
    <2>2. QED
      BY <2>1, Constants DEF Locals, Place
  <1>2. CASE at[t].left = Forever
    BY <1>1, <1>2 DEF StillWaits
  <1>3. CASE at[t].left # Forever
    <2> DEFINE left == at[t].left - Elapsed(t)
               e  == <<time.overflows, time.tick>>
               r1 == [at[t] EXCEPT !.left = left]
               r  == [r1 EXCEPT !.entry = e]
    <2>1. Elapsed(t) \in 0 .. Forever /\ ~(Elapsed(t) >= at[t].left)
      BY <1>1, <1>3, ElapsedIs DEF TimedOut
    <2>2. left \in 1 .. Forever
      BY <1>1, <2>1, Constants
    <2>3. e \in (0 .. 1) \X (0 .. Forever)
      BY DEF Types
    <2>4. r1 \in Locals
      <3>1. \A n \in 0 .. Forever : [at[t] EXCEPT !.left = n] \in Locals
        BY <1>1, FieldSet
      <3>2. left \in 0 .. Forever
        BY <2>2, Constants
      <3>3. QED
        BY <3>1, <3>2
    <2>5. r \in Locals
      BY <2>3, <2>4, FieldSet
    <2>6. StillWaits(t) = r
      BY <1>3 DEF StillWaits
    <2> HIDE DEF left, e, r1
    <2>7. r1.m = at[t].m /\ r1.inh = at[t].inh /\ r1.left = left
      BY <1>1 DEF Locals, r1
    <2>8. r.m = r1.m /\ r.inh = r1.inh /\ r.left = r1.left /\ r.entry = e
      BY <2>4 DEF Locals
    <2> HIDE DEF r
    <2>9. QED
      BY <1>3, <2>2, <2>5, <2>6, <2>7, <2>8 DEF left, e
  <1>4. QED
    BY <1>2, <1>3

LEMMA BlockAt ==
  ASSUME Types, NEW t \in Tasks, Place(t), Block(t)
  PROVE  LET r == StillWaits(t) IN
         /\ Others(t)
         /\ at'[t].pc = "resume" /\ at'[t].then = "try" /\ at'[t].force = 1
         /\ at'[t].m = at[t].m /\ at'[t].left = r.left /\ at'[t].entry = r.entry
         /\ at'[t].inh = IF Base[owner[at[t].m]] < prio[t] THEN 1 ELSE 0
  <1> DEFINE r == StillWaits(t)
             q == Suspended(r, "try", 1)
             i == IF Base[owner[at[t].m]] < prio[t] THEN 1 ELSE 0
             z == [q EXCEPT !.inh = i]
  <1>1. r \in Locals /\ r.m = at[t].m
    BY StillWaitsIs DEF Block, Runs
  <1> HIDE DEF r
  <1>2. /\ q \in Locals /\ q.pc = "resume" /\ q.then = "try" /\ q.force = 1
        /\ q.m = at[t].m /\ q.left = r.left /\ q.entry = r.entry
    BY <1>1, 1 \in 0 .. 1, SuspendedIs
  <1>3. at' = [at EXCEPT ![t] = z]
    BY DEF Block, Inherit, r
  <1> HIDE DEF q
  <1>4. i \in 0 .. 1
    OBVIOUS
  <1>5. z \in Locals
    BY <1>2, <1>4, FieldSet
  <1> HIDE DEF i
  <1>6. /\ z.pc = q.pc /\ z.then = q.then /\ z.force = q.force /\ z.m = q.m
        /\ z.left = q.left /\ z.entry = q.entry /\ z.inh = i
    BY <1>2 DEF Locals
  <1> HIDE DEF z
  <1>7. Others(t) /\ at'[t] = z
    BY <1>3, <1>5, Moved
  <1>8. QED
    BY <1>2, <1>6, <1>7 DEF i, r

LEMMA DoNotBlockAt ==
  ASSUME Types, NEW t \in Tasks, Place(t), DoNotBlock(t)
  PROVE  /\ Others(t)
         /\ at'[t].pc = "resume" /\ at'[t].force = 0
         /\ at'[t].m = at[t].m /\ at'[t].inh = at[t].inh
         /\ \/ /\ ~TimedOut(t) /\ owner[at[t].m] = NoTask /\ at'[t].then = "try"
               /\ at'[t].left = StillWaits(t).left /\ at'[t].entry = StillWaits(t).entry
            \/ TimedOut(t) /\ at'[t].then = "expired" /\ at'[t].left = 0
  <1>0. 0 \in 0 .. 1 /\ at[t].pc = "check"
    BY DEF DoNotBlock, Runs
  <1>1. CASE /\ ~TimedOut(t) /\ owner[at[t].m] = NoTask
             /\ at' = [at EXCEPT ![t] = Suspended(StillWaits(t), "try", 0)]
    <2> DEFINE r == StillWaits(t)
    <2>1. r \in Locals /\ r.m = at[t].m /\ r.inh = at[t].inh
      BY <1>0, <1>1, StillWaitsIs
    <2> HIDE DEF r
    <2>2. /\ Suspended(r, "try", 0) \in Locals
          /\ Suspended(r, "try", 0).pc = "resume" /\ Suspended(r, "try", 0).then = "try"
          /\ Suspended(r, "try", 0).force = 0 /\ Suspended(r, "try", 0).m = r.m
          /\ Suspended(r, "try", 0).left = r.left /\ Suspended(r, "try", 0).entry = r.entry
          /\ Suspended(r, "try", 0).inh = r.inh
      BY <1>0, <2>1, SuspendedIs
    <2>3. Others(t) /\ at'[t] = Suspended(r, "try", 0)
      BY <1>1, <2>2, Moved DEF r
    <2>4. QED
      BY <1>1, <2>1, <2>2, <2>3 DEF r
  <1>2. CASE /\ TimedOut(t)
             /\ at' = [at EXCEPT ![t] = [Suspended(@, "expired", 0) EXCEPT !.left = 0]]
    <2> DEFINE q == Suspended(at[t], "expired", 0)
               z == [q EXCEPT !.left = 0]
    <2>1. at[t] \in Locals
      BY DEF Types
    <2>2. /\ q \in Locals /\ q.pc = "resume" /\ q.then = "expired" /\ q.force = 0
          /\ q.m = at[t].m /\ q.inh = at[t].inh
      BY <1>0, <2>1, SuspendedIs
    <2>3. at' = [at EXCEPT ![t] = z]
      BY <1>2 DEF Types
    <2> HIDE DEF q
    <2>4. \A n \in 0 .. Forever : [q EXCEPT !.left = n] \in Locals
      BY <2>2, FieldSet
    <2>5. z \in Locals
      BY <2>4, Constants
    <2>6. /\ z.pc = q.pc /\ z.then = q.then /\ z.force = q.force /\ z.m = q.m
          /\ z.left = 0 /\ z.inh = q.inh
      BY <2>2 DEF Locals
    <2> HIDE DEF z
    <2>7. Others(t) /\ at'[t] = z
      BY <2>3, <2>5, Moved
    <2>8. QED
      BY <1>2, <2>2, <2>6, <2>7
  <1>3. QED
    BY <1>1, <1>2 DEF DoNotBlock

-----------------------------------------------------------------------------
(* The shape of the state, action by action.                               *)

LEMMA PlaceKept ==
  ASSUME NEW u, Place(u), at'[u] = at[u]
  PROVE  Place(u)'
  BY DEF Place, Sections

LEMMA BlockedKept ==
  ASSUME NEW u, Blocked(u), at'[u] = at[u],
         \/ list'[u] = list[u]
         \/ list'[u] = "ready" /\ \A m \in Mutexes : u \notin waiters'[m]
         \/ /\ list'[u] # "ready" /\ list[u] # "ready"
            /\ list'[u] = "suspended" <=> list[u] = "suspended",
         \A m \in Mutexes : u \in waiters'[m] => u \in waiters[m],
         state'[u] = "waiting" => state[u] = "waiting",
         u \in readied' => state'[u] = "received" /\ at[u].pc = "received"
  PROVE  Blocked(u)'
  BY DEF Blocked, PastTake, PastWait, Sections

LEMMA ListsKept ==
  ASSUME Lists, UNCHANGED <<waiters, ahead>>
  PROVE  Lists'
  BY DEF Lists, Ordered, Waiting

(* Who runs is ready, but on its way to a context switch. *)
LEMMA Runner ==
  ASSUME Shape, NEW t \in Tasks, NEW pc, Runs(t, pc), pc \notin Sections
  PROVE  /\ t = cur /\ pendsv = 0 /\ susp = 0 /\ pended = 0 /\ readied = {}
         /\ list[t] = "ready" /\ \A m \in Mutexes : t \notin waiters[m]
         /\ \A u \in Tasks : at[u].pc \notin {"resume", "catchUp"}
  BY DEF Shape, Section, Types, Runs, Sections, Blocked

LEMMA CallTakeShape ==
  ASSUME Shape, NEW t \in Tasks \ {Idle}, NEW m \in Mutexes, NEW ticks \in 0 .. Forever,
         CallTake(t, m, ticks)
  PROVE  Shape'
  <1>1. /\ t = cur /\ pendsv = 0 /\ susp = 0 /\ pended = 0 /\ readied = {}
        /\ list[t] = "ready" /\ \A n \in Mutexes : t \notin waiters[n]
        /\ \A u \in Tasks : at[u].pc \notin {"resume", "catchUp"}
    BY Runner DEF CallTake, Sections
  <1>2. /\ Others(t)
        /\ at'[t].pc = "try" /\ at'[t].m = m /\ at'[t].then = "run"
    BY CallTakeAt DEF Shape
  <1>u. UNCHANGED <<lists, pended, readied, sched, prio, owner, state, prev, due>>
    BY DEF CallTake
  <1>3. Types'
    BY <1>2, <1>u DEF Shape, Types, Others, lists, sched
  <1>4. Section'
    BY <1>1, <1>2, <1>u, Constants DEF Shape, Section, Others, lists, sched
  <1>5. Lists'
    BY <1>u, ListsKept DEF Shape, lists
  <1>6. ASSUME NEW u \in Tasks PROVE Place(u)' /\ Blocked(u)'
    <2>1. CASE u # t
      BY <1>2, <1>u, <2>1, PlaceKept, BlockedKept DEF Shape, Others, lists, Blocked
    <2>2. CASE u = t
      BY <1>1, <1>2, <1>u, <2>2, Constants DEF Shape, Place, Blocked, Sections, lists, Runs, CallTake
    <2>3. QED
      BY <2>1, <2>2
  <1>7. QED
    BY <1>3, <1>4, <1>5, <1>6 DEF Shape

(* The operation of the task that runs is over. *)
LEMMA ReturnShape ==
  ASSUME Shape, NEW t \in Tasks, NEW pc, Runs(t, pc), pc \notin Sections,
         Others(t), at'[t] = Running, prio' \in [Tasks -> Range(Base)],
         owner' \in [Mutexes -> Tasks \cup {NoTask}], due' \in [Tasks -> Int],
         state' \in [Tasks -> {"none", "waiting", "received"}],
         \A u \in Tasks : state'[u] = state[u] \/ (u = t /\ state'[t] = "none"),
         state[t] = "waiting" => state'[t] = "none",
         UNCHANGED <<lists, pended, readied, sched, prev>>
  PROVE  Shape'
  <1>1. /\ t = cur /\ pendsv = 0 /\ susp = 0 /\ pended = 0 /\ readied = {}
        /\ list[t] = "ready" /\ \A n \in Mutexes : t \notin waiters[n]
        /\ \A u \in Tasks : at[u].pc \notin {"resume", "catchUp"}
    BY Runner
  <1>2. /\ at'[t].pc = "run" /\ at'[t].m = 0 /\ at'[t].then = "run"
    BY DEF Running
  <1>3. Types'
    BY DEF Shape, Types, Others, lists, sched
  <1>4. Section'
    BY <1>1, <1>2, Constants DEF Shape, Section, Others, lists, sched
  <1>5. Lists'
    BY ListsKept DEF Shape, lists
  <1>6. ASSUME NEW u \in Tasks PROVE Place(u)' /\ Blocked(u)'
    <2>1. CASE u # t
      BY <1>1, <2>1, PlaceKept, BlockedKept DEF Shape, Others, lists, Blocked
    <2>2. CASE u = t
      BY <1>1, <1>2, <2>2 DEF Shape, Place, Blocked, Sections, lists
    <2>3. QED
      BY <2>1, <2>2
  <1>7. QED
    BY <1>3, <1>4, <1>5, <1>6 DEF Shape

LEMMA ReturnDue ==
  ASSUME Types, NEW t \in Tasks, Return(t)
  PROVE  Others(t) /\ at'[t] = Running /\ due' \in [Tasks -> Int]
  <1>1. Others(t) /\ at'[t] = Running
    BY ReturnAt DEF Return
  <1>2. due' \in [Tasks -> Int]
    BY Constants DEF Return, Types
  <1>3. QED
    BY <1>1, <1>2

LEMMA WokeShape ==
  ASSUME Shape, NEW t \in Tasks, Woke(t)
  PROVE  Shape'
  <1>1. Others(t) /\ at'[t] = Running /\ due' \in [Tasks -> Int]
    BY ReturnDue DEF Woke, Shape
  <1>2. Runs(t, "woke") /\ "woke" \notin Sections
    BY DEF Woke, Sections
  <1>3. state[t] # "waiting"
    BY <1>2 DEF Shape, Blocked, Runs
  <1>4. QED
    BY <1>1, <1>2, <1>3, ReturnShape DEF Woke, Shape, Types

LEMMA NotifyReceivedShape ==
  ASSUME Shape, NEW t \in Tasks, NotifyReceived(t)
  PROVE  Shape'
  <1>1. Others(t) /\ at'[t] = Running /\ due' \in [Tasks -> Int]
    BY ReturnDue DEF NotifyReceived, Shape
  <1>2. Runs(t, "received") /\ "received" \notin Sections
    BY DEF NotifyReceived, Sections
  <1>3. /\ state' \in [Tasks -> {"none", "waiting", "received"}]
        /\ \A u \in Tasks : state'[u] = state[u] \/ (u = t /\ state'[t] = "none")
        /\ state'[t] = "none"
    BY DEF NotifyReceived, Shape, Types
  <1>4. QED
    BY <1>1, <1>2, <1>3, ReturnShape DEF NotifyReceived, Shape, Types

LEMMA TryShape ==
  ASSUME Shape, NEW t \in Tasks, Try(t)
  PROVE  Shape'
  <1>r. Runs(t, "try") /\ "try" \notin Sections
    BY DEF Try, Sections
  <1>1. /\ t = cur /\ pendsv = 0 /\ susp = 0 /\ pended = 0 /\ readied = {}
        /\ list[t] = "ready" /\ \A n \in Mutexes : t \notin waiters[n]
        /\ \A u \in Tasks : at[u].pc \notin {"resume", "catchUp"}
    BY <1>r, Runner
  <1>u. UNCHANGED <<lists, pended, readied, sched, prio, state, prev>>
    BY DEF Try
  <1>2. /\ at[t] \in Locals /\ at[t].m # 0 /\ at[t].then = "run" /\ at[t].m \in Mutexes
        /\ state[t] # "waiting"
    <2>1. at[t] \in Locals
      BY DEF Shape, Types
    <2>2. QED
      BY <1>r, <2>1 DEF Shape, Place, Runs, Locals, Sections, Blocked
  <1>3. CASE \/ owner[at[t].m] = NoTask /\ owner' = [owner EXCEPT ![at[t].m] = t]
                /\ Return(t)
             \/ Return(t) /\ UNCHANGED owner
    <2>1. Others(t) /\ at'[t] = Running /\ due' \in [Tasks -> Int]
      BY <1>3, ReturnDue DEF Shape
    <2>2. owner' \in [Mutexes -> Tasks \cup {NoTask}]
      BY <1>3 DEF Shape, Types
    <2>3. QED
      BY <1>r, <1>u, <1>2, <2>1, <2>2, ReturnShape DEF Shape, Types
  <1>4. CASE /\ owner[at[t].m] # NoTask /\ at[t].left > 0
             /\ at' = [at EXCEPT ![t].pc = "check",
                         ![t].entry = IF @ = <<>> THEN <<time.overflows, time.tick>> ELSE @]
             /\ due' = IF at[t].entry = <<>> /\ at[t].left < Forever
                         THEN [due EXCEPT ![t] = at[t].left] ELSE due
             /\ UNCHANGED owner
    <2>1. /\ Others(t) /\ at'[t].pc = "check" /\ at'[t].m = at[t].m
          /\ at'[t].left = at[t].left /\ at'[t].then = at[t].then
          /\ at'[t].entry # <<>>
      <3>1. at'[t].pc = "check"
        BY <1>2, <1>4 DEF Shape, Types
      <3>2. Running.pc # "check"
        BY DEF Running
      <3>3. at'[t] # Running
        BY <3>1, <3>2
      <3>4. <<time.overflows, time.tick>> # <<>>
        OBVIOUS
      <3>5. at'[t].entry = IF at[t].entry = <<>> THEN <<time.overflows, time.tick>>
                           ELSE at[t].entry
        BY <3>3, TryAt DEF Shape
      <3>6. at'[t].entry # <<>>
        BY <3>4, <3>5
      <3>7. QED
        BY <3>3, <3>6, TryAt DEF Shape
    <2>2. due' \in [Tasks -> Int]
      <3>1. at[t].left \in Int /\ due \in [Tasks -> Int]
        BY <1>2, Constants DEF Shape, Types, Locals
      <3>2. QED
        BY <1>4, <3>1
    <2>3. Types'
      BY <1>u, <1>4, <2>1, <2>2 DEF Shape, Types, Others, lists, sched
    <2>4. t # Idle
      BY <1>r DEF Shape, Section, Runs
    <2>5. Section'
      BY <1>1, <1>u, <2>1, <2>4, Constants DEF Shape, Section, Others, lists, sched
    <2>6. Lists'
      BY <1>u, ListsKept DEF Shape, lists
    <2>7. ASSUME NEW u \in Tasks PROVE Place(u)' /\ Blocked(u)'
      <3>1. CASE u # t
        BY <1>u, <2>1, <3>1, PlaceKept, BlockedKept DEF Shape, Others, lists, Blocked
      <3>2. CASE u = t
        BY <1>1, <1>2, <1>4, <1>u, <2>1, <3>2 DEF Place, Blocked, Sections, lists
      <3>3. QED
        BY <3>1, <3>2
    <2>8. QED
      BY <2>3, <2>5, <2>6, <2>7 DEF Shape
  <1>5. QED
    BY <1>3, <1>4 DEF Try

(* Steps of the running task that only move the program counter. *)
LEMMA GotoShape ==
  ASSUME Shape, NEW t \in Tasks, NEW pc, NEW to \in {"try", "disinherit"}, Runs(t, pc),
         pc \in {"expired"}, Goto(t, to),
         UNCHANGED <<lists, pended, readied, sched, prio, owner, state, prev, due>>
  PROVE  Shape'
  <1>1. /\ t = cur /\ pendsv = 0 /\ susp = 0 /\ pended = 0 /\ readied = {}
        /\ list[t] = "ready" /\ \A n \in Mutexes : t \notin waiters[n]
        /\ \A u \in Tasks : at[u].pc \notin {"resume", "catchUp"}
    BY Runner DEF Sections
  <1>2. /\ Others(t) /\ at'[t].pc = to /\ at'[t].m = at[t].m /\ at'[t].then = at[t].then
    BY GotoAt DEF Shape, Places
  <1>3. at[t].m # 0 /\ at[t].then = "run" /\ state[t] # "waiting" /\ t # Idle
    BY DEF Shape, Place, Runs, Sections, Section, Blocked
  <1>4. Types'
    BY <1>2 DEF Shape, Types, Others, lists, sched
  <1>5. Section'
    BY <1>1, <1>2, <1>3, Constants DEF Shape, Section, Others, lists, sched
  <1>6. Lists'
    BY ListsKept DEF Shape, lists
  <1>7. ASSUME NEW u \in Tasks PROVE Place(u)' /\ Blocked(u)'
    <2>1. CASE u # t
      BY <1>2, <2>1, PlaceKept, BlockedKept DEF Shape, Others, lists, Blocked
    <2>2. CASE u = t
      BY <1>1, <1>2, <1>3, <2>2 DEF Place, Blocked, Sections, lists
    <2>3. QED
      BY <2>1, <2>2
  <1>8. QED
    BY <1>4, <1>5, <1>6, <1>7 DEF Shape

LEMMA ExpiredShape ==
  ASSUME Shape, NEW t \in Tasks, Expired(t)
  PROVE  Shape'
  <1>r. Runs(t, "expired") /\ "expired" \notin Sections
    BY DEF Expired, Sections
  <1>1. CASE (Goto(t, "try") \/ Goto(t, "disinherit")) /\ UNCHANGED due
    BY <1>1, <1>r, GotoShape DEF Expired
  <1>2. CASE Return(t)
    <2>1. Others(t) /\ at'[t] = Running /\ due' \in [Tasks -> Int]
      BY <1>2, ReturnDue DEF Shape
    <2>2. state[t] # "waiting"
      BY <1>r DEF Shape, Blocked, Runs
    <2>3. QED
      BY <1>r, <2>1, <2>2, ReturnShape DEF Expired, Shape, Types
  <1>3. QED
    BY <1>1, <1>2 DEF Expired

(* vTaskPriorityDisinheritAfterTimeout gives the holder its own priority or the
   one of the first task that still waits. *)
LEMMA DisinheritIs ==
  ASSUME Types, NEW t \in Tasks, NEW m \in Mutexes, DisinheritAfterTimeout(t, m)
  PROVE  \/ prio' = prio
         \/ /\ owner[m] \in Tasks
            /\ at[t].inh = 1 /\ Cardinality(Held(owner[m])) = 1
            /\ \E p \in Range(Base) :
                 /\ prio' = [prio EXCEPT ![owner[m]] = p] /\ p >= Base[owner[m]]
                 /\ \/ waiters[m] = {} /\ p = Base[owner[m]]
                    \/ \E u \in First(m) : /\ p >= prio[u]
                                           /\ p = Base[owner[m]] \/ p = prio[u]
  <1> DEFINE h == owner[m]
  <1>1. CASE at[t].inh = 1 /\ h # NoTask /\ Cardinality(Held(h)) = 1
    <2>1. h \in Tasks /\ Base[h] \in Nat /\ Base[h] \in Range(Base)
      BY <1>1, Constants DEF Types
    <2>2. PICK p \in IF waiters[m] = {} THEN {0} ELSE {prio[u] : u \in First(m)} :
            prio' = [prio EXCEPT ![h] = Highest(Base[h], p)]
      BY <1>1 DEF DisinheritAfterTimeout
    <2>3. CASE waiters[m] = {}
      <3>1. Highest(Base[h], 0) = Base[h]
        BY <2>1 DEF Highest
      <3>2. prio' = [prio EXCEPT ![h] = Base[h]]
        BY <2>2, <2>3, <3>1
      <3>3. Base[h] >= Base[h]
        BY <2>1
      <3>4. QED
        BY <1>1, <2>1, <2>3, <3>2, <3>3
    <2>4. CASE waiters[m] # {}
      <3>1. PICK u \in First(m) : p = prio[u]
        BY <2>2, <2>4
      <3>2. prio[u] \in Range(Base) /\ prio[u] \in Nat
        BY <3>1, Constants DEF First, Types
      <3> DEFINE q == Highest(Base[h], p)
      <3>3. /\ q \in Range(Base) /\ q >= Base[h] /\ q >= prio[u]
            /\ q = Base[h] \/ q = prio[u]
        BY <2>1, <3>1, <3>2 DEF Highest
      <3> HIDE DEF q
      <3>4. prio' = [prio EXCEPT ![h] = q]
        BY <2>2 DEF q
      <3>5. QED
        BY <1>1, <2>1, <3>1, <3>3, <3>4
    <2>5. QED
      BY <2>3, <2>4
  <1>2. CASE ~(at[t].inh = 1 /\ h # NoTask /\ Cardinality(Held(h)) = 1)
    BY <1>2 DEF DisinheritAfterTimeout
  <1>3. QED
    BY <1>1, <1>2

LEMMA DisinheritShape ==
  ASSUME Shape, NEW t \in Tasks, Disinherit(t)
  PROVE  Shape'
  <1>r. Runs(t, "disinherit") /\ "disinherit" \notin Sections
    BY DEF Disinherit, Sections
  <1>1. Others(t) /\ at'[t] = Running /\ due' \in [Tasks -> Int]
    BY ReturnDue DEF Disinherit, Shape
  <1>2. state[t] # "waiting" /\ at[t].m \in Mutexes
    <2>1. at[t] \in Locals
      BY DEF Shape, Types
    <2>2. QED
      BY <1>r, <2>1 DEF Shape, Blocked, Runs, Place, Locals
  <1>3. prio' \in [Tasks -> Range(Base)]
    BY <1>2, DisinheritIs DEF Disinherit, Shape, Types
  <1>4. QED
    BY <1>r, <1>1, <1>2, <1>3, ReturnShape DEF Disinherit, Shape, Types

(* vTaskPlaceOnEventList: the list of the mutex stays in order. *)
LEMMA InsertOrdered ==
  ASSUME Lists, waiters \in [Mutexes -> SUBSET Tasks], NEW t \in Tasks, ~Waiting(t),
         NEW m \in Mutexes, Insert(m, t), ahead \subseteq Tasks \X Tasks
  PROVE  /\ Lists' /\ waiters' \in [Mutexes -> SUBSET Tasks] /\ ahead' \subseteq Tasks \X Tasks
         /\ waiters'[m] = waiters[m] \cup {t}
         /\ \A n \in Mutexes \ {m} : waiters'[n] = waiters[n]
         /\ \A u, v \in Tasks : <<u, v>> \in ahead' <=>
              \/ <<u, v>> \in ahead
              \/ u \in Passed(m, t) /\ v = t
              \/ u = t /\ v \in waiters[m] \ Passed(m, t)
  <1>1. /\ waiters'[m] = waiters[m] \cup {t}
        /\ \A n \in Mutexes \ {m} : waiters'[n] = waiters[n]
        /\ waiters' \in [Mutexes -> SUBSET Tasks]
    BY DEF Insert
  <1>2. Passed(m, t) \subseteq waiters[m] /\ waiters[m] \subseteq Tasks
    BY DEF Passed
  <1>3. \A u, v : <<u, v>> \in ahead' <=>
              \/ <<u, v>> \in ahead
              \/ u \in Passed(m, t) /\ v = t
              \/ u = t /\ v \in waiters[m] \ Passed(m, t)
    BY DEF Insert
  <1>4. ahead' \subseteq Tasks \X Tasks
    BY <1>2 DEF Insert
  <1>5. \A u \in Tasks : <<u, t>> \notin ahead /\ <<t, u>> \notin ahead
    BY DEF Lists
  <1>6. \A u \in Tasks : Waiting(u) => Waiting(u)'
    BY <1>1 DEF Waiting
  <1>7. Waiting(t)' /\ t \notin waiters[m]
    BY <1>1 DEF Waiting
  <1>8. \A u, v \in Tasks : <<u, v>> \in ahead' => Waiting(u)' /\ Waiting(v)'
    BY <1>2, <1>3, <1>6, <1>7 DEF Lists, Waiting
  <1>9. ASSUME NEW u \in waiters[m], NEW v \in waiters[m], <<u, v>> \in ahead,
               v \in Passed(m, t)
        PROVE  u \in Passed(m, t)
    <2>1. \A x \in waiters[m] : <<x, u>> \in ahead => <<x, v>> \in ahead
      BY <1>9, <1>2 DEF Lists, Ordered
    <2>2. QED
      BY <1>9, <2>1 DEF Passed
  <1>10. Ordered(waiters[m])'
    <2> DEFINE W == waiters[m]
               P == Passed(m, t)
    <2>0. /\ \A u, v \in W : <<u, v>> \in ahead => <<v, u>> \notin ahead
          /\ \A u, v \in W : u = v \/ <<u, v>> \in ahead \/ <<v, u>> \in ahead
          /\ \A u, v, w \in W : <<u, v>> \in ahead /\ <<v, w>> \in ahead => <<u, w>> \in ahead
      BY DEF Lists, Ordered
    <2> HIDE DEF W, P
    <2>1. ASSUME NEW u \in W, NEW v \in W PROVE <<u, v>> \in ahead' <=> <<u, v>> \in ahead
      <3>1. u # t /\ v # t
        BY <1>7 DEF W
      <3>2. QED
        BY <1>3, <3>1
    <2>2. \A u \in W : (<<u, t>> \in ahead' <=> u \in P) /\ (<<t, u>> \in ahead' <=> u \notin P)
      BY <1>2, <1>3, <1>5, <1>7 DEF W, P
    <2>3. <<t, t>> \notin ahead'
      BY <1>2, <1>3, <1>5, <1>7
    <2>4. \A u, v \in W : <<u, v>> \in ahead /\ v \in P => u \in P
      BY <1>9 DEF W, P
    <2>5. waiters'[m] = W \cup {t}
      BY <1>1 DEF W
    <2>6. \A u, v \in W \cup {t} : <<u, v>> \in ahead' => <<v, u>> \notin ahead'
      BY <2>0, <2>1, <2>2, <2>3
    <2>7. \A u, v \in W \cup {t} : u = v \/ <<u, v>> \in ahead' \/ <<v, u>> \in ahead'
      BY <2>0, <2>1, <2>2, <2>3
    <2>8. ASSUME NEW u \in W \cup {t}, NEW v \in W \cup {t}, NEW w \in W \cup {t},
                 <<u, v>> \in ahead', <<v, w>> \in ahead'
          PROVE  <<u, w>> \in ahead'
      <3>1. CASE u \in W /\ v \in W /\ w \in W
        BY <2>0, <2>1, <2>8, <3>1
      <3>2. CASE u \in W /\ v \in W /\ w = t
        BY <2>1, <2>2, <2>4, <2>8, <3>2
      <3>3. CASE u \in W /\ v = t /\ w \in W
        <4>1. u \in P /\ w \notin P
          BY <2>2, <2>8, <3>3
        <4>2. <<u, w>> \in ahead
          BY <2>0, <2>4, <3>3, <4>1
        <4>3. QED
          BY <2>1, <3>3, <4>2
      <3>4. CASE u = t /\ v \in W /\ w \in W
        BY <2>1, <2>2, <2>4, <2>8, <3>4
      <3>5. CASE u = t /\ w = t
        BY <2>2, <2>3, <2>8, <3>5
      <3>6. QED
        BY <2>3, <2>8, <3>1, <3>2, <3>3, <3>4, <3>5
    <2>9. QED
      BY <2>5, <2>6, <2>7, <2>8 DEF Ordered
  <1>11. ASSUME NEW n \in Mutexes, n # m PROVE Ordered(waiters[n])'
    <2>1. waiters'[n] = waiters[n] /\ t \notin waiters[n] /\ waiters[n] \subseteq Tasks
      BY <1>1, <1>11 DEF Waiting
    <2>2. \A u, v \in waiters[n] : <<u, v>> \in ahead' <=> <<u, v>> \in ahead
      BY <1>3, <2>1
    <2>3. Ordered(waiters[n])
      BY DEF Lists
    <2>4. QED
      BY <2>1, <2>2, <2>3 DEF Ordered
  <1>12. Lists'
    BY <1>8, <1>10, <1>11 DEF Lists
  <1>13. QED
    BY <1>1, <1>3, <1>4, <1>12

LEMMA LeaveOrdered ==
  ASSUME Lists, waiters \in [Mutexes -> SUBSET Tasks], NEW out, LeaveEvents(out),
         ahead \subseteq Tasks \X Tasks
  PROVE  /\ Lists' /\ waiters' \in [Mutexes -> SUBSET Tasks] /\ ahead' \subseteq Tasks \X Tasks
         /\ \A n \in Mutexes : waiters'[n] = waiters[n] \ out
         /\ ahead' \subseteq ahead
         /\ \A u, v \in Tasks : <<u, v>> \in ahead' <=>
              <<u, v>> \in ahead /\ u \notin out /\ v \notin out
  <1>1. /\ \A n \in Mutexes : waiters'[n] = waiters[n] \ out
        /\ waiters' \in [Mutexes -> SUBSET Tasks]
    BY DEF LeaveEvents
  <1>2. \A u, v \in Tasks : <<u, v>> \in ahead' <=>
              <<u, v>> \in ahead /\ u \notin out /\ v \notin out
    BY DEF LeaveEvents
  <1>3. ahead' \subseteq ahead /\ ahead' \subseteq Tasks \X Tasks
    BY DEF LeaveEvents
  <1>4. ASSUME NEW n \in Mutexes PROVE Ordered(waiters[n])'
    <2>1. Ordered(waiters[n])
      BY DEF Lists
    <2>2. /\ waiters'[n] \subseteq waiters[n] /\ waiters[n] \subseteq Tasks
          /\ \A u, v \in waiters'[n] : <<u, v>> \in ahead' <=> <<u, v>> \in ahead
      BY <1>1, <1>2
    <2>3. QED
      BY <2>1, <2>2 DEF Ordered
  <1>5. \A u, v \in Tasks : <<u, v>> \in ahead' => Waiting(u)' /\ Waiting(v)'
    BY <1>1, <1>2 DEF Lists, Waiting
  <1>6. QED
    BY <1>1, <1>2, <1>3, <1>4, <1>5 DEF Lists

-----------------------------------------------------------------------------
(* The delayed lists.                                                      *)

(* The time to wake, with one overflow at most. *)
LEMMA WakeIs ==
  ASSUME time.tick \in 0 .. Forever, NEW n \in 0 .. Forever
  PROVE  /\ (time.tick + n) % Width \in 0 .. Forever
         /\ (time.tick + n) % Width = IF time.tick + n < Width THEN time.tick + n
                                      ELSE time.tick + n - Width
         /\ (time.tick + n) % Width < time.tick <=> time.tick + n >= Width
  <1> DEFINE x == time.tick + n
  <1>1. x \in 0 .. 2 * Width - 1 /\ Width \in Nat /\ Width > 0
    BY Constants
  <1> HIDE DEF x
  <1>2. x % Width = IF x < Width THEN x ELSE x - Width
    BY <1>1, OneWrap
  <1>3. QED
    BY <1>1, <1>2, Constants DEF x

LEMMA AddToDelayedIs ==
  ASSUME Types, NEW t \in Tasks, NEW n \in 0 .. Forever, AddToDelayed(t, n)
  PROVE  /\ time' \in [tick : 0 .. Forever, overflows : 0 .. 1, next : 0 .. Forever]
         /\ list' \in [Tasks -> {"ready", "delayed", "overflow", "suspended"}]
         /\ wakeAt' \in [Tasks -> 0 .. Forever]
         /\ \A u \in Tasks : u # t => list'[u] = list[u] /\ wakeAt'[u] = wakeAt[u]
         /\ time'.tick = time.tick /\ time'.overflows = time.overflows
         /\ time'.next <= time.next
         /\ IF time.tick + n < Width
              THEN list'[t] = "delayed" /\ wakeAt'[t] = time.tick + n
                   /\ time'.next <= wakeAt'[t]
              ELSE list'[t] = "overflow" /\ wakeAt'[t] = time.tick + n - Width
  <1> DEFINE wake == (time.tick + n) % Width
  <1>1. time.tick \in 0 .. Forever /\ time.next \in 0 .. Forever /\ time.overflows \in 0 .. 1
    BY DEF Types
  <1>2. /\ wake \in 0 .. Forever
        /\ wake = IF time.tick + n < Width THEN time.tick + n ELSE time.tick + n - Width
        /\ wake < time.tick <=> time.tick + n >= Width
    BY <1>1, WakeIs
  <1>3. /\ wakeAt' = [wakeAt EXCEPT ![t] = wake]
        /\ list' = [list EXCEPT ![t] = IF wake < time.tick THEN "overflow" ELSE "delayed"]
        /\ time' = IF wake >= time.tick /\ wake < time.next
                     THEN [time EXCEPT !.next = wake] ELSE time
    BY DEF AddToDelayed
  <1> HIDE DEF wake
  <1>4. /\ wakeAt' \in [Tasks -> 0 .. Forever] /\ wakeAt'[t] = wake
        /\ \A u \in Tasks : u # t => wakeAt'[u] = wakeAt[u]
    BY <1>2, <1>3 DEF Types
  <1>5. /\ list' \in [Tasks -> {"ready", "delayed", "overflow", "suspended"}]
        /\ list'[t] = IF wake < time.tick THEN "overflow" ELSE "delayed"
        /\ \A u \in Tasks : u # t => list'[u] = list[u]
    BY <1>3 DEF Types
  <1>6. CASE wake >= time.tick /\ wake < time.next
    <2>1. time' = [time EXCEPT !.next = wake]
      BY <1>3, <1>6
    <2>2. /\ time' \in [tick : 0 .. Forever, overflows : 0 .. 1, next : 0 .. Forever]
          /\ time'.tick = time.tick /\ time'.overflows = time.overflows /\ time'.next = wake
      BY <1>2, <2>1 DEF Types
    <2>3. QED
      BY <1>1, <1>2, <1>4, <1>5, <1>6, <2>2, Constants
  <1>7. CASE ~(wake >= time.tick /\ wake < time.next)
    <2>1. time' = time
      BY <1>3, <1>7
    <2>2. time' \in [tick : 0 .. Forever, overflows : 0 .. 1, next : 0 .. Forever]
      BY <2>1 DEF Types
    <2>3. QED
      BY <1>1, <1>2, <1>4, <1>5, <1>7, <2>1, <2>2, Constants
  <1>8. QED
    BY <1>6, <1>7

LEMMA AddOrSuspendIs ==
  ASSUME Types, NEW t \in Tasks, NEW n \in 0 .. Forever, AddOrSuspend(t, n)
  PROVE  /\ time' \in [tick : 0 .. Forever, overflows : 0 .. 1, next : 0 .. Forever]
         /\ list' \in [Tasks -> {"ready", "delayed", "overflow", "suspended"}]
         /\ wakeAt' \in [Tasks -> 0 .. Forever]
         /\ \A u \in Tasks : u # t => list'[u] = list[u] /\ wakeAt'[u] = wakeAt[u]
         /\ time'.tick = time.tick /\ time'.overflows = time.overflows
         /\ time'.next <= time.next
         /\ n = Forever => list'[t] = "suspended"
         /\ n # Forever =>
              IF time.tick + n < Width
                THEN list'[t] = "delayed" /\ wakeAt'[t] = time.tick + n
                     /\ time'.next <= wakeAt'[t]
                ELSE list'[t] = "overflow" /\ wakeAt'[t] = time.tick + n - Width
  <1>1. CASE n = Forever
    <2>1. list' = [list EXCEPT ![t] = "suspended"] /\ UNCHANGED <<time, wakeAt>>
      BY <1>1 DEF AddOrSuspend
    <2>2. time.next \in Int
      BY Constants DEF Types
    <2>3. QED
      BY <1>1, <2>1, <2>2 DEF Types
  <1>2. CASE n # Forever
    BY <1>2, AddToDelayedIs DEF AddOrSuspend
  <1>3. QED
    BY <1>1, <1>2

(* xTaskIncrementTick keeps the types of the lists, wakes tasks that sleep and
   takes them out of the lists of the mutexes. *)
LEMMA IncrementTickIs ==
  ASSUME Types, Lists, IncrementTick
  PROVE  /\ time' \in [tick : 0 .. Forever, overflows : 0 .. 1, next : 0 .. Forever]
         /\ time'.tick = Now
         /\ time'.overflows = IF Now = 0 THEN 1 - time.overflows ELSE time.overflows
         /\ list' \in [Tasks -> {"ready", "delayed", "overflow", "suspended"}]
         /\ wakeAt' = wakeAt /\ Lists'
         /\ waiters' \in [Mutexes -> SUBSET Tasks] /\ ahead' \subseteq Tasks \X Tasks
         /\ ahead' \subseteq ahead
         /\ \A u, v \in Tasks : <<u, v>> \in ahead' => <<u, v>> \in ahead
         /\ \A m \in Mutexes : waiters'[m] = waiters[m] \ Over
         /\ \A t \in Tasks :
              /\ t \in Over => list'[t] = "ready" /\ list[t] \in {"delayed", "overflow"}
              /\ t \notin Over => list'[t] = Switched[t]
              /\ list[t] = "ready" => list'[t] = "ready"
              /\ list'[t] = "ready" => list[t] = "ready" \/ t \in Over
              /\ list'[t] = "suspended" <=> list[t] = "suspended"
  <1>1. Now \in 0 .. Forever
    BY NowIs DEF Types
  <1>2. /\ Switched \in [Tasks -> {"ready", "delayed", "overflow", "suspended"}]
        /\ \A t \in Tasks : /\ Switched[t] = "ready" <=> list[t] = "ready"
                            /\ Switched[t] = "suspended" <=> list[t] = "suspended"
                            /\ Switched[t] = "delayed" => list[t] \in {"delayed", "overflow"}
    BY DEF Switched, Types
  <1>3. Over \subseteq {t \in Tasks : Switched[t] = "delayed"}
    BY DEF Over
  <1>4. /\ list' = ListNow
        /\ ListNow \in [Tasks -> {"ready", "delayed", "overflow", "suspended"}]
    BY <1>2, <1>3 DEF IncrementTick, ListNow
  <1>5. \A t \in Tasks : ListNow[t] = IF t \in Over THEN "ready" ELSE Switched[t]
    BY DEF ListNow
  <1>6. /\ NextNow \in 0 .. Forever /\ NextUnblock(ListNow, wakeAt) \in 0 .. Forever
    <2>1. wakeAt \in [Tasks -> 0 .. Forever] /\ time.next \in 0 .. Forever
      BY DEF Types
    <2>2. QED
      BY <2>1, NextUnblockIs DEF NextNow
  <1>7. /\ time' = [tick |-> Now,
              overflows |-> IF Now = 0 THEN 1 - time.overflows ELSE time.overflows,
              next |-> IF Now < NextNow THEN NextNow ELSE NextUnblock(ListNow, wakeAt)]
        /\ wakeAt' = wakeAt /\ LeaveEvents(Over)
    BY DEF IncrementTick
  <1>8. time.overflows \in 0 .. 1 /\ 1 - time.overflows \in 0 .. 1
    BY DEF Types
  <1>9. /\ Lists' /\ waiters' \in [Mutexes -> SUBSET Tasks] /\ ahead' \subseteq Tasks \X Tasks
        /\ ahead' \subseteq ahead
        /\ \A n \in Mutexes : waiters'[n] = waiters[n] \ Over
        /\ \A u, v \in Tasks : <<u, v>> \in ahead' => <<u, v>> \in ahead
    BY <1>7, LeaveOrdered DEF Types
  <1>10. /\ time' \in [tick : 0 .. Forever, overflows : 0 .. 1, next : 0 .. Forever]
         /\ time'.tick = Now
         /\ time'.overflows = IF Now = 0 THEN 1 - time.overflows ELSE time.overflows
    BY <1>1, <1>6, <1>7, <1>8
  <1>11. \A t \in Tasks :
              /\ t \in Over => list'[t] = "ready" /\ list[t] \in {"delayed", "overflow"}
              /\ t \notin Over => list'[t] = Switched[t]
              /\ list[t] = "ready" => list'[t] = "ready"
              /\ list'[t] = "ready" => list[t] = "ready" \/ t \in Over
              /\ list'[t] = "suspended" <=> list[t] = "suspended"
    BY <1>2, <1>3, <1>4, <1>5
  <1>12. QED
    BY <1>4, <1>7, <1>9, <1>10, <1>11

-----------------------------------------------------------------------------

LEMMA BlockShape ==
  ASSUME Shape, NEW t \in Tasks, Block(t)
  PROVE  Shape'
  <1>r. Runs(t, "check") /\ "check" \notin Sections /\ ~TimedOut(t) /\ owner[at[t].m] # NoTask
    BY DEF Block, Sections
  <1>1. /\ t = cur /\ pendsv = 0 /\ susp = 0 /\ pended = 0 /\ readied = {}
        /\ list[t] = "ready" /\ \A n \in Mutexes : t \notin waiters[n]
        /\ \A u \in Tasks : at[u].pc \notin {"resume", "catchUp"}
    BY <1>r, Runner
  <1>u. /\ UNCHANGED <<pended, readied, yield, pendsv, cur, owner, state, prev, due>>
        /\ susp' = 1 /\ Insert(at[t].m, t) /\ AddOrSuspend(t, StillWaits(t).left)
    BY DEF Block
  <1>2. /\ at[t].m \in Mutexes /\ at[t].m # 0 /\ state[t] # "waiting" /\ t # Idle
        /\ Place(t) /\ at[t].pc = "check" /\ Types
    <2>1. at[t] \in Locals
      BY DEF Shape, Types
    <2>2. QED
      BY <1>r, <2>1 DEF Shape, Blocked, Runs, Place, Locals, Section
  <1> DEFINE r == StillWaits(t)
  <1>3. r.left \in 1 .. Forever
    BY <1>r, <1>2, StillWaitsIs
  <1>4. /\ Others(t)
        /\ at'[t].pc = "resume" /\ at'[t].then = "try" /\ at'[t].force = 1
        /\ at'[t].m = at[t].m /\ at'[t].left = r.left
    BY <1>2, BlockAt
  <1> HIDE DEF r
  <1>5. r.left \in 0 .. Forever /\ AddOrSuspend(t, r.left)
    BY <1>3, <1>u, Constants DEF r
  <1>6. /\ time' \in [tick : 0 .. Forever, overflows : 0 .. 1, next : 0 .. Forever]
        /\ list' \in [Tasks -> {"ready", "delayed", "overflow", "suspended"}]
        /\ wakeAt' \in [Tasks -> 0 .. Forever]
        /\ \A u \in Tasks : u # t => list'[u] = list[u]
        /\ list'[t] # "ready"
        /\ list'[t] # "suspended" => r.left # Forever
    BY <1>2, <1>5, AddOrSuspendIs
  <1>7. /\ Lists' /\ waiters' \in [Mutexes -> SUBSET Tasks] /\ ahead' \subseteq Tasks \X Tasks
        /\ waiters'[at[t].m] = waiters[at[t].m] \cup {t}
        /\ \A n \in Mutexes \ {at[t].m} : waiters'[n] = waiters[n]
    BY <1>1, <1>2, <1>u, InsertOrdered DEF Types, Shape, Waiting
  <1>8. prio' \in [Tasks -> Range(Base)]
    <2>1. owner[at[t].m] \in Tasks /\ prio[t] \in Range(Base)
      BY <1>r, <1>2 DEF Types
    <2>2. prio' = IF prio[owner[at[t].m]] < prio[t]
                    THEN [prio EXCEPT ![owner[at[t].m]] = prio[t]] ELSE prio
      BY DEF Block, Inherit
    <2>3. QED
      BY <1>2, <2>1, <2>2 DEF Types
  <1>9. Types'
    BY <1>2, <1>u, <1>4, <1>6, <1>7, <1>8 DEF Types, Others
  <1>10. Section'
    BY <1>1, <1>2, <1>4, <1>u, Constants DEF Shape, Section, Others
  <1>11. ASSUME NEW u \in Tasks PROVE Place(u)' /\ Blocked(u)'
    <2>1. CASE u # t
      <3>1. \A n \in Mutexes : u \in waiters'[n] => u \in waiters[n]
        BY <1>2, <1>7, <2>1
      <3>2. QED
        BY <1>u, <1>4, <1>6, <2>1, <3>1, PlaceKept, BlockedKept DEF Shape, Others, Blocked
    <2>2. CASE u = t
      <3>1. Place(t)'
        BY <1>2, <1>3, <1>4 DEF Place, Sections
      <3>2. \A n \in Mutexes : t \in waiters'[n] => n = at[t].m
        BY <1>1, <1>7
      <3>3. r.left > 0 /\ (r.left # Forever => r.left < Forever)
        BY <1>3, Constants
      <3>4. Blocked(t)'
        BY <1>1, <1>2, <1>4, <1>6, <1>u, <3>2, <3>3 DEF Blocked, PastTake, Sections
      <3>5. QED
        BY <2>2, <3>1, <3>4
    <2>3. QED
      BY <2>1, <2>2
  <1>12. QED
    BY <1>7, <1>9, <1>10, <1>11 DEF Shape

LEMMA DoNotBlockShape ==
  ASSUME Shape, NEW t \in Tasks, DoNotBlock(t)
  PROVE  Shape'
  <1>r. Runs(t, "check") /\ "check" \notin Sections
    BY DEF DoNotBlock, Sections
  <1>1. /\ t = cur /\ pendsv = 0 /\ susp = 0 /\ pended = 0 /\ readied = {}
        /\ list[t] = "ready" /\ \A n \in Mutexes : t \notin waiters[n]
        /\ \A u \in Tasks : at[u].pc \notin {"resume", "catchUp"}
    BY <1>r, Runner
  <1>u. /\ UNCHANGED <<lists, pended, readied, yield, pendsv, cur, prio, owner, state, prev, due>>
        /\ susp' = 1
    BY DEF DoNotBlock
  <1>2. at[t].m # 0 /\ state[t] # "waiting" /\ t # Idle /\ Place(t) /\ Types
    BY <1>r DEF Shape, Blocked, Runs, Place, Section
  <1>3. /\ Others(t) /\ at'[t].pc = "resume" /\ at'[t].m = at[t].m
        /\ at'[t].then \in {"try", "expired"} /\ (at'[t].then = "try" => at'[t].left > 0)
    <2>1. ~TimedOut(t) => StillWaits(t).left > 0
      BY <1>r, <1>2, StillWaitsIs, Constants DEF Runs
    <2>2. QED
      BY <1>2, <2>1, DoNotBlockAt
  <1>4. Types'
    BY <1>2, <1>3, <1>u DEF Types, Others, lists
  <1>5. Section'
    BY <1>1, <1>2, <1>3, <1>u, Constants DEF Shape, Section, Others, lists
  <1>6. Lists'
    BY <1>u, ListsKept DEF Shape, lists
  <1>7. ASSUME NEW u \in Tasks PROVE Place(u)' /\ Blocked(u)'
    <2>1. CASE u # t
      BY <1>3, <1>u, <2>1, PlaceKept, BlockedKept DEF Shape, Others, lists, Blocked
    <2>2. CASE u = t
      BY <1>1, <1>2, <1>3, <1>u, <2>2 DEF Place, Blocked, Sections, lists
    <2>3. QED
      BY <2>1, <2>2
  <1>8. QED
    BY <1>4, <1>5, <1>6, <1>7 DEF Shape

(* A mutex is given to the first of those that wait. *)
LEMMA GiveIs ==
  ASSUME Types, Lists, NEW t \in Tasks, NEW m \in Mutexes, Give(t, m)
  PROVE  /\ Types' /\ Lists'
         /\ owner' = [owner EXCEPT ![m] = NoTask] /\ owner[m] = t
         /\ prio' = [prio EXCEPT ![t] = IF LastGiven(t) THEN Base[t] ELSE prio[t]]
         /\ \/ waiters[m] = {} /\ UNCHANGED <<list, waiters, ahead>>
            \/ \E u \in First(m) :
                 /\ u \in waiters[m] /\ list' = [list EXCEPT ![u] = "ready"]
                 /\ \A n \in Mutexes : waiters'[n] = waiters[n] \ {u}
                 /\ \A v, w \in Tasks : <<v, w>> \in ahead' <=>
                      <<v, w>> \in ahead /\ v # u /\ w # u
         /\ UNCHANGED <<time, wakeAt, pended, readied, susp, cur, state, at, prev, due>>
  <1>1. /\ owner' = [owner EXCEPT ![m] = NoTask] /\ owner[m] = t
        /\ prio' = [prio EXCEPT ![t] = IF LastGiven(t) THEN Base[t] ELSE prio[t]]
        /\ UNCHANGED <<time, wakeAt, pended, readied, susp, cur, state, at, prev, due>>
    BY DEF Give, Held
  <1>p. /\ prio' \in [Tasks -> Range(Base)]
        /\ pendsv' \in 0 .. 1 /\ yield' \in 0 .. 1
        /\ owner' \in [Mutexes -> Tasks \cup {NoTask}]
    <2>1. /\ pendsv' = IF GivenYields(t, m, prio'[t]) THEN 1 ELSE 0
          /\ yield' = IF waiters[m] # {} /\ GivenYields(t, m, prio'[t]) THEN 1 ELSE yield
      BY DEF Give, Types
    <2>2. prio' \in [Tasks -> Range(Base)]
      BY <1>1, Constants DEF Types
    <2>3. owner' \in [Mutexes -> Tasks \cup {NoTask}]
      BY <1>1 DEF Types
    <2>4. QED
      BY <2>1, <2>2, <2>3 DEF Types
  <1>2. CASE waiters[m] = {} /\ UNCHANGED <<list, waiters, ahead>>
    <2>1. Lists'
      BY <1>2, ListsKept
    <2>2. Types'
      BY <1>1, <1>p, <1>2 DEF Types
    <2>3. QED
      BY <1>1, <1>2, <2>1, <2>2
  <1>3. ASSUME NEW u \in First(m), Wake(u), LeaveEvents({u})
        PROVE  /\ Types' /\ Lists'
               /\ u \in waiters[m] /\ list' = [list EXCEPT ![u] = "ready"]
               /\ \A n \in Mutexes : waiters'[n] = waiters[n] \ {u}
               /\ \A v, w \in Tasks : <<v, w>> \in ahead' <=>
                      <<v, w>> \in ahead /\ v # u /\ w # u
    <2>1. u \in waiters[m] /\ list' = [list EXCEPT ![u] = "ready"]
      BY <1>3 DEF First, Wake
    <2>2. /\ Lists' /\ waiters' \in [Mutexes -> SUBSET Tasks] /\ ahead' \subseteq Tasks \X Tasks
          /\ \A n \in Mutexes : waiters'[n] = waiters[n] \ {u}
          /\ \A v, w \in Tasks : <<v, w>> \in ahead' <=>
               <<v, w>> \in ahead /\ v \notin {u} /\ w \notin {u}
      BY <1>3, LeaveOrdered DEF Types
    <2>3. Types'
      BY <1>1, <1>p, <2>1, <2>2 DEF Types
    <2>4. QED
      BY <2>1, <2>2, <2>3
  <1>4. QED
    BY <1>1, <1>2, <1>3 DEF Give

LEMMA GiveShape ==
  ASSUME Shape, NEW t \in Tasks, NEW m \in Mutexes, Give(t, m)
  PROVE  Shape'
  <1>r. Runs(t, "run") /\ "run" \notin Sections
    BY DEF Give, Sections
  <1>1. /\ t = cur /\ pendsv = 0 /\ susp = 0 /\ pended = 0 /\ readied = {}
        /\ list[t] = "ready" /\ \A n \in Mutexes : t \notin waiters[n]
        /\ \A u \in Tasks : at[u].pc \notin {"resume", "catchUp"}
    BY <1>r, Runner
  <1>2. /\ Types' /\ Lists'
        /\ UNCHANGED <<time, wakeAt, pended, readied, susp, cur, state, at, prev, due>>
    BY GiveIs DEF Shape
  <1>3. \A u \in Tasks :
          /\ list'[u] = list[u] \/ (list'[u] = "ready" /\ \A n \in Mutexes : u \notin waiters'[n])
          /\ \A n \in Mutexes : u \in waiters'[n] => u \in waiters[n]
    <2>1. CASE waiters[m] = {} /\ UNCHANGED <<list, waiters, ahead>>
      BY <2>1
    <2>2. ASSUME NEW u \in First(m), u \in waiters[m], list' = [list EXCEPT ![u] = "ready"],
                 \A n \in Mutexes : waiters'[n] = waiters[n] \ {u}
          PROVE  <1>3!:
      BY <2>2 DEF Shape, Types
    <2>3. QED
      BY <2>1, <2>2, GiveIs DEF Shape
  <1>4. Section'
    BY <1>1, <1>2, <1>3, Constants DEF Shape, Section
  <1>5. ASSUME NEW u \in Tasks PROVE Place(u)' /\ Blocked(u)'
    BY <1>2, <1>3, PlaceKept, BlockedKept DEF Shape, Blocked
  <1>6. QED
    BY <1>2, <1>4, <1>5 DEF Shape

(* vTaskDelay and vTaskDelayUntil; a task that need not sleep only yields. *)
LEMMA SleepShape ==
  ASSUME Shape, NEW t \in Tasks \ {Idle}, Runs(t, "run"),
         \/ at' = [at EXCEPT ![t].pc = "yield", ![t].then = "woke"] /\ UNCHANGED susp
         \/ at' = [at EXCEPT ![t] = Suspended(@, "woke", 1)] /\ susp' = 1,
         time' \in [tick : 0 .. Forever, overflows : 0 .. 1, next : 0 .. Forever],
         list' \in [Tasks -> {"ready", "delayed", "overflow", "suspended"}],
         wakeAt' \in [Tasks -> 0 .. Forever], prev' \in [Tasks -> 0 .. Forever],
         due' \in [Tasks -> Int], \A u \in Tasks : u # t => list'[u] = list[u],
         UNCHANGED <<waiters, ahead, pended, readied, yield, pendsv, cur, prio, owner, state>>
  PROVE  Shape'
  <1>1. /\ t = cur /\ pendsv = 0 /\ susp = 0 /\ pended = 0 /\ readied = {}
        /\ list[t] = "ready" /\ \A n \in Mutexes : t \notin waiters[n]
        /\ \A u \in Tasks : at[u].pc \notin {"resume", "catchUp"}
    BY Runner DEF Sections
  <1>2. at[t] = Running /\ at[t].pc = "run" /\ state[t] # "waiting" /\ Types
    BY DEF Shape, Place, Blocked, Runs
  <1>3. /\ Others(t) /\ at'[t].m = 0 /\ at'[t].then = "woke"
        /\ \/ at'[t].pc = "yield" /\ susp' = 0
           \/ at'[t].pc = "resume" /\ at'[t].force = 1 /\ susp' = 1
    <2>1. CASE at' = [at EXCEPT ![t].pc = "yield", ![t].then = "woke"] /\ UNCHANGED susp
      <3>1. at'[t].pc = "yield"
        BY <1>2, <2>1 DEF Types, Running
      <3>2. QED
        BY <1>1, <1>2, <2>1, <3>1, SleepAt
    <2>2. CASE at' = [at EXCEPT ![t] = Suspended(@, "woke", 1)] /\ susp' = 1
      <3>1. at'[t].pc = "resume"
        BY <1>2, <2>2 DEF Types, Running, Suspended
      <3>2. QED
        BY <1>1, <1>2, <2>2, <3>1, SleepAt
    <2>3. QED
      BY <2>1, <2>2
  <1>4. Types'
    BY <1>2, <1>3 DEF Types, Others
  <1>5. Section'
    BY <1>1, <1>2, <1>3, Constants DEF Shape, Section, Others
  <1>6. Lists'
    BY ListsKept DEF Shape
  <1>7. ASSUME NEW u \in Tasks PROVE Place(u)' /\ Blocked(u)'
    <2>1. CASE u # t
      BY <1>3, <2>1, PlaceKept, BlockedKept DEF Shape, Others, Blocked
    <2>2. CASE u = t
      BY <1>1, <1>2, <1>3, <2>2 DEF Place, Blocked, PastWait, Sections
    <2>3. QED
      BY <2>1, <2>2
  <1>8. QED
    BY <1>4, <1>5, <1>6, <1>7 DEF Shape

LEMMA DelayShape ==
  ASSUME Shape, NEW t \in Tasks \ {Idle}, NEW n \in 0 .. Forever, Delay(t, n)
  PROVE  Shape'
  <1>1. /\ Types /\ due' \in [Tasks -> Int]
    BY DEF Delay, Shape, Types
  <1>2. CASE n = 0
    BY <1>1, <1>2, SleepShape DEF Delay, Types, lists
  <1>3. CASE n # 0
    <2>1. /\ time' \in [tick : 0 .. Forever, overflows : 0 .. 1, next : 0 .. Forever]
          /\ list' \in [Tasks -> {"ready", "delayed", "overflow", "suspended"}]
          /\ wakeAt' \in [Tasks -> 0 .. Forever]
          /\ \A u \in Tasks : u # t => list'[u] = list[u]
      BY <1>1, <1>3, AddToDelayedIs DEF Delay
    <2>2. QED
      BY <1>1, <1>3, <2>1, SleepShape DEF Delay, Types
  <1>4. QED
    BY <1>2, <1>3

(* Two times are less than one round of the tick counter apart. *)
LEMMA ModIs ==
  ASSUME NEW a \in 0 .. Forever, NEW b \in 0 .. Forever
  PROVE  /\ (a - b) % Width \in 0 .. Forever
         /\ (a - b) % Width = IF a >= b THEN a - b ELSE a - b + Width
         /\ (a + b) % Width \in 0 .. Forever
         /\ (a + b) % Width = IF a + b < Width THEN a + b ELSE a + b - Width
  <1>1. Width \in Nat /\ Width > 0
    BY Constants
  <1>2. (a + b) % Width = IF a + b < Width THEN a + b ELSE a + b - Width
    <2>1. a + b \in 0 .. 2 * Width - 1
      BY Constants
    <2>2. QED
      BY <1>1, <2>1, OneWrap
  <1>3. CASE a >= b
    <2> DEFINE x == a - b
    <2>1. x \in 0 .. 2 * Width - 1 /\ x < Width
      BY <1>3, Constants
    <2> HIDE DEF x
    <2>2. x % Width = x
      BY <1>1, <2>1, OneWrap
    <2>3. (a - b) % Width = a - b
      BY <2>2 DEF x
    <2>4. QED
      BY <1>2, <1>3, <2>3, Constants
  <1>4. CASE a < b
    <2> DEFINE x == a - b
    <2>1. x \in -Width .. -1
      BY <1>4, Constants
    <2> HIDE DEF x
    <2>2. x % Width = x + Width
      BY <1>1, <2>1, BelowZero
    <2>3. (a - b) % Width = a - b + Width
      BY <2>2 DEF x
    <2>4. QED
      BY <1>2, <1>4, <2>3, Constants
  <1>5. QED
    BY <1>3, <1>4

LEMMA DelayUntilShape ==
  ASSUME Shape, NEW t \in Tasks \ {Idle}, NEW n \in 1 .. Forever - 1, DelayUntil(t, n)
  PROVE  Shape'
  <1> DEFINE wake == (prev[t] + n) % Width
             left == (wake - time.tick) % Width
  <1>1. /\ Types /\ due' \in [Tasks -> Int] /\ prev[t] \in 0 .. Forever
        /\ time.tick \in 0 .. Forever /\ n \in 0 .. Forever
    BY Constants DEF DelayUntil, Shape, Types
  <1>2. wake \in 0 .. Forever
    BY <1>1, ModIs
  <1>3. prev' = [prev EXCEPT ![t] = wake]
    BY DEF DelayUntil
  <1>4. AddToDelayed(t, left) \/ UNCHANGED <<time, list, wakeAt>>
    BY DEF DelayUntil
  <1> HIDE DEF wake
  <1>5. left \in 0 .. Forever
    BY <1>1, <1>2, ModIs
  <1> HIDE DEF left
  <1>6. /\ time' \in [tick : 0 .. Forever, overflows : 0 .. 1, next : 0 .. Forever]
        /\ list' \in [Tasks -> {"ready", "delayed", "overflow", "suspended"}]
        /\ wakeAt' \in [Tasks -> 0 .. Forever]
        /\ \A u \in Tasks : u # t => list'[u] = list[u]
    <2>1. CASE AddToDelayed(t, left)
      BY <1>1, <1>5, <2>1, AddToDelayedIs
    <2>2. CASE UNCHANGED <<time, list, wakeAt>>
      BY <1>1, <2>2 DEF Types
    <2>3. QED
      BY <1>4, <2>1, <2>2
  <1>7. prev' \in [Tasks -> 0 .. Forever]
    BY <1>1, <1>2, <1>3 DEF Types
  <1>8. /\ Runs(t, "run") /\ susp' = 1
        /\ at' = [at EXCEPT ![t] = Suspended(@, "woke", 1)]
        /\ UNCHANGED <<waiters, ahead, pended, readied, yield, pendsv, cur, prio, owner, state>>
    BY DEF DelayUntil
  <1>9. QED
    BY <1>1, <1>6, <1>7, <1>8, SleepShape

LEMMA NotifyWaitShape ==
  ASSUME Shape, NEW t \in Tasks \ {Idle}, NEW n \in 0 .. Forever, NotifyWait(t, n)
  PROVE  Shape'
  <1>r. Runs(t, "run") /\ "run" \notin Sections
    BY DEF NotifyWait, Sections
  <1>1. /\ t = cur /\ pendsv = 0 /\ susp = 0 /\ pended = 0 /\ readied = {}
        /\ list[t] = "ready" /\ \A m \in Mutexes : t \notin waiters[m]
        /\ \A u \in Tasks : at[u].pc \notin {"resume", "catchUp"}
    BY <1>r, Runner
  <1>2. /\ Others(t)
        /\ at'[t].pc = "received" /\ at'[t].m = 0 /\ at'[t].then = "run"
    BY NotifyWaitAt DEF Shape
  <1>3. Types
    BY DEF Shape
  <1>u. UNCHANGED <<waiters, ahead, pended, readied, susp, yield, cur, prio, owner, prev>>
    BY DEF NotifyWait
  <1>4. /\ time' \in [tick : 0 .. Forever, overflows : 0 .. 1, next : 0 .. Forever]
        /\ list' \in [Tasks -> {"ready", "delayed", "overflow", "suspended"}]
        /\ wakeAt' \in [Tasks -> 0 .. Forever] /\ pendsv' \in 0 .. 1
        /\ \A u \in Tasks : u # t => list'[u] = list[u]
        /\ list'[t] = "ready" \/ pendsv' = 1
    <2>1. CASE UNCHANGED <<time, list, wakeAt, pendsv>>
      BY <1>1, <1>3, <2>1 DEF Types
    <2>2. CASE AddOrSuspend(t, n) /\ pendsv' = 1
      BY <1>3, <2>2, AddOrSuspendIs
    <2>3. QED
      BY <2>1, <2>2 DEF NotifyWait
  <1>5. /\ state' \in [Tasks -> {"none", "waiting", "received"}]
        /\ \A u \in Tasks : u # t => state'[u] = state[u]
        /\ due' \in [Tasks -> Int]
    BY <1>3 DEF NotifyWait, Types
  <1>6. Types'
    BY <1>2, <1>3, <1>4, <1>5, <1>u DEF Types, Others
  <1>7. Section'
    BY <1>1, <1>2, <1>4, <1>u, Constants DEF Shape, Section, Others
  <1>8. Lists'
    BY <1>u, ListsKept DEF Shape
  <1>9. ASSUME NEW u \in Tasks PROVE Place(u)' /\ Blocked(u)'
    <2>1. CASE u # t
      BY <1>1, <1>2, <1>4, <1>5, <1>u, <2>1, PlaceKept, BlockedKept DEF Shape, Others, Blocked
    <2>2. CASE u = t
      BY <1>1, <1>2, <1>u, <2>2 DEF Place, Blocked, Sections
    <2>3. QED
      BY <2>1, <2>2
  <1>10. QED
    BY <1>6, <1>7, <1>8, <1>9 DEF Shape

LEMMA NotifyShape ==
  ASSUME Shape, NEW t \in Tasks, NEW u \in Tasks, Notify(t, u)
  PROVE  Shape'
  <1>r. Runs(t, "run") /\ "run" \notin Sections
    BY DEF Notify, Sections
  <1>1. /\ t = cur /\ pendsv = 0 /\ susp = 0 /\ pended = 0 /\ readied = {}
        /\ list[t] = "ready" /\ \A m \in Mutexes : t \notin waiters[m]
        /\ \A v \in Tasks : at[v].pc \notin {"resume", "catchUp"}
    BY <1>r, Runner
  <1>u. UNCHANGED <<time, wakeAt, waiters, ahead, pended, readied, susp, yield, cur, prio,
                    owner, at, prev, due>>
    BY DEF Notify
  <1>2. /\ state' = [state EXCEPT ![u] = "received"] /\ Types
        /\ IF state[u] = "waiting" THEN list' = [list EXCEPT ![u] = "ready"]
                                   ELSE UNCHANGED list
        /\ pendsv' \in 0 .. 1
    BY DEF Notify, Shape, Types
  <1>3. Types'
    BY <1>2, <1>u DEF Types
  <1>4. \A v \in Tasks : list'[v] = list[v] \/ (v = u /\ state[u] = "waiting" /\ list'[v] = "ready")
    BY <1>2 DEF Types
  <1>5. Section'
    BY <1>1, <1>2, <1>4, <1>u DEF Shape, Section, Types
  <1>6. Lists'
    BY <1>u, ListsKept DEF Shape
  <1>7. ASSUME NEW v \in Tasks PROVE Place(v)' /\ Blocked(v)'
    <2>1. state[v] = "waiting" => \A m \in Mutexes : v \notin waiters[m]
      BY DEF Shape, Blocked, PastTake, Sections
    <2>2. state'[v] = "waiting" => state[v] = "waiting"
      BY <1>2 DEF Types
    <2>3. \/ list'[v] = list[v] 
          \/ list'[v] = "ready" /\ \A m \in Mutexes : v \notin waiters'[m]
      BY <1>4, <1>u, <2>1
    <2>4. QED
      BY <1>1, <1>u, <2>2, <2>3, PlaceKept, BlockedKept DEF Shape
  <1>8. QED
    BY <1>3, <1>5, <1>6, <1>7 DEF Shape

LEMMA NotifyFromISRShape ==
  ASSUME Shape, NEW u \in Tasks, NotifyFromISR(u)
  PROVE  Shape'
  <1>u. UNCHANGED <<time, wakeAt, waiters, ahead, pended, susp, pendsv, cur, prio, owner, at,
                    prev, due>>
    BY DEF NotifyFromISR
  <1>2. /\ state' = [state EXCEPT ![u] = "received"] /\ Types /\ yield' \in 0 .. 1
    BY DEF NotifyFromISR, Shape, Types
  <1>4. \A v \in Tasks : list'[v] = list[v] \/ (v = u /\ state[u] = "waiting" /\ list'[v] = "ready")
    BY <1>2 DEF Types, NotifyFromISR
  <1>5. /\ readied \subseteq readied' /\ list' \in [Tasks -> {"ready", "delayed", "overflow", "suspended"}]
        /\ \A v \in readied' : v \in readied \/ (v = u /\ state[u] = "waiting" /\ susp # 0)
    BY <1>2 DEF Types, NotifyFromISR
  <1>3. Types'
    BY <1>2, <1>5, <1>u DEF Types
  <1>6. Section'
    BY <1>2, <1>4, <1>5, <1>u DEF Shape, Section, Types
  <1>7. Lists'
    BY <1>u, ListsKept DEF Shape
  <1>8. ASSUME NEW v \in Tasks PROVE Place(v)' /\ Blocked(v)'
    <2>1. state[v] = "waiting" => /\ \A m \in Mutexes : v \notin waiters[m]
                                  /\ at[v].pc = "received"
      BY DEF Shape, Blocked, PastTake, Sections
    <2>2. state'[v] = "waiting" => state[v] = "waiting"
      BY <1>2 DEF Types
    <2>3. \/ list'[v] = list[v] 
          \/ list'[v] = "ready" /\ \A m \in Mutexes : v \notin waiters'[m]
      BY <1>4, <1>u, <2>1
    <2>4. v \in readied' => state'[v] = "received" /\ at[v].pc = "received"
      <3>1. v \in readied => state[v] = "received" /\ at[v].pc = "received"
        BY DEF Shape, Blocked
      <3>2. state'[v] = IF v = u THEN "received" ELSE state[v]
        BY <1>2 DEF Types
      <3>3. QED
        BY <1>5, <2>1, <3>1, <3>2
    <2>5. QED
      BY <1>u, <2>2, <2>3, <2>4, PlaceKept, BlockedKept DEF Shape
  <1>9. QED
    BY <1>3, <1>6, <1>7, <1>8 DEF Shape

LEMMA ResumeAllShape ==
  ASSUME Shape, NEW t \in Tasks, ResumeAll(t)
  PROVE  Shape'
  <1>1. /\ t = cur /\ pendsv = 0 /\ at[t].pc = "resume" /\ susp = 1 /\ Types /\ t # Idle
    BY DEF ResumeAll, Runs, Shape, Section
  <1>u. /\ UNCHANGED <<wakeAt, waiters, ahead, pended, pendsv, cur, prio, owner, state, prev, due>>
        /\ susp' = 0 /\ readied' = {}
    BY DEF ResumeAll
  <1>2. /\ Others(t) /\ at'[t].pc = "catchUp" /\ at'[t].m = at[t].m
        /\ at'[t].left = at[t].left /\ at'[t].entry = at[t].entry
        /\ at'[t].then = at[t].then /\ at'[t].force = at[t].force
    BY <1>1, GotoAt DEF ResumeAll, Places, Sections
  <1>3. /\ list' \in [Tasks -> {"ready", "delayed", "overflow", "suspended"}]
        /\ \A u \in Tasks : list'[u] = list[u] \/ (u \in readied /\ list'[u] = "ready")
    BY <1>1 DEF ResumeAll, Types
  <1>4. time' \in [tick : 0 .. Forever, overflows : 0 .. 1, next : 0 .. Forever]
    <2>1. NextUnblock(list', wakeAt) \in 0 .. Forever
      BY <1>1, NextUnblockIs DEF Types
    <2>2. time' = time \/ time' = [time EXCEPT !.next = NextUnblock(list', wakeAt)]
      BY DEF ResumeAll
    <2> DEFINE n == NextUnblock(list', wakeAt)
    <2> HIDE DEF n
    <2>3. n \in 0 .. Forever /\ (time' = time \/ time' = [time EXCEPT !.next = n])
      BY <2>1, <2>2 DEF n
    <2>4. QED
      BY <1>1, <2>3 DEF Types
  <1>5. yield' \in 0 .. 1
    BY <1>1 DEF ResumeAll, Types
  <1>6. Types'
    BY <1>1, <1>2, <1>3, <1>4, <1>5, <1>u DEF Types, Others
  <1>7. Section'
    BY <1>1, <1>2, <1>3, <1>u, Constants DEF Shape, Section, Others
  <1>8. Lists'
    BY <1>u, ListsKept DEF Shape
  <1>9. ASSUME NEW u \in Tasks PROVE Place(u)' /\ Blocked(u)'
    <2>1. \/ list'[u] = list[u] 
          \/ list'[u] = "ready" /\ \A m \in Mutexes : u \notin waiters'[m]
      BY <1>3, <1>u DEF Shape, Blocked, PastTake, Sections
    <2>2. CASE u # t
      BY <1>2, <1>u, <2>1, <2>2, PlaceKept, BlockedKept DEF Shape, Others
    <2>3. CASE u = t
      <3>1. Place(t) /\ Blocked(t)
        BY DEF Shape
      <3>2. Place(t)'
        BY <1>1, <1>2, <3>1 DEF Place, Sections
      <3>3. Blocked(t)'
        BY <1>1, <1>2, <1>u, <2>1, <2>3, <3>1 DEF Blocked, PastTake, PastWait, Sections
      <3>4. QED
        BY <2>3, <3>2, <3>3
    <2>4. QED
      BY <2>2, <2>3
  <1>10. QED
    BY <1>6, <1>7, <1>8, <1>9 DEF Shape

(* The tick that xTaskIncrementTick processes, in the interrupt or afterwards. *)
LEMMA IncrementShape ==
  ASSUME Shape, IncrementTick, yield' \in 0 .. 1, pendsv' \in 0 .. 1, pended' \in 0 .. MaxPended,
         due' \in [Tasks -> Int],
         pendsv' = pendsv \/ \A t \in Tasks : at[t].pc \notin {"resume", "catchUp"},
         pendsv = 1 => pendsv' = 1,
         pended' # 0 => pended # 0,
         UNCHANGED <<readied, susp, cur, prio, owner, state, at, prev>>
  PROVE  Shape'
  <1>1. Types /\ Lists
    BY DEF Shape
  <1>2. /\ time' \in [tick : 0 .. Forever, overflows : 0 .. 1, next : 0 .. Forever]
        /\ list' \in [Tasks -> {"ready", "delayed", "overflow", "suspended"}]
        /\ wakeAt' = wakeAt /\ Lists'
        /\ waiters' \in [Mutexes -> SUBSET Tasks] /\ ahead' \subseteq Tasks \X Tasks
        /\ \A m \in Mutexes : waiters'[m] = waiters[m] \ Over
        /\ \A t \in Tasks :
             /\ t \in Over => list'[t] = "ready" /\ list[t] \in {"delayed", "overflow"}
             /\ list[t] = "ready" => list'[t] = "ready"
             /\ list'[t] = "ready" => list[t] = "ready" \/ t \in Over
             /\ list'[t] = "suspended" <=> list[t] = "suspended"
    BY <1>1, IncrementTickIs
  <1>3. Types'
    BY <1>1, <1>2 DEF Types
  <1>4. Section'
    BY <1>1, <1>2 DEF Shape, Section, Types
  <1>5. ASSUME NEW u \in Tasks PROVE Place(u)' /\ Blocked(u)'
    <2>1. \A m \in Mutexes : u \in waiters'[m] => u \in waiters[m]
      BY <1>2
    <2>2. \/ list'[u] = list[u]
          \/ list'[u] = "ready" /\ \A m \in Mutexes : u \notin waiters'[m]
          \/ /\ list'[u] # "ready" /\ list[u] # "ready"
             /\ list'[u] = "suspended" <=> list[u] = "suspended"
      <3>1. CASE u \in Over
        BY <1>2, <3>1
      <3>2. CASE u \notin Over
        BY <1>2, <3>2
      <3>3. QED
        BY <3>1, <3>2
    <2>3. QED
      BY <2>1, <2>2, PlaceKept, BlockedKept DEF Shape, Blocked
  <1>6. QED
    BY <1>2, <1>3, <1>4, <1>5 DEF Shape

LEMMA CatchUpShape ==
  ASSUME Shape, NEW t \in Tasks, CatchUp(t)
  PROVE  Shape'
  <1>1. /\ yield' \in 0 .. 1 /\ pended' \in 0 .. MaxPended /\ pended' = pended - 1
        /\ pended # 0
    BY Constants DEF CatchUp, Shape, Types
  <1>2. /\ pendsv' = pendsv /\ pendsv' \in 0 .. 1 /\ due' \in [Tasks -> Int]
    BY DEF CatchUp, Shape, Types
  <1>3. QED
    BY <1>1, <1>2, IncrementShape DEF CatchUp

LEMMA TickShape ==
  ASSUME Shape, Tick
  PROVE  Shape'
  <1>1. Types /\ due' \in [Tasks -> Int]
    BY Constants DEF Tick, Shape, Types
  <1>u. UNCHANGED <<readied, susp, yield, cur, prio, owner, state, at, prev>> /\ ~Masked
    BY DEF Tick
  <1>2. CASE susp > 0
    <2>1. /\ pended' = pended + 1 /\ pended' \in 0 .. MaxPended
          /\ UNCHANGED <<lists, pendsv>>
      BY <1>1, <1>2, Constants DEF Tick, Types
    <2>2. Types'
      BY <1>1, <1>u, <2>1 DEF Types, lists
    <2>3. Section'
      BY <1>1, <1>2, <1>u, <2>1 DEF Shape, Section, lists, Types
    <2>4. Lists'
      BY <2>1, ListsKept DEF Shape, lists
    <2>5. ASSUME NEW u \in Tasks PROVE Place(u)' /\ Blocked(u)'
      BY <1>u, <2>1, PlaceKept, BlockedKept DEF Shape, lists, Blocked
    <2>6. QED
      BY <2>2, <2>3, <2>4, <2>5 DEF Shape
  <1>3. CASE ~(susp > 0)
    <2>1. susp = 0 /\ \A t \in Tasks : at[t].pc \notin {"resume", "catchUp"}
      BY <1>1, <1>3, <1>u DEF Shape, Section, Types, Masked
    <2>2. /\ IncrementTick /\ pended' = pended
          /\ pendsv' = IF SwitchRequired THEN 1 ELSE pendsv
      BY <1>3 DEF Tick
    <2>3. /\ yield' \in 0 .. 1 /\ pendsv' \in 0 .. 1 /\ pended' \in 0 .. MaxPended
          /\ pendsv = 1 => pendsv' = 1
      BY <1>1, <1>u, <2>2 DEF Types
    <2>4. QED
      BY <1>1, <1>u, <2>1, <2>2, <2>3, IncrementShape
  <1>4. QED
    BY <1>2, <1>3

(* What follows a section with the scheduler suspended. *)
LEMMA LeaveShape ==
  ASSUME Shape, NEW t \in Tasks, t = cur, pendsv = 0, pended = 0, at[t].pc \in {"catchUp", "yield"},
         \/ /\ at' = [at EXCEPT ![t].pc = "yield", ![t].force = 0] /\ pendsv' = 0
            /\ at[t].pc = "catchUp"
         \/ /\ Continue(t) /\ pendsv' \in 0 .. 1
            /\ pendsv' = 0 => at[t].pc = "catchUp" /\ at[t].force # 1,
         UNCHANGED <<lists, pended, readied, susp, yield, cur, prio, owner, state, prev, due>>
  PROVE  Shape'
  <1>1. Types /\ susp = 0 /\ t # Idle /\ at[t] \in Locals
    BY DEF Shape, Section, Types
  <1>2. CASE at' = [at EXCEPT ![t].pc = "yield", ![t].force = 0] /\ pendsv' = 0
             /\ at[t].pc = "catchUp"
    <2>1. /\ Others(t) /\ at'[t].pc = "yield"
          /\ at'[t].m = at[t].m /\ at'[t].left = at[t].left
          /\ at'[t].then = at[t].then
      BY <1>1, <1>2, ForceAt
    <2>2. Types'
      BY <1>1, <1>2, <2>1 DEF Types, Others, lists
    <2>3. Section'
      BY <1>1, <1>2, <2>1, Constants DEF Shape, Section, Others, lists
    <2>4. Lists'
      BY ListsKept DEF Shape, lists
    <2>5. ASSUME NEW u \in Tasks PROVE Place(u)' /\ Blocked(u)'
      <3>1. CASE u # t
        BY <2>1, <3>1, PlaceKept, BlockedKept DEF Shape, Others, lists, Blocked
      <3>2. CASE u = t
        <4>1. Place(t) /\ Blocked(t)
          BY DEF Shape
        <4>2. Place(t)' /\ Blocked(t)'
          BY <1>1, <1>2, <2>1, <4>1 DEF Place, Blocked, PastTake, PastWait, Sections, lists
        <4>3. QED
          BY <3>2, <4>2
      <3>3. QED
        BY <3>1, <3>2
    <2>6. QED
      BY <2>2, <2>3, <2>4, <2>5 DEF Shape
  <1>3. CASE /\ Continue(t) /\ pendsv' \in 0 .. 1
             /\ pendsv' = 0 => at[t].pc = "catchUp" /\ at[t].force # 1
    <2>1. /\ Others(t) /\ at'[t].pc = at[t].then
          /\ at'[t].m = at[t].m /\ at'[t].left = at[t].left /\ at'[t].then = "run"
      BY <1>1, <1>3, ContinueAt
    <2>2. at[t].then \in {"try", "expired", "woke"} /\ Place(t) /\ Blocked(t)
      BY DEF Shape, Place, Sections
    <2>3. Types'
      BY <1>1, <1>3, <2>1 DEF Types, Others, lists
    <2>4. Section'
      BY <1>1, <1>3, <2>1, <2>2, Constants DEF Shape, Section, Others, lists, Types
    <2>5. Lists'
      BY ListsKept DEF Shape, lists
    <2>6. ASSUME NEW u \in Tasks PROVE Place(u)' /\ Blocked(u)'
      <3>1. CASE u # t
        BY <2>1, <3>1, PlaceKept, BlockedKept DEF Shape, Others, lists, Blocked
      <3>2. CASE u = t
        <4>1. Place(t)'
          BY <2>1, <2>2 DEF Place, Sections
        <4>2. Blocked(t)'
          BY <1>1, <2>1, <2>2 DEF Blocked, PastTake, PastWait, Sections, lists
        <4>3. QED
          BY <3>2, <4>1, <4>2
      <3>3. QED
        BY <3>1, <3>2
    <2>7. QED
      BY <2>3, <2>4, <2>5, <2>6 DEF Shape
  <1>4. QED
    BY <1>2, <1>3

LEMMA ResumedShape ==
  ASSUME Shape, NEW t \in Tasks, Resumed(t)
  PROVE  Shape'
  <1>1. t = cur /\ pendsv = 0 /\ pended = 0 /\ at[t].pc = "catchUp" /\ yield \in 0 .. 1
    BY DEF Resumed, Runs, Shape, Types
  <1>2. CASE at[t].force = 1 /\ yield = 0
    BY <1>1, <1>2, LeaveShape DEF Resumed
  <1>3. CASE ~(at[t].force = 1 /\ yield = 0)
    BY <1>1, <1>3, LeaveShape DEF Resumed
  <1>4. QED
    BY <1>2, <1>3

LEMMA YieldShape ==
  ASSUME Shape, NEW t \in Tasks, Yield(t)
  PROVE  Shape'
  <1>1. t = cur /\ pendsv = 0 /\ at[t].pc = "yield" /\ pended = 0
    BY DEF Yield, Runs, Shape, Section, Types
  <1>2. pendsv' = 1 /\ pendsv' \in 0 .. 1
    BY DEF Yield
  <1>3. QED
    BY <1>1, <1>2, LeaveShape DEF Yield

LEMMA SwitchContextShape ==
  ASSUME Shape, NEW t \in Tasks, SwitchContext(t)
  PROVE  Shape'
  <1>1. /\ Types /\ pendsv = 1 /\ list[t] = "ready" /\ cur' = t /\ pendsv' = 0 /\ yield' = 0
        /\ UNCHANGED <<lists, pended, readied, susp, prio, owner, state, at, prev, due>>
    BY DEF SwitchContext, Shape, Ready
  <1>2. \A u \in Tasks : at[u].pc \notin {"resume", "catchUp"}
    BY <1>1 DEF Shape, Section
  <1>3. Types'
    BY <1>1 DEF Types, lists
  <1>4. Section'
    BY <1>1, <1>2 DEF Shape, Section, lists, Types
  <1>5. Lists'
    BY <1>1, ListsKept DEF Shape, lists
  <1>6. ASSUME NEW u \in Tasks PROVE Place(u)' /\ Blocked(u)'
    BY <1>1, PlaceKept, BlockedKept DEF Shape, lists, Blocked
  <1>7. QED
    BY <1>3, <1>4, <1>5, <1>6 DEF Shape

-----------------------------------------------------------------------------
(* Time, action by action.                                                 *)

LEMMA TimeKept ==
  ASSUME Shape, NEW u \in Tasks, InTime(u),
         at'[u] = at[u], due'[u] = due[u], pended' = pended, prev'[u] = prev[u],
         wakeAt'[u] = wakeAt[u],
         time'.tick = time.tick, time'.overflows = time.overflows, time'.next \in Int,
         \/ time'.next <= time.next
         \/ list'[u] = "delayed" => time'.next <= wakeAt[u],
         \/ list'[u] = list[u]
         \/ /\ list'[u] = "ready" /\ ~PastWait(u)
            /\ at[u].pc = "received" => state'[u] # "waiting",
         state'[u] = "waiting" => state[u] = "waiting"
  PROVE  InTime(u)'
  <1>1. due'[u] \in -Lag .. Off /\ Asked(u)'
    BY DEF InTime, Asked
  <1>2. Timed(u)'
    BY DEF InTime, Timed, Seen
  <1>3. Awake(u)'
    BY DEF InTime, Awake, PastWait, Sections
  <1>4. InStep(u)'
    BY DEF InTime, InStep, PastWait, Sections
  <1>5. Sleeping(u)'
    <2>1. wakeAt[u] \in Int /\ time.next \in Int
      BY Constants DEF Shape, Types
    <2>2. QED
      BY <2>1 DEF InTime, Sleeping
  <1>6. QED
    BY <1>1, <1>2, <1>3, <1>4, <1>5 DEF InTime

LEMMA Numbers ==
  ASSUME Shape, NEW t \in Tasks
  PROVE  /\ time.tick \in 0 .. Forever /\ time.overflows \in 0 .. 1 /\ time.next \in 0 .. Forever
         /\ wakeAt[t] \in 0 .. Forever /\ prev[t] \in 0 .. Forever
         /\ pended \in 0 .. MaxPended /\ due[t] \in Int /\ at[t] \in Locals
         /\ at[t].left \in 0 .. Forever
  BY DEF Shape, Types, Locals

(* The tick that xTaskIncrementTick processes: all that was to come in n ticks
   now comes in n - 1. *)
LEMMA IncrementTime ==
  ASSUME Shape, TimeInv, IncrementTick, UNCHANGED <<at, state, prev>>,
         pended' \in Nat, NEW t \in Tasks, due'[t] \in -Lag .. Off,
         due[t] = Off => due'[t] = Off,
         due[t] # Off => due'[t] + pended' = due[t] + pended - 1 /\ due'[t] <= due[t]
  PROVE  InTime(t)'
  <1>1. /\ time.tick \in 0 .. Forever /\ time.overflows \in 0 .. 1 /\ time.next \in 0 .. Forever
        /\ wakeAt[t] \in 0 .. Forever /\ prev[t] \in 0 .. Forever
        /\ pended \in 0 .. MaxPended /\ due[t] \in Int /\ at[t] \in Locals
        /\ at[t].left \in 0 .. Forever
    BY Numbers
  <1>2. /\ Width \in Nat /\ Width >= 2 /\ Forever = Width - 1 /\ Off = Width
        /\ Lag \in 0 .. Width - 1 /\ MaxPended \in Nat
    BY Constants
  <1>3. Types /\ Lists /\ InTime(t)
    BY DEF Shape, TimeInv
  <1>4. Now = IF time.tick = Forever THEN 0 ELSE time.tick + 1
    BY <1>1, NowIs
  <1>5. /\ time'.tick = Now
        /\ time'.overflows = IF Now = 0 THEN 1 - time.overflows ELSE time.overflows
        /\ wakeAt' = wakeAt
        /\ t \in Over => list'[t] = "ready" /\ list[t] \in {"delayed", "overflow"}
        /\ t \notin Over => list'[t] = Switched[t]
        /\ list'[t] = "ready" => list[t] = "ready" \/ t \in Over
    BY <1>3, IncrementTickIs
  <1>6. time'.next = IF Now < NextNow THEN NextNow ELSE NextUnblock(ListNow, wakeAt)
    BY DEF IncrementTick
  <1>7. /\ Switched[t] = "delayed" => NextUnblock(Switched, wakeAt) <= wakeAt[t]
        /\ ListNow[t] = "delayed" => NextUnblock(ListNow, wakeAt) <= wakeAt[t]
        /\ NextUnblock(ListNow, wakeAt) \in 0 .. Forever
        /\ NextNow \in 0 .. Forever
    <2>1. wakeAt \in [Tasks -> 0 .. Forever]
      BY <1>3 DEF Types
    <2>2. QED
      BY <1>1, <2>1, NextUnblockIs DEF NextNow
  <1>8. /\ ListNow[t] = IF t \in Over THEN "ready" ELSE Switched[t]
        /\ Switched[t] = IF Now # 0 THEN list[t]
                         ELSE CASE list[t] = "overflow" -> "delayed"
                                [] list[t] = "delayed"  -> "overflow"
                                [] OTHER                -> list[t]
        /\ t \in Over <=> ~(Now < NextNow) /\ Switched[t] = "delayed" /\ wakeAt[t] <= Now
    BY DEF ListNow, Switched, Over
  <1>9. Sleeping(t)
    BY <1>3 DEF InTime
  (* Nobody is in the delayed list when the lists are switched. *)
  <1>10. Switched[t] = "delayed" =>
           /\ due[t] # Off /\ wakeAt[t] >= Now /\ NextNow <= wakeAt[t]
           /\ due[t] + pended = wakeAt[t] - Now + 1
    <2>1. CASE Now # 0
      BY <1>1, <1>2, <1>4, <1>7, <1>8, <1>9, <2>1 DEF Sleeping, NextNow
    <2>2. CASE Now = 0
      <3>1. list[t] # "delayed"
        BY <1>1, <1>4, <1>9, <1>2, <2>2 DEF Sleeping
      <3>2. Switched[t] = "delayed" => list[t] = "overflow"
        BY <1>8, <2>2, <3>1
      <3>3. NextNow = NextUnblock(Switched, wakeAt)
        BY <2>2 DEF NextNow
      <3>4. time.tick = Forever
        BY <1>1, <1>2, <1>4, <2>2
      <3>5. QED
        BY <1>1, <1>2, <1>7, <1>9, <2>2, <3>2, <3>3, <3>4 DEF Sleeping
    <2>3. QED
      BY <2>1, <2>2
  <1>11. t \in Over => due[t] + pended = 1 /\ due[t] # Off
    BY <1>1, <1>2, <1>4, <1>7, <1>8, <1>10
  <1>12. Sleeping(t)'
    <2>1. CASE t \in Over
      BY <1>5, <2>1 DEF Sleeping
    <2>2. CASE t \notin Over /\ list'[t] = "delayed"
      <3>1. Switched[t] = "delayed" /\ ListNow[t] = "delayed"
        BY <1>5, <1>8, <2>2
      <3>2. wakeAt[t] > Now
        BY <1>1, <1>2, <1>4, <1>7, <1>8, <1>10, <2>2, <3>1
      <3>3. time'.next <= wakeAt[t]
        BY <1>6, <1>7, <1>10, <3>1
      <3>4. due'[t] + pended' = wakeAt[t] - Now
        BY <1>1, <1>2, <1>4, <1>10, <3>1
      <3>5. QED
        BY <1>5, <2>2, <3>2, <3>3, <3>4 DEF Sleeping
    <2>3. CASE t \notin Over /\ list'[t] = "overflow"
      <3>1. list[t] = "overflow" /\ Now # 0
        <4>1. Switched[t] = "overflow"
          BY <1>5, <2>3
        <4>2. CASE Now = 0
          <5>1. list[t] = "delayed"
            BY <1>8, <4>1, <4>2
          <5>2. QED
            BY <1>1, <1>2, <1>4, <1>9, <4>2, <5>1 DEF Sleeping
        <4>3. QED
          BY <1>8, <4>1, <4>2
      <3>2. QED
        BY <1>1, <1>2, <1>4, <1>5, <1>9, <2>3, <3>1 DEF Sleeping
    <2>4. QED
      BY <2>1, <2>2, <2>3 DEF Sleeping
  <1>13. Awake(t)'
    <2>1. due'[t] <= due[t]
      BY <1>1, <1>2
    <2>2. t \in Over => due'[t] <= 0
      BY <1>1, <1>2, <1>11
    <2>3. Awake(t)
      BY <1>3 DEF InTime
    <2>4. /\ PastWait(t)' <=> PastWait(t)
      BY DEF PastWait
    <2>5. \A x \in Int : due'[t] \in Int /\ (x <= 0 /\ due'[t] <= x => due'[t] <= 0)
      BY <1>2
    <2>6. due[t] <= 0 => due'[t] <= 0
      BY <1>1, <2>1, <2>5
    <2>7. QED
      BY <1>5, <2>2, <2>3, <2>4, <2>6 DEF Awake
  <1>14. Timed(t)'
    <2> SUFFICES ASSUME at[t].entry # <<>>, at[t].left \in 1 .. Forever - 1
                 PROVE  /\ at[t].left + Lag <= Width /\ Seen(t)' >= 0
                        /\ \/ /\ time'.tick = at[t].entry[2] + Seen(t)'
                              /\ time'.overflows = at[t].entry[1]
                           \/ /\ time'.tick = at[t].entry[2] + Seen(t)' - Width
                              /\ time'.overflows # at[t].entry[1]
      BY DEF Timed
    <2>1. at[t].entry[1] \in 0 .. 1 /\ at[t].entry[2] \in 0 .. Forever
      BY <1>3, ElapsedIs
    <2>2. /\ at[t].left + Lag <= Width /\ Seen(t) >= 0
          /\ \/ time.tick = at[t].entry[2] + Seen(t) /\ time.overflows = at[t].entry[1]
             \/ time.tick = at[t].entry[2] + Seen(t) - Width /\ time.overflows # at[t].entry[1]
      BY <1>3 DEF InTime, Timed
    <2>3. due[t] # Off
      BY <1>1, <1>2, <2>2 DEF Seen
    <2> DEFINE x == Seen(t)
               y == Seen(t)'
               e == at[t].entry[2]
    <2>4. y = x + 1 /\ x \in Nat /\ x <= Width - 1
      <3> DEFINE n == due[t] + pended
                 k == due'[t] + pended'
                 left == at[t].left
      <3>1. y = left - k /\ x = left - n
        BY DEF Seen
      <3>2. n \in Int /\ k = n - 1 /\ k >= -Lag /\ left \in Int
        <4>1. n \in Int /\ left \in Int
          BY <1>1, <1>2
        <4>2. k = n - 1
          <5>1. due'[t] + pended' = due[t] + pended - 1
            BY <2>3
          <5>2. due'[t] \in Int
            BY <1>2
          <5>3. QED
            BY <1>1, <5>1, <5>2
        <4>3. k >= -Lag
          BY <1>2
        <4>4. QED
          BY <4>1, <4>2, <4>3
      <3>3. x >= 0 /\ left + Lag <= Width
        BY <2>2
      <3> HIDE DEF n, k, left, x, y
      <3>4. QED
        BY <1>2, <3>1, <3>2, <3>3
    <2>5. e \in 0 .. Forever
      BY <2>1
    <2>6. \/ time.tick = e + x /\ time.overflows = at[t].entry[1]
          \/ time.tick = e + x - Width /\ time.overflows # at[t].entry[1]
      BY <2>2
    <2>7. /\ y >= 0
          /\ \/ time'.tick = e + y /\ time'.overflows = at[t].entry[1]
             \/ time'.tick = e + y - Width /\ time'.overflows # at[t].entry[1]
      <3> HIDE DEF x, y, e
      <3>1. CASE Now # 0
        <4>1. time'.tick = time.tick + 1 /\ time'.overflows = time.overflows
          BY <1>4, <1>5, <3>1
        <4>2. QED
          BY <1>1, <1>2, <2>4, <2>5, <2>6, <4>1
      <3>2. CASE Now = 0
        <4>1. time.tick = Forever
          BY <1>1, <1>2, <1>4, <3>2
        <4>2. time.tick = e + x /\ time.overflows = at[t].entry[1]
          BY <1>2, <2>4, <2>5, <2>6, <4>1
        <4>3. time'.tick = e + y - Width
          BY <1>2, <1>5, <2>4, <2>5, <3>2, <4>1, <4>2
        <4>4. time'.overflows # at[t].entry[1]
          BY <1>1, <1>5, <3>2, <4>2
        <4>5. QED
          BY <2>4, <4>3, <4>4
      <3>3. QED
        BY <3>1, <3>2
    <2>8. QED
      BY <2>2, <2>7
  <1>15. InStep(t)'
    <2> SUFFICES ASSUME Periodic(t)
                 PROVE  InStep(t)'
      BY DEF InStep
    <2>1. /\ due[t] + pended <= Width - 2
          /\ prev[t] - (time.tick + due[t] + pended) \in {0, Width, -Width}
          /\ ~PastWait(t) => due[t] <= 0
          /\ at[t].m # 0 => at[t].left \in {0, Forever}
      BY <1>3 DEF InTime, InStep
    <2>2. due[t] # Off
      BY <1>1, <1>2, <2>1
    <2>3. due'[t] + pended' <= Width - 2 /\ (due[t] <= 0 => due'[t] <= 0)
      BY <1>1, <1>2, <2>1, <2>2
    <2>4. prev[t] - (Now + due'[t] + pended') \in {0, Width, -Width}
      <3>1. due[t] + pended > -Width
        BY <1>1, <1>2, <2>2
      <3>2. CASE Now # 0
        BY <1>1, <1>2, <1>4, <2>1, <2>2, <3>2
      <3>3. CASE Now = 0
        <4>1. time.tick = Width - 1
          BY <1>1, <1>2, <1>4, <3>3
        <4>2. due'[t] + pended' = due[t] + pended - 1
          BY <2>2
        <4> DEFINE x == due[t] + pended
        <4>3. x \in Int /\ x > -Width /\ due'[t] + pended' = x - 1
          BY <1>1, <3>1, <4>2
        <4>4. prev[t] - (Width - 1 + x) \in {0, Width, -Width}
          BY <1>1, <1>2, <2>1, <4>1
        <4> HIDE DEF x
        <4>5. prev[t] - (x - 1) \in {0, Width, -Width}
          BY <1>1, <1>2, <4>3, <4>4
        <4>6. Now + due'[t] + pended' = x - 1
          BY <1>2, <3>3, <4>3
        <4>7. QED
          BY <4>5, <4>6
      <3>4. QED
        BY <3>2, <3>3
    <2>5. QED
      BY <1>5, <2>1, <2>3, <2>4 DEF InStep, PastWait
  <1>16. Asked(t)'
    BY <1>3 DEF InTime, Asked
  <1>17. QED
    BY <1>12, <1>13, <1>14, <1>15, <1>16 DEF InTime

LEMMA TickTime ==
  ASSUME Shape, TimeInv, Tick
  PROVE  TimeInv'
  <1> SUFFICES ASSUME NEW t \in Tasks PROVE InTime(t)'
    BY DEF TimeInv
  <1>1. Types /\ InTime(t)
    BY DEF Shape, TimeInv
  <1>2. /\ pended \in 0 .. MaxPended /\ due[t] \in -Lag .. Off /\ due[t] > -Lag
        /\ Width \in Nat /\ Off = Width /\ Lag \in Nat
        /\ due \in [Tasks -> Int]
    BY <1>1, Constants DEF Types, InTime, Tick
  <1>3. due'[t] = IF due[t] = Off THEN Off ELSE due[t] - 1
    BY DEF Tick
  <1>4. due'[t] \in -Lag .. Off
    BY <1>2, <1>3, Constants
  <1>5. CASE susp > 0
    <2>1. /\ pended' = pended + 1 /\ pended \in Nat
          /\ UNCHANGED <<time, list, wakeAt, waiters, ahead, at, state, prev>>
      BY <1>2, <1>5, Constants DEF Tick, lists
    <2>2. due[t] # Off => due'[t] = due[t] - 1
      BY <1>3
    <2>3. due[t] # Off => due'[t] + pended' = due[t] + pended
      <3>1. due[t] \in Int /\ pended \in Int
        BY <1>2, Constants
      <3>2. QED
        BY <2>1, <2>2, <3>1
    <2>4. /\ time.tick \in 0 .. Forever /\ wakeAt[t] \in 0 .. Forever
          /\ at[t].left \in 0 .. Forever /\ Forever = Width - 1
      BY Numbers, Constants
    <2>5. Sleeping(t)'
      <3>1. Sleeping(t)
        BY <1>1 DEF InTime
      <3>2. list[t] \in {"delayed", "overflow"} => due[t] # Off
        BY <1>2, <2>4, <3>1 DEF Sleeping
      <3>3. QED
        BY <2>1, <2>3, <3>1, <3>2 DEF Sleeping
    <2>6. Timed(t)'
      <3>1. Timed(t)
        BY <1>1 DEF InTime
      <3>2. CASE due[t] = Off
        <4>1. at[t].entry = <<>> \/ at[t].left \notin 1 .. Forever - 1
          BY <1>2, <2>4, <3>1, <3>2 DEF Timed, Seen
        <4>2. QED
          BY <2>1, <4>1 DEF Timed
      <3>3. CASE due[t] # Off
        <4>1. Seen(t)' = Seen(t)
          BY <2>1, <2>3, <3>3 DEF Seen
        <4>2. QED
          BY <2>1, <3>1, <4>1 DEF Timed
      <3>4. QED
        BY <3>2, <3>3
    <2>7. due[t] <= 0 => due'[t] <= 0
      BY <1>2, <1>3
    <2>8. Awake(t)'
      BY <1>1, <2>1, <2>7 DEF InTime, Awake, PastWait
    <2>9. Asked(t)'
      BY <1>1, <2>1 DEF InTime, Asked
    <2>10. InStep(t)'
      <3>1. InStep(t)
        BY <1>1 DEF InTime
      <3>2. Periodic(t) => due[t] # Off
        BY <1>2, <3>1 DEF InStep
      <3>3. Periodic(t) => /\ due'[t] + pended' = due[t] + pended
                           /\ time'.tick + due'[t] + pended' = time.tick + due[t] + pended
        <4>1. due[t] \in Int /\ due'[t] \in Int /\ pended' \in Int
          BY <1>2, <1>4, <2>1, Constants
        <4>2. QED
          BY <1>2, <2>1, <2>3, <2>4, <3>2, <4>1
      <3>4. QED
        BY <2>1, <2>7, <3>1, <3>3 DEF InStep, PastWait
    <2>11. QED
      BY <1>4, <2>5, <2>6, <2>8, <2>9, <2>10 DEF InTime
  <1>6. CASE ~(susp > 0)
    <2>1. IncrementTick /\ pended' = pended /\ pended' \in Nat /\ UNCHANGED <<at, state, prev>>
      BY <1>2, <1>6, Constants DEF Tick
    <2>2. due[t] # Off => due'[t] + pended' = due[t] + pended - 1 /\ due'[t] <= due[t]
      <3>1. due[t] \in Int /\ pended \in Int
        BY <1>2, Constants
      <3>2. QED
        BY <1>3, <2>1, <3>1
    <2>3. due[t] = Off => due'[t] = Off
      BY <1>3
    <2>4. QED
      BY <1>4, <2>1, <2>2, <2>3, IncrementTime
  <1>7. QED
    BY <1>5, <1>6

LEMMA CatchUpTime ==
  ASSUME Shape, TimeInv, NEW u \in Tasks, CatchUp(u)
  PROVE  TimeInv'
  <1> SUFFICES ASSUME NEW t \in Tasks PROVE InTime(t)'
    BY DEF TimeInv
  <1>1. /\ pended \in 0 .. MaxPended /\ pended > 0 /\ due[t] \in -Lag .. Off /\ due[t] \in Int
    BY Constants DEF Shape, Types, TimeInv, InTime, CatchUp
  <1>2. /\ pended' = pended - 1 /\ due'[t] = due[t] /\ IncrementTick
        /\ UNCHANGED <<at, state, prev>>
    BY DEF CatchUp
  <1>3. pended' \in Nat /\ due'[t] + pended' = due[t] + pended - 1 /\ due'[t] <= due[t]
    BY <1>1, <1>2, Constants
  <1>4. QED
    BY <1>1, <1>2, <1>3, IncrementTime

(* Actions that neither touch the time nor block. *)
LEMMA OtherTime ==
  ASSUME Shape, TimeInv, NEW t \in Tasks,
         \/ \E m \in Mutexes : Give(t, m)
         \/ \E u \in Tasks : Notify(t, u)
         \/ SwitchContext(t) \/ NotifyFromISR(t)
  PROVE  TimeInv'
  <1> SUFFICES ASSUME NEW u \in Tasks PROVE InTime(u)'
    BY DEF TimeInv
  <1>1. /\ InTime(u) /\ time.next \in Int /\ time.next <= time.next
        /\ state[u] = "waiting" => at[u].pc = "received"
        /\ \A m \in Mutexes : u \in waiters[m] => PastTake(u)
    BY Constants DEF Shape, Types, TimeInv, Blocked
  <1>2. PastTake(u) \/ at[u].pc = "received" => ~PastWait(u)
    BY DEF PastTake, PastWait, Sections
  <1>3. ASSUME NEW m \in Mutexes, Give(t, m) PROVE InTime(u)'
    <2>1. UNCHANGED <<time, wakeAt, pended, at, state, prev, due>>
      BY <1>3 DEF Give
    <2>2. list'[u] = list[u] \/ (list'[u] = "ready" /\ PastTake(u))
      BY <1>1, <1>3, GiveIs DEF Shape, Types
    <2>3. PastTake(u) => at[u].pc # "received"
      BY DEF PastTake, Sections
    <2>4. QED
      BY <1>1, <1>2, <2>1, <2>2, <2>3, TimeKept
  <1>4. ASSUME \/ \E v \in Tasks : Notify(t, v)
               \/ NotifyFromISR(t)
        PROVE  InTime(u)'
    <2>1. UNCHANGED <<time, wakeAt, pended, at, prev, due>>
      BY <1>4 DEF Notify, NotifyFromISR
    <2>2. PICK v \in Tasks : /\ state' = [state EXCEPT ![v] = "received"]
                             /\ \/ list' = list
                                \/ state[v] = "waiting" /\ list' = [list EXCEPT ![v] = "ready"]
      BY <1>4 DEF Notify, NotifyFromISR
    <2>3. \/ list'[u] = list[u]
          \/ list'[u] = "ready" /\ state[u] = "waiting" /\ state'[u] = "received"
      BY <2>2 DEF Shape, Types
    <2>4. state'[u] = "waiting" => state[u] = "waiting"
      BY <2>2 DEF Shape, Types
    <2>5. QED
      BY <1>1, <1>2, <2>1, <2>3, <2>4, TimeKept
  <1>5. ASSUME SwitchContext(t) PROVE InTime(u)'
    <2>1. UNCHANGED <<time, list, wakeAt, pended, at, state, prev, due>>
      BY <1>5 DEF SwitchContext, lists
    <2>2. QED
      BY <1>1, <2>1, TimeKept
  <1>6. QED
    BY <1>3, <1>4, <1>5

LEMMA ReturnTime ==
  ASSUME Shape, TimeInv, NEW t \in Tasks, NEW pc, Runs(t, pc), pc \notin Sections, Return(t),
         \A u \in Tasks : u # t => state'[u] = state[u],
         state'[t] = state[t] \/ state'[t] = "none",
         UNCHANGED <<time, list, wakeAt, pended, prev>>
  PROVE  TimeInv'
  <1> SUFFICES ASSUME NEW u \in Tasks PROVE InTime(u)'
    BY DEF TimeInv
  <1>1. Others(t) /\ at'[t] = Running
    BY ReturnDue DEF Shape
  <1>2. /\ due'[u] = IF u = t /\ ~Periodic(t) THEN Off ELSE due[u]
        /\ list[t] = "ready" /\ pended = 0 /\ at[t].pc = pc /\ InTime(u)
    BY Runner DEF Return, Shape, Types, Runs, TimeInv
  <1>3. CASE u # t
    <2>1. time.next \in Int /\ time.next <= time.next
      BY Constants DEF Shape, Types
    <2>2. QED
      BY <1>1, <1>2, <1>3, <2>1, TimeKept DEF Others
  <1>4. CASE u = t
    <2>1. /\ Running.pc = "run" /\ Running.m = 0 /\ Running.entry = <<>> /\ Running.then = "run"
      BY DEF Running
    <2>2. due'[t] \in -Lag .. Off
      BY <1>2, <1>4, Constants DEF InTime
    <2>3. Sleeping(t)' /\ Timed(t)' /\ Asked(t)' /\ Awake(t)' /\ ~PastWait(t)'
      BY <1>1, <1>2, <2>1 DEF Sleeping, Timed, Asked, Awake, PastWait, Sections
    <2>4. InStep(t)'
      <3>1. SUFFICES ASSUME Periodic(t) PROVE InStep(t)'
        BY DEF InStep
      <3>2. due'[t] = due[t] /\ InStep(t) /\ Awake(t)
        BY <1>2, <1>4, <3>1 DEF InTime
      <3>3. due[t] <= 0
        BY <1>2, <3>1, <3>2 DEF InStep, Awake
      <3>4. QED
        BY <1>1, <2>1, <2>3, <3>1, <3>2, <3>3 DEF InStep
    <2>5. QED
      BY <1>4, <2>2, <2>3, <2>4 DEF InTime
  <1>5. QED
    BY <1>3, <1>4

(* Steps of the running task to another place of the same operation. *)
LEMMA MoveTime ==
  ASSUME Shape, TimeInv, NEW t \in Tasks, Others(t),
         at'[t].m = at[t].m, at'[t].left = at[t].left, at'[t].entry = at[t].entry,
         PastWait(t)' <=> PastWait(t),
         at'[t].pc = "received" <=> at[t].pc = "received",
         at'[t].pc = "expired" \/ (at'[t].pc \in Sections /\ at'[t].then = "expired") =>
           at[t].pc = "expired" \/ (at[t].pc \in Sections /\ at[t].then = "expired"),
         UNCHANGED <<wakeAt, pended, state, prev, due>>,
         \A u \in Tasks : \/ list'[u] = list[u]
                          \/ u \in readied /\ list'[u] = "ready",
         time'.tick = time.tick, time'.overflows = time.overflows, time'.next \in Int,
         \A u \in Tasks : \/ time'.next <= time.next
                          \/ list'[u] = "delayed" => time'.next <= wakeAt[u]
  PROVE  TimeInv'
  <1> SUFFICES ASSUME NEW u \in Tasks PROVE InTime(u)'
    BY DEF TimeInv
  <1>1. InTime(u) /\ Blocked(u) /\ wakeAt[u] \in Int /\ time.next \in Int
    BY Constants DEF TimeInv, Shape, Types
  <1>2. u \in readied => at[u].pc = "received" /\ state[u] = "received" /\ ~PastWait(u)
    BY <1>1 DEF Blocked, PastWait, Sections
  <1>3. \/ list'[u] = list[u]
        \/ /\ list'[u] = "ready" /\ ~PastWait(u)
           /\ at[u].pc = "received" => state'[u] # "waiting"
    BY <1>2
  <1>4. CASE u # t
    BY <1>1, <1>3, <1>4, TimeKept DEF Others
  <1>5. CASE u = t
    <2>1. due'[t] \in -Lag .. Off /\ Asked(t)'
      BY <1>1, <1>5 DEF InTime, Asked
    <2>2. Timed(t)'
      BY <1>1, <1>5 DEF InTime, Timed, Seen
    <2>3. Awake(t)'
      BY <1>1, <1>3, <1>5 DEF InTime, Awake
    <2>4. InStep(t)'
      BY <1>1, <1>5 DEF InTime, InStep
    <2>5. Sleeping(t)'
      BY <1>1, <1>3, <1>5 DEF InTime, Sleeping
    <2>6. QED
      BY <1>5, <2>1, <2>2, <2>3, <2>4, <2>5 DEF InTime
  <1>6. QED
    BY <1>4, <1>5

LEMMA ResumeTime ==
  ASSUME Shape, TimeInv, NEW t \in Tasks,
         ResumeAll(t) \/ Resumed(t) \/ Yield(t) \/ (Expired(t) /\ ~Return(t))
  PROVE  TimeInv'
  <1>1. /\ Types /\ time.next \in Int /\ time.next <= time.next
        /\ at[t].pc \in Sections => at[t].then \in {"try", "expired", "woke"}
    <2>1. Place(t)
      BY DEF Shape
    <2>2. at[t].pc \in Sections => at[t].then \in {"try", "expired", "woke"}
      BY <2>1 DEF Place
    <2>3. QED
      BY <2>2, Constants DEF Shape, Types
  <1>2. CASE ResumeAll(t)
    <2>1. /\ Others(t) /\ at'[t].pc = "catchUp" /\ at'[t].m = at[t].m
          /\ at'[t].left = at[t].left /\ at'[t].entry = at[t].entry
          /\ at'[t].then = at[t].then /\ at[t].pc = "resume"
      BY <1>1, <1>2, GotoAt DEF ResumeAll, Places, Sections, Runs
    <2>2. \A u \in Tasks : list'[u] = list[u] \/ (u \in readied /\ list'[u] = "ready")
      BY <1>2 DEF ResumeAll
    <2> DEFINE n == NextUnblock(list', wakeAt)
    <2>3. n \in 0 .. Forever /\ \A u \in Tasks : list'[u] = "delayed" => n <= wakeAt[u]
      BY <1>1, NextUnblockIs DEF Types
    <2>4. time' = IF readied = {} THEN time ELSE [time EXCEPT !.next = n]
      BY <1>2 DEF ResumeAll
    <2> HIDE DEF n
    <2>5. /\ time'.tick = time.tick /\ time'.overflows = time.overflows
          /\ time'.next = time.next \/ time'.next = n
      BY <1>1, <2>4 DEF Types
    <2>6. /\ time'.next \in Int
          /\ \A u \in Tasks : \/ time'.next <= time.next
                              \/ list'[u] = "delayed" => time'.next <= wakeAt[u]
      BY <1>1, <2>3, <2>5, Constants
    <2>7. UNCHANGED <<wakeAt, pended, state, prev, due>>
      BY <1>2 DEF ResumeAll
    <2>8. PastWait(t)' <=> PastWait(t)
      BY <2>1 DEF PastWait, Sections
    <2>9. QED
      BY <2>1, <2>2, <2>5, <2>6, <2>7, <2>8, MoveTime DEF Sections
  <1>3. ASSUME UNCHANGED <<time, list, wakeAt, pended, state, prev, due>>, Others(t),
               at'[t].m = at[t].m, at'[t].left = at[t].left, at'[t].entry = at[t].entry,
               \/ at[t].pc = "catchUp" /\ at'[t].pc = "yield" /\ at'[t].then = at[t].then
               \/ at[t].pc \in {"catchUp", "yield"} /\ at'[t].pc = at[t].then
               \/ at[t].pc = "expired" /\ at'[t].pc \in {"try", "disinherit"}
        PROVE  TimeInv'
    <2>1. PastWait(t)' <=> PastWait(t)
      BY <1>1, <1>3 DEF PastWait, Sections
    <2>2. QED
      BY <1>1, <1>3, <2>1, MoveTime DEF Sections
  <1>4. CASE Resumed(t)
    <2>1. /\ UNCHANGED <<time, list, wakeAt, pended, state, prev, due>>
          /\ at[t].pc = "catchUp"
      BY <1>4 DEF Resumed, lists, Runs
    <2>2. CASE at' = [at EXCEPT ![t].pc = "yield", ![t].force = 0]
      BY <1>1, <1>3, <2>1, <2>2, ForceAt
    <2>3. CASE Continue(t)
      BY <1>1, <1>3, <2>1, <2>3, ContinueAt
    <2>4. QED
      BY <1>4, <2>2, <2>3 DEF Resumed
  <1>5. CASE Yield(t)
    <2>1. UNCHANGED <<time, list, wakeAt, pended, state, prev, due>> /\ at[t].pc = "yield"
      BY <1>5 DEF Yield, lists, Runs
    <2>2. QED
      BY <1>1, <1>3, <1>5, <2>1, ContinueAt DEF Yield
  <1>6. CASE Expired(t) /\ ~Return(t)
    <2>1. /\ UNCHANGED <<time, list, wakeAt, pended, state, prev, due>> /\ at[t].pc = "expired"
          /\ Goto(t, "try") \/ Goto(t, "disinherit")
      BY <1>6 DEF Expired, lists, Runs
    <2>2. QED
      BY <1>1, <1>3, <2>1, GotoAt DEF Places
  <1>7. QED
    BY <1>2, <1>4, <1>5, <1>6

LEMMA OverTime ==
  ASSUME Shape, TimeInv, NEW t \in Tasks,
         \/ Woke(t) \/ NotifyReceived(t) \/ Disinherit(t)
         \/ Expired(t) /\ Return(t)
         \/ Try(t) /\ Return(t)
  PROVE  TimeInv'
  <1>1. CASE Woke(t)
    BY <1>1, ReturnTime DEF Woke, lists, Sections
  <1>2. CASE NotifyReceived(t)
    <2>1. state' = [state EXCEPT ![t] = "none"] /\ state \in [Tasks -> {"none", "waiting", "received"}]
      BY <1>2 DEF NotifyReceived, Shape, Types
    <2>2. QED
      BY <1>2, <2>1, ReturnTime DEF NotifyReceived, lists, Sections
  <1>3. CASE Disinherit(t)
    BY <1>3, ReturnTime DEF Disinherit, lists, Sections
  <1>4. CASE Expired(t) /\ Return(t)
    BY <1>4, ReturnTime DEF Expired, lists, Sections
  <1>5. CASE Try(t) /\ Return(t)
    BY <1>5, ReturnTime DEF Try, lists, Sections
  <1>6. QED
    BY <1>1, <1>2, <1>3, <1>4, <1>5

LEMMA CallTakeTime ==
  ASSUME Shape, TimeInv, NEW t \in Tasks, NEW m \in Mutexes, NEW n \in Ticks(t, "take"),
         CallTake(t, m, n)
  PROVE  TimeInv'
  <1> SUFFICES ASSUME NEW u \in Tasks PROVE InTime(u)'
    BY DEF TimeInv
  <1>0. n \in 0 .. Forever
    BY CallTicks
  <1>1. /\ Others(t)
        /\ at'[t].pc = "try" /\ at'[t].m = m /\ at'[t].left = n
        /\ at'[t].entry = <<>> /\ at'[t].then = "run"
    BY <1>0, CallTakeAt DEF Shape
  <1>2. /\ UNCHANGED <<time, list, wakeAt, pended, state, prev, due>>
        /\ time.next \in Int /\ time.next <= time.next
    BY Constants DEF CallTake, lists, Shape, Types
  <1>3. CASE u # t
    BY <1>1, <1>2, <1>3, TimeKept DEF Others, TimeInv
  <1>4. CASE u = t
    <2>1. list[t] = "ready" /\ InTime(t) /\ at[t].pc = "run"
      BY Runner DEF CallTake, Sections, TimeInv, Runs
    <2>2. Sleeping(t)' /\ Timed(t)' /\ Awake(t)' /\ ~PastWait(t) /\ ~PastWait(t)'
      BY <1>1, <1>2, <2>1 DEF Sleeping, Timed, Awake, PastWait, Sections
    <2>3. Asked(t)'
      BY <1>1, CallTicks DEF Asked
    <2>4. InStep(t)'
      <3>1. Periodic(t) => n \in {0, Forever}
        BY CallTicks
      <3>2. QED
        BY <1>1, <1>2, <2>1, <2>2, <3>1 DEF InTime, InStep
    <2>5. QED
      BY <1>2, <1>4, <2>1, <2>2, <2>3, <2>4 DEF InTime
  <1>5. QED
    BY <1>3, <1>4

(* The ticks between the entry time and now, for a task that has set one. *)
LEMMA SeenIs ==
  ASSUME Shape, NEW t \in Tasks, InTime(t), at[t].entry # <<>>, at[t].left \in 1 .. Forever - 1
  PROVE  /\ TimedOut(t) <=> Seen(t) >= at[t].left
         /\ ~TimedOut(t) => Elapsed(t) = Seen(t)
         /\ Seen(t) \in Nat
  <1>1. /\ time.tick \in 0 .. Forever /\ Width \in Nat /\ Forever = Width - 1
        /\ at[t].entry[2] \in 0 .. Forever /\ at[t].left # Forever
        /\ Elapsed(t) = IF time.tick >= at[t].entry[2] THEN time.tick - at[t].entry[2]
                        ELSE time.tick - at[t].entry[2] + Width
    BY Numbers, Constants, ElapsedIs DEF Shape
  <1> DEFINE x == Seen(t)
             e == at[t].entry[2]
             left == at[t].left
  <1>2. /\ left + Lag <= Width /\ x >= 0
        /\ \/ time.tick = e + x /\ time.overflows = at[t].entry[1]
           \/ time.tick = e + x - Width /\ time.overflows # at[t].entry[1]
    BY DEF InTime, Timed
  <1>3. x \in Int
    <2>1. due[t] \in Int /\ pended \in Int /\ left \in Int
      BY Numbers, Constants
    <2>2. QED
      BY <2>1 DEF Seen
  <1>4. TimedOut(t) <=> \/ time.overflows # at[t].entry[1] /\ time.tick >= e
                        \/ Elapsed(t) >= left
    BY <1>1 DEF TimedOut
  <1> HIDE DEF x, e, left
  <1>5. left \in 1 .. Forever - 1 /\ e \in 0 .. Forever
    BY <1>1 DEF left, e
  <1>6. Elapsed(t) = IF time.tick >= e THEN time.tick - e ELSE time.tick - e + Width
    BY <1>1 DEF e
  <1>7. (TimedOut(t) <=> x >= left) /\ (~TimedOut(t) => Elapsed(t) = x)
    <2>1. CASE time.tick = e + x /\ time.overflows = at[t].entry[1]
      BY <1>1, <1>2, <1>3, <1>4, <1>5, <1>6, <2>1
    <2>2. CASE time.tick = e + x - Width /\ time.overflows # at[t].entry[1]
      BY <1>1, <1>2, <1>3, <1>4, <1>5, <1>6, <2>2
    <2>3. QED
      BY <1>2, <2>1, <2>2
  <1>8. QED
    BY <1>2, <1>3, <1>7 DEF x, left

LEMMA TryTime ==
  ASSUME Shape, TimeInv, NEW t \in Tasks, Try(t), ~Return(t)
  PROVE  TimeInv'
  <1> SUFFICES ASSUME NEW u \in Tasks PROVE InTime(u)'
    BY DEF TimeInv
  <1>1. /\ owner[at[t].m] # NoTask /\ at[t].left > 0 /\ Types
        /\ at' = [at EXCEPT ![t].pc = "check",
                    ![t].entry = IF @ = <<>> THEN <<time.overflows, time.tick>> ELSE @]
        /\ due' = IF at[t].entry = <<>> /\ at[t].left < Forever
                    THEN [due EXCEPT ![t] = at[t].left] ELSE due
        /\ UNCHANGED <<time, list, wakeAt, pended, state, prev>>
    BY DEF Try, lists, Shape
  <1>2. /\ Others(t)
        /\ at'[t].pc = "check" /\ at'[t].m = at[t].m /\ at'[t].left = at[t].left
        /\ at'[t].entry = IF at[t].entry = <<>> THEN <<time.overflows, time.tick>>
                          ELSE at[t].entry
        /\ at'[t].then = at[t].then
    <2>1. at'[t].pc = "check" /\ Running.pc = "run"
      BY <1>1 DEF Types, Running
    <2>2. QED
      BY <1>1, <2>1, TryAt
  <1>3. /\ time.next \in Int /\ time.next <= time.next /\ pended = 0 /\ list[t] = "ready"
        /\ at[t].pc = "try" /\ at[t].then = "run" /\ at[t].m # 0 /\ InTime(t)
        /\ at[t].left \in 0 .. Forever
    <2>1. Runs(t, "try") /\ "try" \notin Sections
      BY DEF Try, Sections
    <2>2. pended = 0 /\ list[t] = "ready"
      BY <2>1, Runner
    <2>3. at[t].pc = "try" /\ at[t].then = "run" /\ at[t].m # 0
      BY <2>1 DEF Shape, Place, Runs, Sections
    <2>4. QED
      BY <1>1, <2>2, <2>3, Numbers, Constants DEF TimeInv, Types
  <1>4. CASE u # t
    <2>1. due'[u] = due[u]
      BY <1>1, <1>4 DEF Types
    <2>2. QED
      BY <1>1, <1>2, <1>3, <1>4, <2>1, TimeKept DEF Others, TimeInv
  <1>5. CASE u = t
    <2>1. Sleeping(t)' /\ Awake(t)' /\ ~PastWait(t) /\ ~PastWait(t)' /\ Asked(t)'
      BY <1>1, <1>2, <1>3 DEF Sleeping, Awake, PastWait, Sections, InTime, Asked
    <2>2. CASE at[t].entry = <<>> /\ at[t].left < Forever
      <3>1. due'[t] = at[t].left
        BY <1>1, <2>2 DEF Types
      <3>2. at'[t].entry[2] = time.tick /\ at'[t].entry[1] = time.overflows
        BY <1>2, <2>2
      <3>3. Seen(t)' = 0
        BY <1>1, <1>2, <1>3, <3>1 DEF Seen
      <3>4. time.tick = time.tick + 0 /\ 0 >= 0
        BY Numbers, Constants
      <3>5. at[t].left + Lag <= Width
        BY <1>3, <2>2 DEF InTime, Asked
      <3>6. Timed(t)'
        BY <1>1, <1>2, <3>2, <3>3, <3>4, <3>5 DEF Timed
      <3>7. ~Periodic(t)
        BY <1>1, <1>3, <2>2, Constants DEF InTime, InStep
      <3>8. InStep(t)'
        BY <3>7 DEF InStep
      <3>9. due'[t] \in -Lag .. Off
        BY <1>3, <3>1, Constants
      <3>10. QED
        BY <1>5, <2>1, <3>6, <3>8, <3>9 DEF InTime
    <2>3. CASE ~(at[t].entry = <<>> /\ at[t].left < Forever)
      <3>1. due' = due
        BY <1>1, <2>3
      <3>2. at[t].left \in 1 .. Forever - 1 => at'[t].entry = at[t].entry
        BY <1>2, <2>3, Constants
      <3>3. Timed(t)'
        <4>1. SUFFICES ASSUME at[t].left \in 1 .. Forever - 1, at[t].entry # <<>>
                       PROVE  Timed(t)'
          BY <1>2, <3>2 DEF Timed
        <4>2. Timed(t) /\ Seen(t)' = Seen(t)
          BY <1>1, <1>2, <1>3, <3>1 DEF InTime, Seen
        <4>3. QED
          BY <1>1, <1>2, <3>2, <4>1, <4>2 DEF Timed
      <3>4. InStep(t)'
        BY <1>1, <1>2, <1>3, <2>1, <3>1 DEF InTime, InStep
      <3>5. QED
        BY <1>3, <1>5, <2>1, <3>1, <3>3, <3>4 DEF InTime
    <2>4. QED
      BY <2>2, <2>3
  <1>6. QED
    BY <1>4, <1>5

(* A task that blocks, or that need not, takes over what is left of its time. *)
LEMMA BlockTime ==
  ASSUME Shape, TimeInv, NEW t \in Tasks, Block(t) \/ DoNotBlock(t)
  PROVE  TimeInv'
  <1> SUFFICES ASSUME NEW u \in Tasks PROVE InTime(u)'
    BY DEF TimeInv
  <1>r. Runs(t, "check") /\ "check" \notin Sections
    BY DEF Block, DoNotBlock, Sections
  <1>1. pended = 0 /\ list[t] = "ready" /\ Types
    BY <1>r, Runner DEF Shape
  <1>2. /\ at[t].pc = "check" /\ Place(t) /\ at[t].m # 0 /\ at[t].entry # <<>>
        /\ at[t].left > 0 /\ InTime(t)
    BY <1>r DEF Shape, Place, Runs, TimeInv
  <1>3. /\ time.tick \in 0 .. Forever /\ time.next \in Int /\ due[t] \in Int
        /\ at[t].left \in 1 .. Forever /\ Width \in Nat /\ Forever = Width - 1
        /\ Lag \in 0 .. Width - 1
    BY <1>2, Numbers, Constants
  <1>4. UNCHANGED <<pended, state, prev, due>>
    BY DEF Block, DoNotBlock
  <1> DEFINE r == StillWaits(t)
  <1>5. ASSUME ~TimedOut(t)
        PROVE  /\ r.left \in 1 .. Forever
               /\ at[t].left = Forever => r.left = Forever
               /\ at[t].left # Forever => /\ r.left = due[t] /\ r.left <= at[t].left
                                          /\ r.entry = <<time.overflows, time.tick>>
                                          /\ r.left < Forever
    <2>1. /\ r.left \in 1 .. Forever
          /\ r.left = IF at[t].left = Forever THEN Forever ELSE at[t].left - Elapsed(t)
          /\ r.entry = IF at[t].left = Forever THEN at[t].entry
                       ELSE <<time.overflows, time.tick>>
      BY <1>1, <1>2, <1>5, StillWaitsIs
    <2>2. CASE at[t].left # Forever
      <3>1. Elapsed(t) = Seen(t) /\ Seen(t) \in Nat
        BY <1>2, <1>3, <1>5, <2>2, SeenIs
      <3>2. Seen(t) = at[t].left - due[t]
        BY <1>1, <1>3 DEF Seen
      <3>3. r.left = due[t]
        BY <1>3, <2>1, <2>2, <3>1, <3>2
      <3>4. r.left <= at[t].left
        BY <1>3, <2>1, <2>2, <3>1
      <3>5. QED
        BY <1>3, <2>1, <2>2, <3>3, <3>4
    <2>3. QED
      BY <2>1, <2>2
  (* The state after a step that has not timed out. *)
  <1>6. ASSUME ~TimedOut(t), at'[t].pc = "resume", at'[t].then = "try", at'[t].m = at[t].m,
               at'[t].left = r.left, at'[t].entry = r.entry, Sleeping(t)',
               time'.tick = time.tick, time'.overflows = time.overflows
        PROVE  InTime(t)'
    <2>1. Awake(t)' /\ ~PastWait(t)' /\ ~PastWait(t)
      BY <1>2, <1>6 DEF Awake, PastWait, Sections
    <2>2. Asked(t)'
      <3>1. at[t].left # Forever => at[t].left + Lag <= Width
        BY <1>2, <1>3 DEF InTime, Asked
      <3>2. r.left < Forever => r.left + Lag <= Width
        BY <1>3, <1>5, <1>6, <3>1
      <3>3. QED
        BY <1>6, <3>2 DEF Asked
    <2>3. Timed(t)'
      <3>1. SUFFICES ASSUME r.left \in 1 .. Forever - 1 PROVE Timed(t)'
        BY <1>6 DEF Timed
      <3>2. at[t].left # Forever
        BY <1>3, <1>5, <1>6, <3>1
      <3>3. r.left = due[t] /\ at'[t].entry = <<time.overflows, time.tick>>
        BY <1>5, <1>6, <3>2
      <3>4. Seen(t)' = 0
        BY <1>1, <1>3, <1>4, <1>6, <3>3 DEF Seen
      <3>5. at'[t].left + Lag <= Width
        BY <1>2, <1>3, <1>6, <2>2, <3>1 DEF Asked, InTime
      <3>6. at'[t].entry[1] = time.overflows /\ at'[t].entry[2] = time.tick
        BY <3>3
      <3>7. time.tick = time.tick + 0 /\ 0 >= 0
        BY <1>3
      <3>8. QED
        BY <1>6, <3>4, <3>5, <3>6, <3>7 DEF Timed
    <2>4. InStep(t)'
      <3>1. Periodic(t) => at[t].left = Forever
        BY <1>2, <1>3 DEF InTime, InStep
      <3>2. QED
        BY <1>2, <1>4, <1>5, <1>6, <2>1, <3>1 DEF InTime, InStep
    <2>5. QED
      BY <1>2, <1>4, <1>6, <2>1, <2>2, <2>3, <2>4 DEF InTime
  <1>7. CASE Block(t)
    <2>1. ~TimedOut(t) /\ AddOrSuspend(t, r.left)
      BY <1>7 DEF Block
    <2>2. /\ Others(t) /\ at'[t].pc = "resume" /\ at'[t].then = "try"
          /\ at'[t].m = at[t].m /\ at'[t].left = r.left /\ at'[t].entry = r.entry
      BY <1>1, <1>2, <1>7, BlockAt
    <2>3. r.left \in 0 .. Forever /\ r.left > 0
      BY <1>5, <2>1, Constants
    <2> DEFINE left == r.left
    <2>4. left \in 0 .. Forever /\ AddOrSuspend(t, left)
      BY <2>1, <2>3
    <2> HIDE DEF left
    <2>5. /\ time' \in [tick : 0 .. Forever, overflows : 0 .. 1, next : 0 .. Forever]
          /\ \A v \in Tasks : v # t => list'[v] = list[v] /\ wakeAt'[v] = wakeAt[v]
          /\ time'.tick = time.tick /\ time'.overflows = time.overflows
          /\ time'.next <= time.next
          /\ left = Forever => list'[t] = "suspended"
          /\ left # Forever =>
               IF time.tick + left < Width
                 THEN list'[t] = "delayed" /\ wakeAt'[t] = time.tick + left
                      /\ time'.next <= wakeAt'[t]
                 ELSE list'[t] = "overflow" /\ wakeAt'[t] = time.tick + left - Width
      BY <1>1, <2>4, AddOrSuspendIs
    <2>6. CASE u # t
      <3>1. time'.next \in Int
        BY <2>5, Constants
      <3>2. QED
        BY <1>4, <2>2, <2>5, <2>6, <3>1, TimeKept DEF Others, TimeInv
    <2>7. CASE u = t
      <3>1. left # Forever => due[t] = left /\ left \in 1 .. Forever - 1
        BY <1>3, <1>5, <2>1, <2>3 DEF left
      <3>2. Sleeping(t)'
        <4>1. CASE left = Forever
          BY <2>5, <4>1 DEF Sleeping
        <4>2. CASE left # Forever
          BY <1>1, <1>3, <1>4, <2>5, <3>1, <4>2 DEF Sleeping
        <4>3. QED
          BY <4>1, <4>2
      <3>3. QED
        BY <1>6, <2>1, <2>2, <2>5, <2>7, <3>2
    <2>8. QED
      BY <2>6, <2>7
  <1>8. CASE DoNotBlock(t)
    <2>1. UNCHANGED <<time, list, wakeAt>> /\ time.next <= time.next
      BY <1>3, <1>8 DEF DoNotBlock, lists
    <2>2. /\ Others(t) /\ at'[t].pc = "resume" /\ at'[t].m = at[t].m
          /\ \/ /\ ~TimedOut(t) /\ at'[t].then = "try"
                /\ at'[t].left = r.left /\ at'[t].entry = r.entry
             \/ TimedOut(t) /\ at'[t].then = "expired" /\ at'[t].left = 0
      BY <1>1, <1>2, <1>8, DoNotBlockAt
    <2>3. CASE u # t
      BY <1>3, <1>4, <2>1, <2>2, <2>3, TimeKept DEF Others, TimeInv
    <2>4. CASE u = t
      <3>1. Sleeping(t)'
        BY <1>1, <2>1 DEF Sleeping
      <3>2. CASE ~TimedOut(t)
        BY <1>6, <2>1, <2>2, <2>4, <3>1, <3>2
      <3>3. CASE TimedOut(t)
        <4>1. at'[t].then = "expired" /\ at'[t].left = 0
          BY <2>2, <3>3
        <4>2. due[t] <= 0
          <5>1. at[t].left # Forever
            BY <3>3 DEF TimedOut
          <5>2. Seen(t) >= at[t].left
            BY <1>2, <1>3, <3>3, <5>1, SeenIs
          <5>3. Seen(t) = at[t].left - due[t]
            BY <1>1, <1>3 DEF Seen
          <5>4. QED
            BY <1>3, <5>2, <5>3
        <4>3. Awake(t)' /\ ~PastWait(t)' /\ ~PastWait(t)
          BY <1>2, <1>4, <2>2, <4>1, <4>2 DEF Awake, PastWait, Sections
        <4>4. Timed(t)' /\ Asked(t)'
          BY <1>3, <4>1 DEF Timed, Asked
        <4>5. InStep(t)'
          BY <1>2, <1>4, <2>1, <2>2, <4>1, <4>2 DEF InTime, InStep
        <4>6. QED
          BY <1>2, <1>4, <2>4, <3>1, <4>3, <4>4, <4>5 DEF InTime
      <3>4. QED
        BY <3>2, <3>3
    <2>5. QED
      BY <2>3, <2>4
  <1>9. QED
    BY <1>7, <1>8

(* The state of a task that has begun to wait for n ticks. *)
LEMMA WaitTime ==
  ASSUME Shape, TimeInv, NEW t \in Tasks, NEW n \in 1 .. Forever, AddToDelayed(t, n), pended = 0,
         Others(t), UNCHANGED pended, due'[t] = n,
         \A u \in Tasks : u # t => due'[u] = due[u] /\ prev'[u] = prev[u] /\ state'[u] = state[u]
  PROVE  /\ Sleeping(t)' /\ list'[t] # "ready" /\ time'.tick = time.tick
         /\ \A u \in Tasks : u # t => InTime(u)'
  <1>1. n \in 0 .. Forever /\ Types /\ time.tick \in 0 .. Forever /\ Forever = Width - 1 /\ Width \in Nat
    BY Constants DEF Shape, Types
  <1>2. /\ time' \in [tick : 0 .. Forever, overflows : 0 .. 1, next : 0 .. Forever]
        /\ \A v \in Tasks : v # t => list'[v] = list[v] /\ wakeAt'[v] = wakeAt[v]
        /\ time'.tick = time.tick /\ time'.overflows = time.overflows
        /\ time'.next <= time.next
        /\ IF time.tick + n < Width
             THEN list'[t] = "delayed" /\ wakeAt'[t] = time.tick + n
                  /\ time'.next <= wakeAt'[t]
             ELSE list'[t] = "overflow" /\ wakeAt'[t] = time.tick + n - Width
    BY <1>1, AddToDelayedIs
  <1>3. Sleeping(t)' /\ list'[t] # "ready"
    BY <1>1, <1>2 DEF Sleeping
  <1>4. ASSUME NEW u \in Tasks, u # t PROVE InTime(u)'
    <2>1. time'.next \in Int
      BY <1>2, Constants
    <2>2. QED
      BY <1>2, <1>4, <2>1, TimeKept DEF Others, TimeInv
  <1>5. QED
    BY <1>2, <1>3, <1>4

LEMMA DelayTime ==
  ASSUME Shape, TimeInv, NEW t \in Tasks, NEW n \in Ticks(t, "delay"), Delay(t, n)
  PROVE  TimeInv'
  <1> SUFFICES ASSUME NEW u \in Tasks PROVE InTime(u)'
    BY DEF TimeInv
  <1>1. /\ n \in 0 .. Forever /\ ~Periodic(t) /\ Types /\ Runs(t, "run")
        /\ time.next \in Int /\ time.next <= time.next /\ due'[t] = n
        /\ \A v \in Tasks : v # t => due'[v] = due[v]
        /\ UNCHANGED <<pended, state, prev>>
    BY CallTicks, Constants DEF Shape, Delay, Types
  <1>2. at[t] = Running /\ list[t] = "ready" /\ pended = 0
    BY <1>1, Runner DEF Shape, Place, Sections, Runs
  <1>3. /\ Others(t) /\ at'[t].pc \in {"yield", "resume"} /\ at'[t].m = 0 /\ at'[t].left = Forever
        /\ at'[t].entry = <<>> /\ at'[t].then = "woke"
    BY <1>1, <1>2, SleepAt DEF Delay
  <1>4. ASSUME Sleeping(t)', list'[t] = "ready" => n = 0 PROVE InTime(t)'
    <2>1. Timed(t)' /\ Asked(t)' /\ InStep(t)'
      BY <1>1, <1>3 DEF Timed, Asked, InStep
    <2>2. Awake(t)'
      BY <1>1, <1>3, <1>4 DEF Awake
    <2>3. due'[t] \in -Lag .. Off
      BY <1>1, Constants
    <2>4. QED
      BY <1>4, <2>1, <2>2, <2>3 DEF InTime
  <1>5. CASE n = 0
    <2>1. UNCHANGED <<time, list, wakeAt>>
      BY <1>5 DEF Delay, lists
    <2>2. Sleeping(t)'
      BY <1>2, <2>1 DEF Sleeping
    <2>3. QED
      BY <1>1, <1>3, <1>4, <1>5, <2>1, <2>2, TimeKept DEF Others, TimeInv
  <1>6. CASE n # 0
    <2>1. AddToDelayed(t, n) /\ n \in 1 .. Forever
      BY <1>1, <1>6, Constants DEF Delay
    <2>2. /\ Sleeping(t)' /\ list'[t] # "ready"
          /\ \A v \in Tasks : v # t => InTime(v)'
      BY <1>1, <1>2, <1>3, <2>1, WaitTime
    <2>3. QED
      BY <1>4, <2>2
  <1>7. QED
    BY <1>5, <1>6

LEMMA NotifyWaitTime ==
  ASSUME Shape, TimeInv, NEW t \in Tasks, NEW n \in Ticks(t, "wait"), NotifyWait(t, n)
  PROVE  TimeInv'
  <1> SUFFICES ASSUME NEW u \in Tasks PROVE InTime(u)'
    BY DEF TimeInv
  <1>1. /\ n \in 0 .. Forever /\ Types /\ Runs(t, "run") /\ InTime(t)
        /\ Periodic(t) => n = Forever
        /\ time.next \in Int /\ time.next <= time.next
        /\ UNCHANGED <<pended, prev>>
    BY CallTicks, Constants DEF Shape, NotifyWait, Types, TimeInv
  <1>2. at[t] = Running /\ at[t].pc = "run" /\ list[t] = "ready" /\ pended = 0
    BY <1>1, Runner DEF Shape, Place, Sections, Runs
  <1>3. /\ Others(t) /\ at'[t].pc = "received" /\ at'[t].m = 0
        /\ at'[t].entry = <<>> /\ at'[t].then = "run"
    BY <1>1, NotifyWaitAt DEF Shape
  <1>4. /\ due'[t] = IF StartsWaiting(t) /\ n < Forever THEN n ELSE due[t]
        /\ \A v \in Tasks : v # t => due'[v] = due[v] /\ state'[v] = state[v]
        /\ state'[t] = IF StartsWaiting(t) THEN "waiting" ELSE "received"
    BY <1>1 DEF NotifyWait, Types, StartsWaiting
  <1>5. ASSUME Sleeping(t)', list'[t] = "ready" /\ StartsWaiting(t) => n = 0,
               time'.tick = time.tick
        PROVE  InTime(t)'
    <2>1. Timed(t)' /\ Asked(t)' /\ ~PastWait(t)' /\ ~PastWait(t)
      BY <1>2, <1>3 DEF Timed, Asked, PastWait, Sections
    <2>2. Awake(t)'
      <3>1. n = 0 => n < Forever /\ n <= 0
        BY Constants
      <3>2. at'[t].pc # "expired" /\ at'[t].pc \notin Sections
        BY <1>3 DEF Sections
      <3>3. QED
        BY <1>3, <1>4, <1>5, <2>1, <3>1, <3>2 DEF Awake
    <2>3. due'[t] \in -Lag .. Off
      BY <1>1, <1>4, Constants DEF InTime
    <2>4. InStep(t)'
      <3>1. SUFFICES ASSUME Periodic(t) PROVE InStep(t)'
        BY DEF InStep
      <3>2. due'[t] = due[t]
        BY <1>1, <1>4, <3>1, Constants
      <3>3. InStep(t)
        BY <1>1 DEF InTime
      <3>4. QED
        BY <1>1, <1>3, <1>5, <2>1, <3>1, <3>2, <3>3 DEF InStep
    <2>5. QED
      BY <1>5, <2>1, <2>2, <2>3, <2>4 DEF InTime
  <1>6. CASE UNCHANGED <<time, list, wakeAt>>
    <2>1. StartsWaiting(t) => n = 0
      <3>1. ASSUME StartsWaiting(t), n # 0 PROVE FALSE
        <4>1. AddOrSuspend(t, n)
          BY <1>1, <3>1, Constants DEF NotifyWait
        <4>2. list'[t] # "ready"
          BY <1>1, <4>1, AddOrSuspendIs
        <4>3. QED
          BY <1>2, <1>6, <4>2
      <3>2. QED
        BY <3>1
    <2>2. Sleeping(t)'
      BY <1>2, <1>6 DEF Sleeping
    <2>3. CASE u # t
      BY <1>1, <1>3, <1>4, <1>6, <2>3, TimeKept DEF Others, TimeInv
    <2>4. QED
      BY <1>5, <1>6, <2>1, <2>2, <2>3
  <1>7. CASE StartsWaiting(t) /\ n > 0 /\ AddOrSuspend(t, n)
    <2>1. CASE n = Forever
      <3>1. UNCHANGED <<time, wakeAt>> /\ list' = [list EXCEPT ![t] = "suspended"]
        BY <1>7, <2>1 DEF AddOrSuspend
      <3>2. /\ list'[t] = "suspended" /\ Sleeping(t)'
            /\ \A v \in Tasks : v # t => list'[v] = list[v]
        BY <1>1, <3>1 DEF Sleeping, Types
      <3>3. CASE u # t
        BY <1>1, <1>3, <1>4, <3>1, <3>2, <3>3, TimeKept DEF Others, TimeInv
      <3>4. QED
        BY <1>5, <3>1, <3>2, <3>3
    <2>2. CASE n # Forever
      <3>1. /\ AddToDelayed(t, n) /\ n \in 1 .. Forever /\ due'[t] = n
        BY <1>1, <1>4, <1>7, <2>2, Constants DEF AddOrSuspend
      <3>2. /\ Sleeping(t)' /\ list'[t] # "ready" /\ time'.tick = time.tick
            /\ \A v \in Tasks : v # t => InTime(v)'
        BY <1>1, <1>2, <1>3, <1>4, <3>1, WaitTime
      <3>3. QED
        BY <1>5, <3>2
    <2>3. QED
      BY <2>1, <2>2
  <1>8. QED
    BY <1>6, <1>7 DEF NotifyWait

(* vTaskDelayUntil finds out whether the time to wake is ahead, and how far. *)
LEMMA UntilIs ==
  ASSUME NEW tick \in 0 .. Forever, NEW last \in 0 .. Forever, NEW d \in -Lag .. 0,
         NEW n \in 1 .. Forever - 1, last - (tick + d) \in {0, Width, -Width},
         NEW wake, wake = (last + n) % Width
  PROVE  /\ wake \in 0 .. Forever
         /\ (IF tick < last THEN wake < last /\ wake > tick
                            ELSE wake < last \/ wake > tick) <=> d + n > 0
         /\ d + n > 0 => (wake - tick) % Width = d + n
         /\ wake - (tick + (d + n)) \in {0, Width, -Width}
  <1>1. /\ Width \in Nat /\ Width >= 2 /\ Forever = Width - 1 /\ Lag \in 0 .. Width - 1
        /\ n \in 0 .. Forever
    BY Constants
  <1>2. wake \in 0 .. Forever /\ wake = IF last + n < Width THEN last + n ELSE last + n - Width
    BY <1>1, ModIs
  <1>3. (wake - tick) % Width = IF wake >= tick THEN wake - tick ELSE wake - tick + Width
    BY <1>2, ModIs
  <1>4. last = tick + d \/ last = tick + d + Width
    BY <1>1
  <1>5. /\ (IF tick < last THEN wake < last /\ wake > tick
                            ELSE wake < last \/ wake > tick) <=> d + n > 0
        /\ d + n > 0 => wake = tick + d + n \/ wake = tick + d + n - Width
        /\ wake - (tick + (d + n)) \in {0, Width, -Width}
    <2>1. CASE last = tick + d
      BY <1>1, <1>2, <2>1
    <2>2. CASE last = tick + d + Width
      BY <1>1, <1>2, <2>2
    <2>3. QED
      BY <1>4, <2>1, <2>2
  <1>6. d + n > 0 => (wake - tick) % Width = d + n
    <2> DEFINE z == (wake - tick) % Width
    <2>1. z = IF wake >= tick THEN wake - tick ELSE wake - tick + Width
      BY <1>3
    <2> HIDE DEF z
    <2>2. d + n > 0 => z = d + n
      BY <1>1, <1>2, <1>5, <2>1
    <2>3. QED
      BY <2>2 DEF z
  <1>7. QED
    BY <1>2, <1>5, <1>6

LEMMA DelayUntilTime ==
  ASSUME Shape, TimeInv, NEW t \in Tasks, NEW n \in Ticks(t, "until"), DelayUntil(t, n)
  PROVE  TimeInv'
  <1> SUFFICES ASSUME NEW u \in Tasks PROVE InTime(u)'
    BY DEF TimeInv
  <1> DEFINE wake == (prev[t] + n) % Width
             d == due[t]
  <1>1. /\ n \in 1 .. Forever - 1 /\ Types /\ Runs(t, "run") /\ InTime(t) /\ Periodic(t)
        /\ UNCHANGED <<pended, state>> /\ time.next \in Int /\ time.next <= time.next
        /\ at' = [at EXCEPT ![t] = Suspended(@, "woke", 1)]
    BY CallTicks, Constants DEF Shape, DelayUntil, TimeInv, Periodic, Types
  <1>2. at[t] = Running /\ at[t].pc = "run" /\ list[t] = "ready" /\ pended = 0
    BY <1>1, Runner DEF Shape, Place, Sections, Runs
  <1>3. /\ Others(t) /\ at'[t].pc \in {"yield", "resume"} /\ at'[t].m = 0 /\ at'[t].left = Forever
        /\ at'[t].entry = <<>> /\ at'[t].then = "woke"
    BY <1>1, <1>2, SleepAt
  <1>4. /\ time.tick \in 0 .. Forever /\ prev[t] \in 0 .. Forever /\ due[t] \in Int
    BY Numbers
  <1>5. /\ d \in -Lag .. 0
        /\ prev[t] - (time.tick + d) \in {0, Width, -Width}
    <2>1. ~PastWait(t)
      BY <1>2 DEF PastWait, Sections
    <2>2. /\ d <= 0 /\ d \in -Lag .. Off
          /\ prev[t] - (time.tick + d + pended) \in {0, Width, -Width}
      BY <1>1, <2>1 DEF InTime, InStep
    <2>3. time.tick + d + pended = time.tick + d
      BY <1>2, <1>4, Constants
    <2>4. QED
      BY <1>4, <2>2, <2>3, Constants
  <1>6. /\ prev' = [prev EXCEPT ![t] = wake] /\ due' = [due EXCEPT ![t] = d + n]
        /\ IF ShouldDelay(wake, prev[t])
             THEN AddToDelayed(t, (wake - time.tick) % Width)
             ELSE UNCHANGED <<time, list, wakeAt>>
    BY DEF DelayUntil
  <1>7. /\ wake \in 0 .. Forever
        /\ (IF time.tick < prev[t] THEN wake < prev[t] /\ wake > time.tick
              ELSE wake < prev[t] \/ wake > time.tick) <=> d + n > 0
        /\ d + n > 0 => (wake - time.tick) % Width = d + n
        /\ wake - (time.tick + (d + n)) \in {0, Width, -Width}
    BY <1>1, <1>4, <1>5, UntilIs
  <1> HIDE DEF wake, d
  <1>8. ShouldDelay(wake, prev[t]) <=> d + n > 0
    BY <1>7 DEF ShouldDelay
  <1>9. /\ prev'[t] = wake /\ due'[t] = d + n
        /\ \A v \in Tasks : v # t => due'[v] = due[v] /\ prev'[v] = prev[v]
    BY <1>1, <1>6 DEF Types
  <1>10. ASSUME Sleeping(t)', list'[t] = "ready" => d + n <= 0, time'.tick = time.tick
         PROVE  InTime(t)'
    <2>1. Timed(t)' /\ Asked(t)'
      BY <1>3 DEF Timed, Asked
    <2>2. Awake(t)'
      BY <1>3, <1>9, <1>10 DEF Awake
    <2>3. due'[t] \in -Lag .. Off
      BY <1>1, <1>5, <1>9, Constants
    <2>4. InStep(t)'
      <3>1. PastWait(t)'
        BY <1>3 DEF PastWait, Sections
      <3>2. due'[t] + pended' <= Width - 2
        BY <1>1, <1>2, <1>5, <1>9, Constants
      <3>3. time'.tick + due'[t] + pended' = time.tick + (d + n)
        BY <1>1, <1>2, <1>4, <1>5, <1>9, <1>10, Constants
      <3>4. prev'[t] - (time'.tick + due'[t] + pended') \in {0, Width, -Width}
        BY <1>7, <1>9, <3>3
      <3>5. QED
        BY <1>3, <3>1, <3>2, <3>4 DEF InStep
    <2>5. QED
      BY <1>10, <2>1, <2>2, <2>3, <2>4 DEF InTime
  <1>11. CASE d + n > 0
    <2>1. AddToDelayed(t, d + n) /\ d + n \in 1 .. Forever
      BY <1>1, <1>5, <1>6, <1>7, <1>8, <1>11, Constants
    <2>2. /\ Sleeping(t)' /\ list'[t] # "ready" /\ time'.tick = time.tick
          /\ \A v \in Tasks : v # t => InTime(v)'
      BY <1>1, <1>2, <1>3, <1>9, <2>1, WaitTime
    <2>3. QED
      BY <1>10, <2>2
  <1>12. CASE ~(d + n > 0)
    <2>1. UNCHANGED <<time, list, wakeAt>>
      BY <1>6, <1>8, <1>12
    <2>2. Sleeping(t)' /\ d + n <= 0
      BY <1>1, <1>2, <1>5, <1>12, <2>1, Constants DEF Sleeping
    <2>3. CASE u # t
      BY <1>1, <1>3, <1>9, <2>1, <2>3, TimeKept DEF Others, TimeInv
    <2>4. QED
      BY <1>10, <2>1, <2>2, <2>3
  <1>13. QED
    BY <1>11, <1>12

-----------------------------------------------------------------------------
(* The inductive invariant of the types and of time.                       *)

LEMMA FirstShape == Init => Shape /\ TimeInv
  <1> SUFFICES ASSUME Init PROVE Shape /\ TimeInv
    OBVIOUS
  <1>1. Types
    BY RunningIs, Constants DEF Init, Types
  <1>2. \A t \in Tasks : at[t] = Running /\ list[t] = "ready" /\ state[t] = "none"
    BY DEF Init
  <1>3. Running.pc = "run" /\ Running.m = 0 /\ Running.then = "run" /\ Running.entry = <<>>
    BY DEF Running
  <1>4. Section
    BY <1>1, <1>2, <1>3, Constants DEF Section, Init, Types
  <1>5. Lists
    BY DEF Lists, Ordered, Init
  <1>6. \A t \in Tasks : Place(t) /\ Blocked(t)
    BY <1>2, <1>3 DEF Place, Blocked, Init, Sections
  <1>7. ASSUME NEW t \in Tasks PROVE InTime(t)
    <2>1. due[t] = IF Periodic(t) THEN 0 ELSE Off
      BY DEF Init
    <2>2. pended = 0 /\ time.tick = 0 /\ prev[t] = 0
      BY DEF Init
    <2>3. Sleeping(t) /\ Timed(t) /\ Asked(t) /\ Awake(t) /\ ~PastWait(t)
      BY <1>2, <1>3 DEF Sleeping, Timed, Asked, Awake, PastWait, Sections
    <2>4. InStep(t)
      <3>1. SUFFICES ASSUME Periodic(t) PROVE InStep(t)
        BY DEF InStep
      <3>2. due[t] = 0 /\ due[t] + pended = 0 /\ time.tick + due[t] + pended = 0
        BY <2>1, <2>2, <3>1
      <3>3. prev[t] - (time.tick + due[t] + pended) = 0 /\ 0 <= Width - 2 /\ 0 <= 0
        BY <2>2, <3>2, Constants
      <3>4. QED
        BY <1>2, <1>3, <2>3, <3>2, <3>3 DEF InStep
    <2>5. QED
      BY <2>1, <2>3, <2>4, Constants DEF InTime
  <1>8. QED
    BY <1>1, <1>4, <1>5, <1>6, <1>7 DEF Shape, TimeInv

LEMMA IdleRuns ==
  ASSUME Shape, NEW t \in Tasks, NEW op, NEW n \in Ticks(t, op)
  PROVE  t # Idle
  BY CallTicks

LEMMA StepShape ==
  ASSUME Shape, TimeInv, NEW t \in Tasks, Step(t)
  PROVE  Shape' /\ TimeInv'
  <1>1. ASSUME NEW m \in Mutexes, NEW n \in Ticks(t, "take"), CallTake(t, m, n)
        PROVE  Shape' /\ TimeInv'
    <2>1. t \in Tasks \ {Idle} /\ n \in 0 .. Forever
      BY IdleRuns, CallTicks
    <2>2. QED
      BY <1>1, <2>1, CallTakeShape, CallTakeTime
  <1>2. CASE Try(t)
    BY <1>2, TryShape, TryTime, OverTime
  <1>3. CASE Block(t) \/ DoNotBlock(t)
    BY <1>3, BlockShape, DoNotBlockShape, BlockTime
  <1>4. CASE Expired(t)
    BY <1>4, ExpiredShape, OverTime, ResumeTime
  <1>5. CASE Disinherit(t)
    BY <1>5, DisinheritShape, OverTime
  <1>6. ASSUME NEW m \in Mutexes, Give(t, m)
        PROVE  Shape' /\ TimeInv'
    BY <1>6, GiveShape, OtherTime
  <1>7. ASSUME NEW n \in Ticks(t, "delay"), Delay(t, n)
        PROVE  Shape' /\ TimeInv'
    <2>1. t \in Tasks \ {Idle} /\ n \in 0 .. Forever
      BY IdleRuns, CallTicks
    <2>2. QED
      BY <1>7, <2>1, DelayShape, DelayTime
  <1>8. ASSUME NEW n \in Ticks(t, "until"), DelayUntil(t, n)
        PROVE  Shape' /\ TimeInv'
    <2>1. t \in Tasks \ {Idle} /\ n \in 1 .. Forever - 1
      BY IdleRuns, CallTicks
    <2>2. QED
      BY <1>8, <2>1, DelayUntilShape, DelayUntilTime
  <1>9. ASSUME NEW n \in Ticks(t, "wait"), NotifyWait(t, n)
        PROVE  Shape' /\ TimeInv'
    <2>1. t \in Tasks \ {Idle} /\ n \in 0 .. Forever
      BY IdleRuns, CallTicks
    <2>2. QED
      BY <1>9, <2>1, NotifyWaitShape, NotifyWaitTime
  <1>10. CASE Woke(t) \/ NotifyReceived(t)
    BY <1>10, WokeShape, NotifyReceivedShape, OverTime
  <1>11. ASSUME NEW u \in Tasks, Notify(t, u)
         PROVE  Shape' /\ TimeInv'
    BY <1>11, NotifyShape, OtherTime
  <1>12. CASE ResumeAll(t) \/ Resumed(t) \/ Yield(t)
    BY <1>12, ResumeAllShape, ResumedShape, YieldShape, ResumeTime
  <1>13. CASE CatchUp(t)
    BY <1>13, CatchUpShape, CatchUpTime
  <1>14. QED
    BY <1>1, <1>2, <1>3, <1>4, <1>5, <1>6, <1>7, <1>8, <1>9, <1>10, <1>11, <1>12, <1>13
       DEF Step

LEMMA NextShape ==
  ASSUME Shape, TimeInv, [Next]_vars
  PROVE  Shape' /\ TimeInv'
  <1>1. ASSUME NEW t \in Tasks, Step(t) PROVE Shape' /\ TimeInv'
    BY <1>1, StepShape
  <1>2. ASSUME NEW t \in Tasks, SwitchContext(t) \/ NotifyFromISR(t) PROVE Shape' /\ TimeInv'
    BY <1>2, SwitchContextShape, NotifyFromISRShape, OtherTime
  <1>3. CASE Tick
    BY <1>3, TickShape, TickTime
  <1>4. CASE UNCHANGED vars
    <2>1. Shape'
      <3>1. Types'
        BY <1>4 DEF Shape, Types, vars, lists, sched
      <3>2. Section'
        BY <1>4 DEF Shape, Section, vars, lists, sched
      <3>3. Lists'
        BY <1>4, ListsKept DEF Shape, vars, lists
      <3>4. ASSUME NEW u \in Tasks PROVE Place(u)' /\ Blocked(u)'
        BY <1>4, PlaceKept, BlockedKept DEF Shape, vars, lists, sched, Blocked
      <3>5. QED
        BY <3>1, <3>2, <3>3, <3>4 DEF Shape
    <2>2. ASSUME NEW u \in Tasks PROVE InTime(u)'
      <3>1. time.next \in Int /\ time.next <= time.next
        BY Constants DEF Shape, Types
      <3>2. QED
        BY <1>4, <3>1, TimeKept DEF TimeInv, vars, lists, sched
    <2>3. QED
      BY <2>1, <2>2 DEF TimeInv
  <1>5. QED
    BY <1>1, <1>2, <1>3, <1>4 DEF Next

LEMMA Shapely == Spec => [](Shape /\ TimeInv)
  <1>1. Init => Shape /\ TimeInv
    BY FirstShape
  <1>2. (Shape /\ TimeInv) /\ [Next]_vars => (Shape /\ TimeInv)'
    BY NextShape
  <1>3. QED
    BY <1>1, <1>2, PTL DEF Spec

(* The variables keep their types; a task that waits for a mutex is in no ready
   list and is in the list of that mutex alone, whose order is strict and total;
   a task that an interrupt has readied in a section with the scheduler suspended
   has been notified; the idle task never blocks; and no context switch is pending
   while the scheduler is suspended. *)
THEOREM TypeCorrect == Spec => []TypeOK
  <1>1. ASSUME Shape, TimeInv PROVE TypeOK
    <2>1. Types /\ Section /\ Lists
      BY <1>1 DEF Shape
    <2>2. ASSUME NEW t \in Tasks
          PROVE  /\ prio[t] \in Range(Base) /\ due[t] \in -Lag .. Off
                 /\ \A m \in Mutexes : t \in waiters[m] => list[t] # "ready" /\ at[t].m = m
                 /\ t \in readied => susp = 1 /\ state[t] = "received"
      BY <1>1, <2>1 DEF Shape, Types, Section, Blocked, TimeInv, InTime
    <2>3. list[Idle] = "ready"
      <3>1. Blocked(Idle) /\ at[Idle].pc = "run"
        BY <1>1, Constants DEF Shape, Section
      <3>2. QED
        BY <3>1 DEF Blocked, PastTake, PastWait, Sections
    <2>4. pendsv + susp <= 1
      <3>1. susp = 1 => pendsv = 0
        BY <2>1 DEF Types, Section
      <3>2. QED
        BY <2>1, <3>1 DEF Types
    <2>5. QED
      BY <2>1, <2>2, <2>3, <2>4 DEF TypeOK, Types, Lists
  <1>2. QED
    BY <1>1, Shapely, PTL

(* vTaskDelay, vTaskDelayUntil, xTaskNotifyWait and xSemaphoreTake: whoever waits
   for some ticks waits for them, neither shorter nor longer, wherever the tick
   count overflows and however many ticks came while the scheduler was suspended;
   a periodic task does not drift; and who waits indefinitely returns with what it
   waited for. *)
THEOREM WaitsAreExact == Spec => []OnTime
  <1>1. ASSUME Shape, TimeInv PROVE OnTime
    <2> SUFFICES ASSUME NEW t \in Tasks
                 PROVE  /\ list[t] \in {"delayed", "overflow"} => due[t] + pended >= 1
                        /\ list[t] = "ready" /\ at[t].pc = "woke" => due[t] <= 0
                        /\ list[t] = "ready" /\ at[t].pc = "received" /\ state[t] = "waiting" => due[t] <= 0
                        /\ at[t].pc = "expired" => due[t] <= 0
      BY DEF OnTime
    <2>1. Sleeping(t) /\ Awake(t)
      BY <1>1 DEF TimeInv, InTime
    <2>2. list[t] \in {"delayed", "overflow"} => due[t] + pended >= 1
      <3>1. /\ time.tick \in 0 .. Forever /\ wakeAt[t] \in 0 .. Forever /\ Forever = Width - 1
            /\ Width \in Nat
        BY <1>1, Numbers, Constants
      <3>2. QED
        BY <2>1, <3>1 DEF Sleeping
    <2>3. QED
      BY <2>1, <2>2 DEF Awake, PastWait
  <1>2. QED
    BY <1>1, Shapely, PTL

-----------------------------------------------------------------------------
(* Wake-ups.                                                               *)

LEMMA FreeKept ==
  ASSUME Free, NEW t \in Tasks, Others(t),
         \A u \in Tasks : u # t /\ list[u] = "ready" => list'[u] = "ready",
         \A m \in Mutexes : /\ owner'[m] = NoTask => owner[m] = NoTask
                            /\ owner'[m] = NoTask /\ waiters[m] = {} => waiters'[m] = {}
                            /\ t \in Retrying(m) => t \in Retrying(m)' \/ owner'[m] # NoTask
  PROVE  Free'
  <1> SUFFICES ASSUME NEW m \in Mutexes, owner'[m] = NoTask, waiters'[m] # {}
               PROVE  Retrying(m)' # {}
    BY DEF Free
  <1>1. PICK u \in Retrying(m) : TRUE
    BY DEF Free
  <1>2. CASE u = t
    BY <1>1, <1>2
  <1>3. CASE u # t
    BY <1>1, <1>3 DEF Retrying, Others
  <1>4. QED
    BY <1>2, <1>3

(* The same for steps that leave every task where it is. *)
LEMMA FreeStays ==
  ASSUME Free, UNCHANGED <<at, owner>>,
         \A u \in Tasks : list[u] = "ready" => list'[u] = "ready",
         \A m \in Mutexes : waiters[m] = {} => waiters'[m] = {}
  PROVE  Free'
  BY DEF Free, Retrying

LEMMA NextFree ==
  ASSUME Shape, Free, [Next]_vars
  PROVE  Free'
  <1>0. Types /\ Lists
    BY DEF Shape
  <1>1. ASSUME NEW t \in Tasks, Step(t) PROVE Free'
    <2>0. /\ at[t] \in Locals /\ Place(t) /\ Blocked(t)
          /\ \A m \in Mutexes : m # 0
      BY <1>0, Constants DEF Shape, Types
    <2>1. ASSUME NEW m \in Mutexes, NEW n \in Ticks(t, "take"), CallTake(t, m, n) PROVE Free'
      <3>1. Others(t) /\ at[t].pc = "run"
        BY <1>0, <2>0, <2>1, CallTicks, CallTakeAt DEF CallTake, Runs
      <3>2. \A o \in Mutexes : t \notin Retrying(o)
        BY <3>1 DEF Retrying
      <3>3. QED
        BY <2>1, <3>1, <3>2, FreeKept DEF CallTake, lists
    <2>2. CASE Try(t)
      <3>1. Others(t) /\ UNCHANGED <<list, waiters>> /\ at[t].pc = "try"
        BY <1>0, <2>2, TryAt DEF Try, lists, Runs
      <3>2. at[t].m \in Mutexes
        BY <2>0, <3>1 DEF Place, Locals
      <3>3. \A m \in Mutexes : owner'[m] = NoTask => owner[m] = NoTask
        BY <1>0, <2>2, <3>2, Constants DEF Try, Types
      <3>4. ASSUME NEW m \in Mutexes, t \in Retrying(m), owner'[m] = NoTask
            PROVE  t \in Retrying(m)'
        <4>1. m = at[t].m /\ list[t] = "ready"
          BY <3>4 DEF Retrying
        <4>2. owner[m] = NoTask => owner'[m] = t
          BY <1>0, <2>2, <3>2, <4>1 DEF Try, Types
        <4>3. QED
          BY <3>3, <3>4, <4>2, Constants
      <3>5. QED
        BY <3>1, <3>3, <3>4, FreeKept
    <2>3. CASE Block(t)
      <3>1. /\ Others(t) /\ owner' = owner /\ owner[at[t].m] # NoTask /\ at[t].pc = "check"
            /\ AddOrSuspend(t, StillWaits(t).left) /\ Insert(at[t].m, t) /\ ~TimedOut(t)
        BY <1>0, <2>0, <2>3, BlockAt DEF Block, Runs
      <3>2. at[t].m \in Mutexes
        BY <2>0, <3>1 DEF Place, Locals
      <3>3. \A u \in Tasks : u # t => list'[u] = list[u]
        <4> DEFINE left == StillWaits(t).left
        <4>1. left \in 0 .. Forever
          BY <1>0, <2>0, <3>1, StillWaitsIs, Constants
        <4> HIDE DEF left
        <4>2. AddOrSuspend(t, left)
          BY <3>1 DEF left
        <4>3. QED
          BY <1>0, <4>1, <4>2, AddOrSuspendIs
      <3>4. \A m \in Mutexes : m # at[t].m => waiters'[m] = waiters[m]
        BY <1>0, <3>1 DEF Insert, Types
      <3>5. QED
        BY <3>1, <3>2, <3>3, <3>4, FreeKept DEF Retrying
    <2>4. CASE DoNotBlock(t)
      <3>1. /\ Others(t) /\ UNCHANGED <<list, waiters, owner>>
            /\ at'[t].pc = "resume" /\ at'[t].m = at[t].m
        BY <1>0, <2>0, <2>4, DoNotBlockAt DEF DoNotBlock, lists
      <3>2. QED
        BY <3>1, FreeKept DEF Retrying
    <2>5. CASE Expired(t)
      <3>1. UNCHANGED <<list, waiters, owner>> /\ at[t].pc = "expired"
        BY <2>5 DEF Expired, lists, Runs
      <3>2. CASE owner[at[t].m] = NoTask
        <4>1. Others(t) /\ at'[t].pc = "try" /\ at'[t].m = at[t].m
          BY <1>0, <2>5, <3>2, GotoAt DEF Expired, Places
        <4>2. QED
          BY <3>1, <4>1, FreeKept DEF Retrying
      <3>3. CASE owner[at[t].m] # NoTask
        <4>1. Others(t)
          BY <1>0, <2>5, <3>3, GotoAt, ReturnDue DEF Expired, Places
        <4>2. QED
          BY <3>1, <3>3, <4>1, FreeKept DEF Retrying
      <3>4. QED
        BY <3>2, <3>3
    <2>6. CASE Disinherit(t) \/ Woke(t) \/ NotifyReceived(t)
      <3>1. /\ Others(t) /\ UNCHANGED <<list, waiters, owner>>
            /\ at[t].pc \in {"disinherit", "woke", "received"}
        BY <1>0, <2>6, ReturnDue DEF Disinherit, Woke, NotifyReceived, lists, Runs
      <3>2. QED
        BY <3>1, FreeKept DEF Retrying
    <2>7. ASSUME NEW m \in Mutexes, Give(t, m) PROVE Free'
      <3>1. /\ owner' = [owner EXCEPT ![m] = NoTask] /\ at' = at
            /\ \/ waiters[m] = {} /\ UNCHANGED <<list, waiters, ahead>>
               \/ \E u \in First(m) :
                    /\ u \in waiters[m] /\ list' = [list EXCEPT ![u] = "ready"]
                    /\ \A n \in Mutexes : waiters'[n] = waiters[n] \ {u}
        BY <1>0, <2>7, GiveIs
      <3>2. ASSUME NEW n \in Mutexes, owner'[n] = NoTask, waiters'[n] # {}
            PROVE  Retrying(n)' # {}
        <4>1. CASE waiters[m] = {} /\ UNCHANGED <<list, waiters, ahead>>
          <5>1. owner[n] = NoTask
            BY <1>0, <3>1, <3>2, <4>1 DEF Types
          <5>2. QED
            BY <3>1, <3>2, <4>1, <5>1 DEF Free, Retrying
        <4>2. CASE waiters[m] # {}
          <5>1. PICK u \in waiters[m] :
                  /\ list' = [list EXCEPT ![u] = "ready"]
                  /\ \A o \in Mutexes : waiters'[o] = waiters[o] \ {u}
            BY <3>1, <4>2
          <5>2. u \in Tasks /\ \A v \in Tasks : list[v] = "ready" => list'[v] = "ready"
            BY <1>0, <5>1 DEF Types
          <5>3. CASE n = m
            <6>1. at[u].m = m /\ PastTake(u)
              BY <5>1, <5>2 DEF Shape, Blocked
            <6>2. list'[u] = "ready"
              BY <1>0, <5>1, <5>2 DEF Types
            <6>3. u \in Retrying(n)'
              BY <3>1, <5>2, <5>3, <6>1, <6>2 DEF Retrying, PastTake, Sections
            <6>4. QED
              BY <6>3
          <5>4. CASE n # m
            <6>1. owner[n] = NoTask /\ waiters[n] # {}
              BY <1>0, <3>1, <3>2, <5>1, <5>4 DEF Types
            <6>2. QED
              BY <3>1, <5>2, <6>1 DEF Free, Retrying
          <5>5. QED
            BY <5>3, <5>4
        <4>3. QED
          BY <3>1, <4>1, <4>2
      <3>3. QED
        BY <3>2 DEF Free
    <2>8. ASSUME NEW n \in Tasks \cup Nat, Delay(t, n) \/ DelayUntil(t, n) \/ NotifyWait(t, n)
          PROVE  Free'
      <3>1. /\ UNCHANGED <<waiters, owner>> /\ at[t].pc = "run"
            /\ \A u \in Tasks : u # t => at'[u] = at[u]
        BY <1>0, <2>8 DEF Delay, DelayUntil, NotifyWait, Runs, lists, Types
      <3>2. \A u \in Tasks : u # t => list'[u] = list[u]
        BY <1>0, <2>8 DEF Delay, DelayUntil, NotifyWait, AddOrSuspend, AddToDelayed, lists, Types
      <3>3. \A m \in Mutexes : t \notin Retrying(m)
        BY <3>1 DEF Retrying
      <3>4. QED
        BY <3>1, <3>2, <3>3 DEF Free, Retrying
    <2>9. ASSUME NEW u \in Tasks, Notify(t, u) PROVE Free'
      <3>1. UNCHANGED <<at, owner, waiters>>
        BY <2>9 DEF Notify
      <3>2. \A v \in Tasks : list[v] = "ready" => list'[v] = "ready"
        BY <1>0, <2>9 DEF Notify, Types
      <3>3. QED
        BY <3>1, <3>2, FreeStays
    <2>10. CASE ResumeAll(t)
      <3>1. UNCHANGED <<waiters, owner>> /\ \A u \in Tasks : list[u] = "ready" => list'[u] = "ready"
        BY <2>10 DEF ResumeAll
      <3>2. Others(t) /\ at'[t].pc = "catchUp" /\ at'[t].m = at[t].m
        BY <1>0, <2>10, GotoAt DEF ResumeAll, Places, Sections
      <3>3. QED
        BY <3>1, <3>2, FreeKept DEF Retrying
    <2>11. CASE CatchUp(t)
      <3>1. UNCHANGED <<at, owner>> /\ IncrementTick
        BY <2>11 DEF CatchUp
      <3>2. /\ \A u \in Tasks : list[u] = "ready" => list'[u] = "ready"
            /\ \A m \in Mutexes : waiters'[m] = waiters[m] \ Over
        BY <1>0, <3>1, IncrementTickIs
      <3>3. QED
        BY <3>1, <3>2, FreeStays
    <2>12. CASE Resumed(t) \/ Yield(t)
      <3>1. UNCHANGED <<list, waiters, owner>> /\ at[t].pc \in {"catchUp", "yield"}
        BY <2>12 DEF Resumed, Yield, lists, Runs
      <3>2. /\ Others(t) /\ at'[t].m = at[t].m
            /\ at'[t].pc = "yield" \/ at'[t].pc = at[t].then
        BY <1>0, <2>12, ForceAt, ContinueAt DEF Resumed, Yield
      <3>3. \A m \in Mutexes : at[t].m = m => at[t].then \in {"try", "expired"}
        BY <2>0, <3>1 DEF Place, Sections
      <3>4. QED
        BY <3>1, <3>2, <3>3, FreeKept DEF Retrying
    <2>13. QED
      <3>1. ASSUME NEW n \in Ticks(t, "delay"), Delay(t, n) PROVE Free'
        BY <2>8, <3>1, CallTicks, Constants
      <3>2. ASSUME NEW n \in Ticks(t, "until"), DelayUntil(t, n) PROVE Free'
        BY <2>8, <3>2, CallTicks, Constants
      <3>3. ASSUME NEW n \in Ticks(t, "wait"), NotifyWait(t, n) PROVE Free'
        BY <2>8, <3>3, CallTicks, Constants
      <3>4. QED
        BY <1>1, <2>1, <2>2, <2>3, <2>4, <2>5, <2>6, <2>7, <2>9, <2>10, <2>11, <2>12,
           <3>1, <3>2, <3>3 DEF Step
  <1>2. ASSUME NEW t \in Tasks, SwitchContext(t) \/ NotifyFromISR(t) PROVE Free'
    <2>1. UNCHANGED <<at, owner, waiters>>
      BY <1>2 DEF SwitchContext, NotifyFromISR, lists
    <2>2. \A v \in Tasks : list[v] = "ready" => list'[v] = "ready"
      BY <1>0, <1>2 DEF SwitchContext, NotifyFromISR, lists, Types
    <2>3. QED
      BY <2>1, <2>2, FreeStays
  <1>3. CASE Tick
    <2>1. UNCHANGED <<at, owner>>
      BY <1>3 DEF Tick
    <2>2. CASE IncrementTick
      <3>1. /\ \A u \in Tasks : list[u] = "ready" => list'[u] = "ready"
            /\ \A m \in Mutexes : waiters'[m] = waiters[m] \ Over
        BY <1>0, <2>2, IncrementTickIs
      <3>2. QED
        BY <2>1, <3>1, FreeStays
    <2>3. CASE UNCHANGED lists
      BY <2>1, <2>3, FreeStays DEF lists
    <2>4. QED
      BY <1>3, <2>2, <2>3 DEF Tick
  <1>4. CASE UNCHANGED vars
    BY <1>4, FreeStays DEF vars, lists
  <1>5. QED
    BY <1>1, <1>2, <1>3, <1>4 DEF Next

(* A notification stays until the task that it is for returns with it. *)
LEMMA NextNotified ==
  ASSUME Types, [Next]_vars
  PROVE  \A t \in Tasks : state[t] = "received" =>
                            state'[t] = "received" \/ at[t].pc = "received"
  <1> SUFFICES ASSUME NEW t \in Tasks, state[t] = "received"
               PROVE  state'[t] = "received" \/ at[t].pc = "received"
    OBVIOUS
  <1>1. ASSUME NEW u \in Tasks, Step(u)
        PROVE  state'[t] = "received" \/ at[t].pc = "received"
    <2>1. ASSUME NEW n, NotifyWait(u, n) PROVE state'[t] = "received"
      BY <2>1 DEF NotifyWait, StartsWaiting, Types
    <2>2. CASE NotifyReceived(u)
      BY <2>2 DEF NotifyReceived, Runs, Types
    <2>3. ASSUME NEW v \in Tasks, Notify(u, v) PROVE state'[t] = "received"
      BY <2>3 DEF Notify, Types
    <2>4. CASE UNCHANGED state
      BY <2>4
    <2>5. CASE \/ \E m \in Mutexes, n \in Ticks(u, "take") : CallTake(u, m, n)
               \/ Try(u) \/ Block(u) \/ DoNotBlock(u) \/ Expired(u) \/ Disinherit(u)
               \/ \E m \in Mutexes : Give(u, m)
               \/ \E n \in Ticks(u, "delay") : Delay(u, n)
               \/ \E n \in Ticks(u, "until") : DelayUntil(u, n)
               \/ Woke(u) \/ ResumeAll(u) \/ CatchUp(u) \/ Resumed(u) \/ Yield(u)
      BY <2>4, <2>5 DEF CallTake, Try, Block, DoNotBlock, Expired, Disinherit, Give, Delay,
                        DelayUntil, Woke, ResumeAll, CatchUp, Resumed, Yield
    <2>6. QED
      BY <1>1, <2>1, <2>2, <2>3, <2>5 DEF Step
  <1>2. ASSUME NEW u \in Tasks, SwitchContext(u) \/ NotifyFromISR(u)
        PROVE  state'[t] = "received"
    BY <1>2 DEF SwitchContext, NotifyFromISR, Types
  <1>3. CASE Tick \/ UNCHANGED vars
    BY <1>3 DEF Tick, vars
  <1>4. QED
    BY <1>1, <1>2, <1>3 DEF Next

(* xQueueGenericSend and xTaskGenericNotify: no wake-up is lost, of a mutex or of
   a notification. *)
THEOREM WakesAreKept == Spec => NoLostWake
  <1> DEFINE Notified == \A t \in Tasks : state[t] = "received" =>
                            state'[t] = "received" \/ at[t].pc = "received"
  <1>1. Init => Free
    BY DEF Init, Free
  <1>2. (Shape /\ Free) /\ [Next]_vars => Free'
    BY NextFree
  <1>3. Shape /\ [Next]_vars => [Notified]_vars
    BY NextNotified DEF Shape
  <1>4. Spec => []Free
    BY <1>1, <1>2, Shapely, PTL DEF Spec
  <1>5. Spec => [][Notified]_vars
    BY <1>3, Shapely, PTL DEF Spec
  <1>6. QED
    BY <1>4, <1>5 DEF NoLostWake, Free

-----------------------------------------------------------------------------
(* Inheritance.                                                            *)

LEMMA PrioIs ==
  ASSUME Types
  PROVE  /\ \A t \in Tasks : prio[t] \in Nat /\ Base[t] \in Nat
         /\ cur \in Tasks /\ prio \in [Tasks -> Range(Base)]
         /\ \A m \in Mutexes : waiters[m] \subseteq Tasks
         /\ \A m \in Mutexes : owner[m] # NoTask => owner[m] \in Tasks
  BY Constants DEF Types

(* Only the holder of a mutex has another priority than its own. *)
LEMMA OwnPrio ==
  ASSUME Types, InheritInv, NEW t \in Tasks, \A m \in Mutexes : owner[m] # t
  PROVE  prio[t] = Base[t]
  BY PrioIs DEF InheritInv, Lent

LEMMA NoHolder ==
  ASSUME InheritInv, NEW u \in Tasks, at[u].m # 0
  PROVE  \A m \in Mutexes : owner[m] # u
  BY Constants DEF InheritInv, Holders

(* The first of those that wait has the highest priority. *)
LEMMA FirstHighest ==
  ASSUME Types, Lists, InheritInv, NEW m \in Mutexes, NEW u \in First(m), NEW v \in waiters[m]
  PROVE  prio[v] <= prio[u]
  <1>1. u \in waiters[m] /\ <<v, u>> \notin ahead
    BY DEF First
  <1>2. v = u \/ <<u, v>> \in ahead
    BY <1>1 DEF Lists, Ordered
  <1>3. prio[u] \in Nat /\ prio[v] \in Nat
    BY <1>1, PrioIs
  <1>4. QED
    BY <1>1, <1>2, <1>3 DEF InheritInv, Sorted

(* Steps that give no mutex away, take none and change no priority. *)
LEMMA InheritKept ==
  ASSUME Shape, InheritInv, NEW t \in Tasks, Others(t), UNCHANGED <<prio, owner, cur>>,
         pendsv' = 0 => pendsv = 0,
         at'[t].m # 0 => \A m \in Mutexes : owner[m] # t,
         \A m \in Mutexes :
           /\ waiters'[m] \subseteq waiters[m]
           /\ \A u \in waiters[m] : u \notin waiters'[m] => list[u] # "suspended"
           /\ t \in Lenders(m) /\ owner[m] # NoTask => t \in Lenders(m)'
           /\ t \in Retrying(m) => t \in Retrying(m)' \/ owner[m] # NoTask,
         \A u, v \in Tasks : <<u, v>> \in ahead' => <<u, v>> \in ahead,
         at'[t] = at[t] \/ \A m \in Mutexes : t \notin waiters[m],
         \A u \in Tasks : list[u] = "ready" => list'[u] = "ready" \/ u = t
  PROVE  InheritInv'
  <1>1. /\ \A u \in Tasks : prio[u] \in Nat /\ Base[u] \in Nat
        /\ \A m \in Mutexes : waiters[m] \subseteq Tasks
        /\ \A m \in Mutexes : owner[m] # NoTask => owner[m] \in Tasks
    BY PrioIs DEF Shape
  <1>2. Holders'
    <2>1. ASSUME NEW m \in Mutexes, owner[m] # NoTask PROVE at'[owner[m]].m = 0
      BY <1>1, <2>1 DEF InheritInv, Holders, Others
    <2>2. QED
      BY <2>1 DEF InheritInv, Holders
  <1>3. ASSUME NEW m \in Mutexes, NEW w \in waiters'[m] PROVE w \in waiters[m] /\ at'[w] = at[w]
    BY <1>1, <1>3 DEF Others
  <1>4. Lent'
    <2>1. ASSUME NEW m \in Mutexes, NEW h \in Tasks, owner[m] = h, prio[h] > Base[h],
                 NEW u \in waiters[m] \cup Lenders(m), prio[u] = prio[h]
          PROVE  u \in waiters'[m] \cup Lenders(m)'
      <3>0. u \in Tasks /\ h # NoTask
        BY <1>1, Constants DEF Lenders
      <3>1. CASE u \in waiters'[m]
        BY <3>1
      <3>2. CASE u \in waiters[m] /\ u \notin waiters'[m]
        <4>1. /\ at[u].m = m /\ at[u].left > 0 /\ at[u].left < Forever /\ at[u].inh = 1
          BY <2>1, <3>0, <3>2 DEF Shape, Blocked, InheritInv, Bounded
        <4>2. ~Waiting(u)'
          <5>1. ASSUME NEW n \in Mutexes, u \in waiters'[n] PROVE FALSE
            <6>1. u \in waiters[n]
              BY <5>1
            <6>2. at[u].m = n
              BY <3>0, <6>1 DEF Shape, Blocked
            <6>3. QED
              BY <3>2, <4>1, <5>1, <6>2
          <5>2. QED
            BY <5>1 DEF Waiting
        <4>3. at'[u] = at[u]
          BY <3>0, <3>2 DEF Others
        <4>4. at[u].left # 0
          BY <4>1
        <4>5. QED
          BY <3>0, <4>1, <4>2, <4>3, <4>4 DEF Lenders
      <3>3. CASE u \in Lenders(m) /\ u # t
        <4>1. at'[u] = at[u] /\ ~Waiting(u)'
          BY <3>0, <3>3 DEF Others, Lenders, Waiting
        <4>2. QED
          BY <3>0, <3>3, <4>1 DEF Lenders
      <3>4. CASE u \in Lenders(m) /\ u = t
        BY <2>1, <3>0, <3>4
      <3>5. QED
        BY <3>1, <3>2, <3>3, <3>4
    <2>2. QED
      BY <2>1 DEF InheritInv, Lent
  <1>5. Bounded'
    <2>1. ASSUME NEW m \in Mutexes, NEW w \in waiters'[m], owner[m] # NoTask
          PROVE  /\ prio[w] <= prio[owner[m]]
                 /\ prio[w] > Base[owner[m]] => at'[w].inh = 1
      BY <1>3, <2>1 DEF InheritInv, Bounded
    <2>2. ASSUME NEW m \in Mutexes, NEW w \in waiters'[m], owner[m] = NoTask
          PROVE  /\ \E u \in Retrying(m)' : prio[u] >= prio[w]
                 /\ pendsv' = 0 => prio[w] <= prio[cur]
      <3>1. PICK u \in Retrying(m) : prio[u] >= prio[w]
        BY <1>3, <2>2 DEF InheritInv, Bounded
      <3>2. u \in Retrying(m)'
        BY <2>2, <3>1 DEF Retrying, Others
      <3>3. pendsv = 0 => prio[w] <= prio[cur]
        BY <1>3, <2>2 DEF InheritInv, Bounded
      <3>4. QED
        BY <3>1, <3>2, <3>3
    <2>3. QED
      BY <2>1, <2>2 DEF Bounded
  <1>6. Sorted'
    BY <1>1, <1>3 DEF InheritInv, Sorted
  <1>7. QED
    BY <1>2, <1>4, <1>5, <1>6 DEF InheritInv

(* The steps that only move the running task, and those of the interrupts. *)
LEMMA PlainInherit ==
  ASSUME Shape, InheritInv, Unnested, NEW t \in Tasks,
         \/ \E m \in Mutexes, n \in Ticks(t, "take") : CallTake(t, m, n)
         \/ Try(t) /\ owner[at[t].m] # NoTask
         \/ DoNotBlock(t) \/ Expired(t) \/ Woke(t) \/ NotifyReceived(t)
         \/ \E n \in Ticks(t, "delay") : Delay(t, n)
         \/ \E n \in Ticks(t, "until") : DelayUntil(t, n)
         \/ \E n \in Ticks(t, "wait") : NotifyWait(t, n)
         \/ ResumeAll(t) \/ Resumed(t) \/ Yield(t)
  PROVE  InheritInv'
  <1>0. /\ Types /\ Lists /\ Place(t) /\ Blocked(t) /\ at[t] \in Locals /\ t # NoTask
        /\ \A m \in Mutexes : m # 0
    BY Constants DEF Shape, Types
  (* All of these steps leave the lists of the mutexes alone. *)
  <1>1. ASSUME UNCHANGED <<prio, owner, cur, waiters, ahead>>, Others(t),
               pendsv' = 0 => pendsv = 0,
               at'[t].m # 0 => \A m \in Mutexes : owner[m] # t,
               \A m \in Mutexes : t \notin waiters[m],
               \A m \in Mutexes :
                 /\ t \in Lenders(m) /\ owner[m] # NoTask => t \in Lenders(m)'
                 /\ t \in Retrying(m) => t \in Retrying(m)' \/ owner[m] # NoTask,
               \A u \in Tasks : list[u] = "ready" => list'[u] = "ready" \/ u = t
        PROVE  InheritInv'
    BY <1>1, InheritKept
  (* A task that was in no operation on a mutex. *)
  <1>2. ASSUME at[t].m = 0
        PROVE  \A m \in Mutexes : t \notin Lenders(m) /\ t \notin Retrying(m) /\ t \notin waiters[m]
    BY <1>0, <1>2 DEF Lenders, Retrying, Blocked
  <1>3. ASSUME at[t].m # 0 PROVE \A m \in Mutexes : owner[m] # t
    BY <1>3, NoHolder
  <1>4. ASSUME NEW m \in Mutexes, NEW n \in Ticks(t, "take"), CallTake(t, m, n) PROVE InheritInv'
    <2>1. /\ UNCHANGED <<prio, owner, cur, waiters, ahead, pendsv, list>>
          /\ \A h \in Held(t) : h < m /\ t \in Nesting
      BY <1>4 DEF CallTake, lists, sched
    <2>2. at[t].m = 0
      <3>1. at[t] = Running
        BY <1>0, <1>4 DEF CallTake, Runs, Place
      <3>2. QED
        BY <3>1 DEF Running
    <2>20. Others(t)
      <3>1. n \in 0 .. Forever
        BY CallTicks
      <3>2. QED
        BY <1>0, <1>4, <3>1, CallTakeAt
    <2>3. \A o \in Mutexes : owner[o] # t
      BY <2>1 DEF Held, Unnested
    <2>4. QED
      BY <1>1, <1>2, <2>1, <2>2, <2>20, <2>3
  <1>5. CASE Try(t) /\ owner[at[t].m] # NoTask
    <2>1. /\ UNCHANGED <<prio, owner, cur, waiters, ahead, pendsv, list>>
          /\ at[t].pc = "try" /\ at[t].m # 0 /\ \A m \in Mutexes : t \notin waiters[m]
      BY <1>0, <1>5, Runner DEF Try, lists, sched, Runs, Sections, Place
    <2>2. /\ Others(t)
          /\ \/ at[t].left = 0 /\ at'[t] = Running
             \/ /\ at[t].left > 0 /\ at'[t].pc = "check" /\ at'[t].m = at[t].m
                /\ at'[t].left = at[t].left /\ at'[t].inh = at[t].inh
      BY <1>0, <1>5, TryAt
    <2>3. ASSUME NEW m \in Mutexes
          PROVE  /\ t \in Lenders(m) /\ owner[m] # NoTask => t \in Lenders(m)'
                 /\ t \in Retrying(m) => t \in Retrying(m)' \/ owner[m] # NoTask
      <3>1. t \in Lenders(m) => t \in Lenders(m)'
        BY <2>1, <2>2 DEF Lenders, Waiting
      <3>2. t \in Retrying(m) => owner[m] # NoTask
        BY <1>5 DEF Retrying
      <3>3. QED
        BY <3>1, <3>2
    <2>4. QED
      BY <1>1, <1>3, <2>1, <2>2, <2>3
  <1>6. CASE DoNotBlock(t)
    <2>1. /\ UNCHANGED <<prio, owner, cur, waiters, ahead, pendsv, list>>
          /\ at[t].pc = "check" /\ at[t].m # 0 /\ \A m \in Mutexes : t \notin waiters[m]
      BY <1>0, <1>6, Runner DEF DoNotBlock, lists, Runs, Sections, Place
    <2>2. /\ Others(t) /\ at'[t].pc = "resume" /\ at'[t].m = at[t].m /\ at'[t].inh = at[t].inh
          /\ at[t].left < Forever => at'[t].left < Forever
      <3>1. /\ Others(t) /\ at'[t].pc = "resume" /\ at'[t].m = at[t].m /\ at'[t].inh = at[t].inh
            /\ \/ ~TimedOut(t) /\ at'[t].left = StillWaits(t).left
               \/ at'[t].left = 0
        BY <1>0, <1>6, DoNotBlockAt
      <3>2. ASSUME ~TimedOut(t), at[t].left < Forever PROVE StillWaits(t).left < Forever
        <4>1. StillWaits(t).left = at[t].left - Elapsed(t) /\ Elapsed(t) \in 0 .. Forever
          BY <1>0, <2>1, <3>2, Constants, StillWaitsIs, ElapsedIs DEF Place, Locals
        <4>2. at[t].left \in Int
          BY <1>0, Constants DEF Locals
        <4> DEFINE e == Elapsed(t)
                   n == StillWaits(t).left
        <4>3. e \in 0 .. Forever /\ n = at[t].left - e
          BY <4>1
        <4> HIDE DEF e, n
        <4>4. n < Forever
          BY <3>2, <4>2, <4>3, Constants
        <4>5. QED
          BY <4>4 DEF n
      <3>3. 0 < Forever
        BY Constants
      <3>4. QED
        BY <3>1, <3>2, <3>3
    <2>3. QED
      BY <1>1, <1>3, <2>1, <2>2 DEF Lenders, Retrying, Waiting
  <1>7. CASE Expired(t)
    <2>1. /\ UNCHANGED <<prio, owner, cur, waiters, ahead, pendsv, list>>
          /\ at[t].pc = "expired" /\ at[t].m # 0 /\ \A m \in Mutexes : t \notin waiters[m]
      BY <1>0, <1>7, Runner DEF Expired, lists, sched, Runs, Sections, Place
    <2>2. CASE owner[at[t].m] = NoTask
      <3>1. Others(t) /\ at'[t].pc = "try" /\ at'[t].m = at[t].m
        BY <1>0, <1>7, <2>2, GotoAt DEF Expired, Places
      <3>2. \A m \in Mutexes : /\ t \in Lenders(m) => owner[m] = NoTask
                               /\ t \in Retrying(m) => t \in Retrying(m)'
        BY <2>1, <2>2, <3>1 DEF Lenders, Retrying
      <3>3. QED
        BY <1>1, <1>3, <2>1, <3>1, <3>2
    <2>3. CASE owner[at[t].m] # NoTask /\ at[t].inh = 1
      <3>1. /\ Others(t) /\ at'[t].pc = "disinherit" /\ at'[t].m = at[t].m
            /\ at'[t].left = at[t].left /\ at'[t].inh = at[t].inh
        BY <1>0, <1>7, <2>3, GotoAt DEF Expired, Places
      <3>2. \A m \in Mutexes : /\ t \in Lenders(m) => t \in Lenders(m)'
                               /\ t \in Retrying(m) => owner[m] # NoTask
        BY <2>1, <2>3, <3>1 DEF Lenders, Retrying, Waiting
      <3>3. QED
        BY <1>1, <1>3, <2>1, <3>1, <3>2
    <2>4. CASE owner[at[t].m] # NoTask /\ at[t].inh # 1
      <3>1. Others(t) /\ at'[t].m = 0
        BY <1>0, <1>7, <2>4, ReturnDue DEF Expired, Running
      <3>2. \A m \in Mutexes : /\ t \notin Lenders(m)
                               /\ t \in Retrying(m) => owner[m] # NoTask
        BY <2>4 DEF Lenders, Retrying
      <3>3. QED
        BY <1>1, <2>1, <3>1, <3>2
    <2>5. QED
      BY <2>2, <2>3, <2>4
  <1>8. CASE Woke(t) \/ NotifyReceived(t)
    <2>1. /\ UNCHANGED <<prio, owner, cur, waiters, ahead, pendsv, list>>
          /\ at[t].pc \in {"woke", "received"} /\ at[t].m = 0
      BY <1>0, <1>8 DEF Woke, NotifyReceived, lists, sched, Runs, Place
    <2>2. Others(t) /\ at'[t].m = 0
      BY <1>0, <1>8, ReturnDue DEF Woke, NotifyReceived, Running
    <2>3. QED
      BY <1>1, <1>2, <2>1, <2>2
  <1>9. ASSUME NEW n, Delay(t, n) \/ DelayUntil(t, n) PROVE InheritInv'
    <2>1. /\ UNCHANGED <<prio, owner, cur, waiters, ahead, pendsv>> /\ at[t] = Running /\ at[t].m = 0
      BY <1>0, <1>9 DEF Delay, DelayUntil, lists, Runs, Place, Running
    <2>2. Others(t) /\ at'[t].m = 0
      BY <1>0, <1>9, <2>1, SleepAt DEF Delay, DelayUntil
    <2>3. \A u \in Tasks : u # t => list'[u] = list[u]
      BY <1>0, <1>9 DEF Delay, DelayUntil, AddToDelayed, lists, Types
    <2>4. QED
      BY <1>1, <1>2, <2>1, <2>2, <2>3
  <1>10. ASSUME NEW n \in Ticks(t, "wait"), NotifyWait(t, n) PROVE InheritInv'
    <2>1. /\ UNCHANGED <<prio, owner, cur, waiters, ahead>> /\ at[t] = Running /\ at[t].m = 0
          /\ pendsv = 0
      BY <1>0, <1>10 DEF NotifyWait, Runs, Place, Running
    <2>2. Others(t) /\ at'[t].m = 0
      BY <1>0, <1>10, CallTicks, NotifyWaitAt
    <2>3. \A u \in Tasks : u # t => list'[u] = list[u]
      BY <1>0, <1>10 DEF NotifyWait, AddOrSuspend, AddToDelayed, Types
    <2>4. QED
      BY <1>1, <1>2, <2>1, <2>2, <2>3
  <1>11. CASE ResumeAll(t) \/ Resumed(t) \/ Yield(t)
    <2>1. /\ UNCHANGED <<prio, owner, cur, waiters, ahead>> /\ pendsv = 0
          /\ at[t].pc \in Sections /\ \A u \in Tasks : list[u] = "ready" => list'[u] = "ready"
      BY <1>11 DEF ResumeAll, Resumed, Yield, lists, Runs, Sections
    <2>2. /\ Others(t) /\ at'[t].m = at[t].m /\ at'[t].left = at[t].left /\ at'[t].inh = at[t].inh
          /\ at'[t].pc \in {"catchUp", "yield", at[t].then}
      BY <1>0, <1>11, GotoAt, ForceAt, ContinueAt DEF ResumeAll, Resumed, Yield, Places, Sections
    <2>3. CASE at[t].m = 0
      BY <1>1, <1>2, <2>1, <2>2, <2>3
    <2>4. CASE at[t].m # 0
      <3>1. at[t].then \in {"try", "expired"} /\ (at[t].then = "try" => at[t].left > 0)
        BY <1>0, <2>1, <2>4 DEF Place
      <3>2. \A m \in Mutexes : t \in Retrying(m) => t \in Retrying(m)'
        BY <2>1, <2>2, <3>1 DEF Retrying
      <3>3. at'[t].pc = "try" => at'[t].left # 0
        <4>1. at'[t].pc = "try" => at[t].then = "try"
          BY <2>2
        <4>2. QED
          BY <2>2, <3>1, <4>1
      <3>4. \A m \in Mutexes : t \in Lenders(m) => t \in Lenders(m)'
        BY <2>1, <2>2, <3>3 DEF Lenders, Waiting
      <3>5. CASE \A m \in Mutexes : t \notin waiters[m]
        BY <1>1, <1>3, <2>1, <2>2, <2>4, <3>2, <3>4, <3>5
      <3>6. CASE ~(\A m \in Mutexes : t \notin waiters[m])
        (* The task has just blocked: it keeps what tells of its wait. *)
        <4>1. \A m \in Mutexes : \A w \in waiters'[m] : at'[w].inh = at[w].inh
          BY <1>0, <2>1, <2>2 DEF Others, Types
        <4>2. /\ Holders' /\ Sorted'
          BY <1>0, <1>3, <2>1, <2>2, <2>4 DEF InheritInv, Holders, Sorted, Others, Types
        <4>3. \A m \in Mutexes : \A u \in Lenders(m) : u \in Lenders(m)'
          <5>1. ASSUME NEW m \in Mutexes, NEW u \in Lenders(m), u # t PROVE u \in Lenders(m)'
            BY <2>1, <2>2, <5>1 DEF Lenders, Others, Waiting
          <5>2. QED
            BY <3>4, <5>1
        <4>4. Lent'
          BY <2>1, <4>3 DEF InheritInv, Lent
        <4>5. Bounded'
          <5>1. \A m \in Mutexes : \A u \in Retrying(m) : u \in Retrying(m)'
            <6>1. ASSUME NEW m \in Mutexes, NEW u \in Retrying(m), u # t PROVE u \in Retrying(m)'
              BY <2>1, <2>2, <6>1 DEF Retrying, Others
            <6>2. QED
              BY <3>2, <6>1
          <5>2. QED
            BY <2>1, <4>1, <5>1 DEF InheritInv, Bounded
        <4>6. QED
          BY <4>2, <4>4, <4>5 DEF InheritInv
      <3>7. QED
        BY <3>5, <3>6
    <2>5. QED
      BY <2>3, <2>4
  <1>12. QED
    BY <1>4, <1>5, <1>6, <1>7, <1>8, <1>9, <1>10, <1>11

(* The steps that leave every task where it is in the kernel. *)
LEMMA InheritStays ==
  ASSUME Shape, InheritInv, UNCHANGED <<at, prio, owner, cur>>, pendsv' = 0 => pendsv = 0,
         \A m \in Mutexes :
           /\ waiters'[m] \subseteq waiters[m]
           /\ \A u \in waiters[m] : u \notin waiters'[m] => list[u] # "suspended",
         \A u, v \in Tasks : <<u, v>> \in ahead' => <<u, v>> \in ahead,
         \A u \in Tasks : list[u] = "ready" => list'[u] = "ready"
  PROVE  InheritInv'
  <1>1. cur \in Tasks /\ Others(cur)
    BY DEF Shape, Types, Others
  <1>2. at'[cur].m # 0 => \A m \in Mutexes : owner[m] # cur
    BY <1>1, NoHolder
  <1>3. \A m \in Mutexes : /\ cur \in Lenders(m) => cur \in Lenders(m)'
                           /\ cur \in Retrying(m) => cur \in Retrying(m)'
    BY DEF Lenders, Retrying, Waiting
  <1>4. QED
    BY <1>1, <1>2, <1>3, InheritKept

(* Those that wait for a mutex, or have waited for it, hold none. *)
LEMMA WaitersHoldNone ==
  ASSUME Shape, InheritInv, NEW m \in Mutexes, NEW u \in waiters[m] \cup Lenders(m) \cup Retrying(m)
  PROVE  /\ u \in Tasks /\ at[u].m = m /\ m # 0
         /\ \A n \in Mutexes : owner[n] # u
  <1>1. u \in Tasks /\ at[u].m = m /\ m # 0
    BY PrioIs, Constants DEF Shape, Blocked, Lenders, Retrying
  <1>2. QED
    BY <1>1, NoHolder

(* The switch is to a task that has at least the priority of whoever is on its
   way to a free mutex. *)
LEMMA SwitchInherit ==
  ASSUME Shape, InheritInv, NEW t \in Tasks, SwitchContext(t)
  PROVE  InheritInv'
  <1>1. /\ UNCHANGED <<at, prio, owner, list, waiters, ahead>> /\ cur' = t
        /\ \A u \in Tasks : list[u] = "ready" => prio[u] <= prio[t]
    BY DEF SwitchContext, lists, Ready
  <1>2. Holders' /\ Lent' /\ Sorted'
    BY <1>1 DEF InheritInv, Holders, Lent, Sorted, Lenders, Waiting
  <1>3. ASSUME NEW m \in Mutexes, NEW w \in waiters[m], owner[m] = NoTask
        PROVE  /\ \E u \in Retrying(m)' : prio[u] >= prio[w]
               /\ prio[w] <= prio[t]
    <2>1. PICK u \in Retrying(m) : prio[u] >= prio[w]
      BY <1>3 DEF InheritInv, Bounded
    <2>2. u \in Retrying(m)' /\ u \in Tasks /\ w \in Tasks /\ prio[u] <= prio[t]
      BY <1>1, WaitersHoldNone DEF Retrying
    <2>3. QED
      BY <2>1, <2>2, PrioIs DEF Shape
  <1>4. Bounded'
    BY <1>1, <1>3 DEF InheritInv, Bounded
  <1>5. QED
    BY <1>2, <1>4 DEF InheritInv

(* Who takes a free mutex has its own priority, and those that wait for it have
   none above it. *)
LEMMA TakeInherit ==
  ASSUME Shape, InheritInv, NEW t \in Tasks, Try(t), owner[at[t].m] = NoTask
  PROVE  InheritInv'
  <1> DEFINE k == at[t].m
  <1>1. /\ Types /\ k \in Mutexes /\ k # 0 /\ owner[k] = NoTask /\ t # NoTask
        /\ cur = t /\ pendsv = 0 /\ \A m \in Mutexes : t \notin waiters[m]
    <2>1. Types /\ Place(t) /\ at[t].pc = "try" /\ at[t] \in Locals
      BY DEF Shape, Types, Try, Runs
    <2>2. k \in Mutexes /\ k # 0
      BY <2>1 DEF Place, Locals
    <2>3. Runs(t, "try")
      BY DEF Try
    <2>4. QED
      BY <2>1, <2>2, <2>3, Runner, Constants DEF Sections
  <1>2. /\ owner' = [owner EXCEPT ![k] = t] /\ Others(t) /\ at'[t] = Running
        /\ UNCHANGED <<prio, cur, pendsv, list, waiters, ahead>>
    <2>1. owner' = [owner EXCEPT ![k] = t] /\ UNCHANGED <<prio, cur, pendsv, list, waiters, ahead>>
      BY DEF Try, lists, sched
    <2>3. Others(t) /\ at'[t] = Running
      BY <1>1, TryAt
    <2>4. QED
      BY <2>1, <2>3
  <1>3. \A n \in Mutexes : owner[n] # t
    BY <1>1, NoHolder
  <1>4. prio[t] = Base[t]
    BY <1>1, <1>3, OwnPrio
  <1>5. /\ owner'[k] = t /\ \A n \in Mutexes : n # k => owner'[n] = owner[n]
        /\ \A u \in Tasks : u # t => at'[u] = at[u]
        /\ at'[t].m = 0
    BY <1>1, <1>2 DEF Types, Others, Running
  <1>6. Holders'
    BY <1>1, <1>3, <1>5 DEF InheritInv, Holders, Types
  <1>7. Lent'
    <2>1. ASSUME NEW x \in Tasks, prio[x] > Base[x]
          PROVE  \E n \in Mutexes : /\ owner'[n] = x
                                    /\ \E v \in waiters[n] \cup Lenders(n)' : prio[v] = prio[x]
      <3>0. PICK n \in Mutexes : /\ owner[n] = x
                               /\ \E v \in waiters[n] \cup Lenders(n) : prio[v] = prio[x]
        BY <2>1 DEF InheritInv, Lent
      <3>1. PICK v \in waiters[n] \cup Lenders(n) : owner[n] = x /\ prio[v] = prio[x]
        BY <3>0
      <3>2. n # k
        BY <1>1, <2>1, <3>1, Constants
      <3>3. v \in Tasks /\ at[v].m = n
        BY WaitersHoldNone
      <3>4. v \in Lenders(n) => v \in Lenders(n)'
        BY <1>2, <1>5, <3>2, <3>3 DEF Lenders, Waiting
      <3>5. QED
        BY <1>5, <3>1, <3>2, <3>4
    <2>2. QED
      BY <1>2, <2>1 DEF InheritInv, Lent
  <1>8. Bounded'
    <2>1. ASSUME NEW n \in Mutexes, NEW w \in waiters[n], n # k
          PROVE  /\ owner[n] # NoTask => /\ prio[w] <= prio[owner[n]]
                                         /\ prio[w] > Base[owner[n]] => at'[w].inh = 1
                 /\ owner[n] = NoTask => /\ \E u \in Retrying(n)' : prio[u] >= prio[w]
                                         /\ prio[w] <= prio[t]
      <3>1. w \in Tasks /\ at[w].m = n /\ at'[w] = at[w]
        BY <1>1, <1>5, WaitersHoldNone
      <3>2. \A u \in Retrying(n) : u \in Retrying(n)'
        BY <1>2, <1>5, <2>1 DEF Retrying
      <3>3. QED
        BY <1>1, <3>1, <3>2 DEF InheritInv, Bounded
    <2>2. ASSUME NEW w \in waiters[k] PROVE prio[w] <= prio[t] /\ ~(prio[w] > Base[t])
      <3>1. prio[w] <= prio[t]
        BY <1>1 DEF InheritInv, Bounded
      <3>2. prio[w] \in Nat /\ prio[t] \in Nat
        BY <1>1, WaitersHoldNone, PrioIs
      <3>3. QED
        BY <1>4, <3>1, <3>2
    <2>3. QED
      BY <1>1, <1>2, <1>5, <2>1, <2>2 DEF Bounded
  <1>9. Sorted'
    BY <1>2 DEF InheritInv, Sorted
  <1>10. QED
    BY <1>6, <1>7, <1>8, <1>9 DEF InheritInv

(* Without nesting a holder holds one mutex. *)
LEMMA HeldIs ==
  ASSUME Types, InheritInv, NEW h \in Tasks, NEW m \in Mutexes, owner[m] = h
  PROVE  Held(h) = {m} /\ Cardinality(Held(h)) = 1
  <1>1. Held(h) = {m}
    BY Constants DEF InheritInv, Holders, Held
  <1>2. QED
    BY <1>1, FS_Singleton

(* A task that has timed out gives way to the first of those that still wait. *)
LEMMA DisinheritInherit ==
  ASSUME Shape, InheritInv, NEW t \in Tasks, Disinherit(t)
  PROVE  InheritInv'
  <1> DEFINE k == at[t].m
             h == owner[k]
  <1>1. /\ Types /\ Lists /\ k \in Mutexes /\ k # 0 /\ at[t].pc = "disinherit"
        /\ cur = t /\ pendsv = 0 /\ \A m \in Mutexes : t \notin waiters[m]
    <2>1. Types /\ Lists /\ Place(t) /\ at[t].pc = "disinherit" /\ at[t] \in Locals
      BY DEF Shape, Types, Disinherit, Runs
    <2>2. k \in Mutexes /\ k # 0
      BY <2>1 DEF Place, Locals
    <2>3. Runs(t, "disinherit")
      BY DEF Disinherit
    <2>4. QED
      BY <2>1, <2>2, <2>3, Runner DEF Sections
  <1>2. /\ UNCHANGED <<owner, cur, pendsv, list, waiters, ahead>>
        /\ Others(t) /\ at'[t] = Running /\ DisinheritAfterTimeout(t, k)
    BY <1>1, ReturnDue DEF Disinherit, lists, sched
  <1>3. \A n \in Mutexes : owner[n] # t
    BY <1>1, NoHolder
  <1>4. /\ \A u \in Tasks : u # t => at'[u] = at[u]
        /\ at'[t].m = 0
    BY <1>1, <1>2 DEF Types, Others, Running
  <1>5. CASE ~(at[t].inh = 1 /\ h # NoTask)
    <2>1. prio' = prio
      BY <1>2, <1>5 DEF DisinheritAfterTimeout
    <2>2. \A n \in Mutexes : /\ t \in Lenders(n) => owner[n] = NoTask
                             /\ t \notin Retrying(n)
      BY <1>1, <1>5 DEF Lenders, Retrying
    <2>3. QED
      BY <1>1, <1>2, <1>4, <2>1, <2>2, InheritKept
  <1>6. CASE at[t].inh = 1 /\ h # NoTask
    <2>1. h \in Tasks /\ Cardinality(Held(h)) = 1 /\ h # t
      BY <1>1, <1>3, <1>6, PrioIs, HeldIs
    <2>2. PICK p \in IF waiters[k] = {} THEN {0} ELSE {prio[u] : u \in First(k)} :
            prio' = [prio EXCEPT ![h] = Highest(Base[h], p)]
      BY <1>2, <1>6, <2>1 DEF DisinheritAfterTimeout
    <2>3. /\ \A u \in Tasks : u # h => prio'[u] = prio[u]
          /\ prio'[h] = Highest(Base[h], p)
      BY <1>1, <2>1, <2>2 DEF Types
    <2>4. /\ p \in Nat /\ Base[h] \in Nat
          /\ \A w \in waiters[k] : prio[w] <= p
          /\ (waiters[k] = {} /\ p = 0) \/ \E u \in waiters[k] : p = prio[u]
      <3>1. CASE waiters[k] = {}
        BY <2>1, <2>2, <3>1, Constants
      <3>2. CASE waiters[k] # {}
        <4>1. PICK u \in First(k) : p = prio[u]
          BY <2>2, <3>2
        <4>2. u \in waiters[k] /\ u \in Tasks
          BY <1>1, <4>1, PrioIs DEF First
        <4>3. \A w \in waiters[k] : prio[w] <= p
          BY <1>1, <4>1, FirstHighest
        <4>4. QED
          BY <1>1, <2>1, <4>1, <4>2, <4>3, PrioIs
      <3>3. QED
        BY <3>1, <3>2
    <2>5. /\ prio'[h] >= Base[h] /\ prio'[h] >= p
          /\ prio'[h] > Base[h] => prio'[h] = p /\ p > 0
      BY <2>3, <2>4 DEF Highest
    <2>6. \A m \in Mutexes : \A u \in waiters[m] \cup Lenders(m) \cup Retrying(m) :
             u \in Tasks /\ at[u].m = m /\ m # 0 /\ prio'[u] = prio[u]
      BY <1>1, <2>3, WaitersHoldNone
    <2>7. Holders'
      BY <1>2, <1>3, <1>4, PrioIs, <1>1 DEF InheritInv, Holders
    <2>8. ASSUME NEW x \in Tasks
          PROVE  /\ prio'[x] >= Base[x]
                 /\ prio'[x] > Base[x] =>
                      \E n \in Mutexes : /\ owner[n] = x
                                         /\ \E v \in waiters[n] \cup Lenders(n)' : prio'[v] = prio'[x]
      <3>1. CASE x = h
        BY <1>1, <2>4, <2>5, <2>6, <3>1
      <3>2. CASE x # h
        <4>1. prio'[x] = prio[x] /\ prio[x] >= Base[x]
          BY <2>3, <3>2 DEF InheritInv, Lent
        <4>2. ASSUME prio[x] > Base[x]
              PROVE  \E n \in Mutexes : /\ owner[n] = x
                                        /\ \E v \in waiters[n] \cup Lenders(n)' : prio'[v] = prio'[x]
          <5>0. PICK n \in Mutexes : /\ owner[n] = x
                                     /\ \E v \in waiters[n] \cup Lenders(n) : prio[v] = prio[x]
            BY <4>2 DEF InheritInv, Lent
          <5>1. PICK v \in waiters[n] \cup Lenders(n) : prio[v] = prio[x]
            BY <5>0
          <5>2. n # k
            BY <3>2, <5>0
          <5>3. v \in Lenders(n) => v \in Lenders(n)'
            BY <1>2, <1>4, <2>6, <5>2 DEF Lenders, Waiting
          <5>4. QED
            BY <2>6, <4>1, <5>0, <5>1, <5>3
        <4>3. QED
          BY <4>1, <4>2
      <3>3. QED
        BY <3>1, <3>2
    <2>9. Lent'
      BY <1>2, <2>8 DEF Lent
    <2>10. ASSUME NEW n \in Mutexes, NEW w \in waiters[n], owner[n] # NoTask
           PROVE  /\ prio[w] <= prio'[owner[n]]
                  /\ prio[w] > Base[owner[n]] => at'[w].inh = 1
      <3>1. w \in Tasks /\ at'[w] = at[w] /\ prio[w] \in Nat
        BY <1>1, <1>4, <2>6, PrioIs
      <3>2. prio[w] <= prio[owner[n]] /\ (prio[w] > Base[owner[n]] => at[w].inh = 1)
        BY <2>10 DEF InheritInv, Bounded
      <3>3. CASE n = k
        <4>1. prio'[h] \in Nat
          BY <2>3, <2>4 DEF Highest
        <4>2. prio[w] <= prio'[h]
          BY <2>4, <2>5, <3>1, <3>3, <4>1
        <4>3. QED
          BY <3>1, <3>2, <3>3, <4>2
      <3>4. CASE n # k
        <4>1. owner[n] # h /\ owner[n] \in Tasks
          BY <1>1, <1>6, <2>10, <3>4, PrioIs DEF InheritInv, Holders
        <4>2. QED
          BY <2>3, <3>1, <3>2, <4>1
      <3>5. QED
        BY <3>3, <3>4
    <2>11. ASSUME NEW n \in Mutexes, NEW w \in waiters[n], owner[n] = NoTask
           PROVE  /\ \E u \in Retrying(n)' : prio'[u] >= prio[w]
                  /\ prio[w] <= prio'[t]
      <3>1. PICK u \in Retrying(n) : prio[u] >= prio[w]
        BY <2>11 DEF InheritInv, Bounded
      <3>2. n # k
        BY <1>6, <2>11
      <3>3. u \in Retrying(n)'
        BY <1>2, <1>4, <2>6, <3>2 DEF Retrying
      <3>4. prio[w] <= prio[t]
        BY <1>1, <2>11 DEF InheritInv, Bounded
      <3>5. QED
        BY <2>1, <2>3, <2>6, <3>1, <3>3, <3>4
    <2>12. Bounded'
      BY <1>1, <1>2, <2>6, <2>10, <2>11 DEF Bounded
    <2>13. Sorted'
      BY <1>2, <2>6 DEF InheritInv, Sorted
    <2>14. QED
      BY <2>7, <2>9, <2>12, <2>13 DEF InheritInv
  <1>7. QED
    BY <1>5, <1>6

(* A task that blocks lends its priority to the holder. *)
LEMMA BlockInherit ==
  ASSUME Shape, InheritInv, NEW t \in Tasks, Block(t)
  PROVE  /\ InheritInv'
         /\ cur = t /\ owner[at[t].m] # t
         /\ prio' = IF prio[owner[at[t].m]] < prio[t]
                      THEN [prio EXCEPT ![owner[at[t].m]] = prio[t]] ELSE prio
  <1> DEFINE k == at[t].m
             h == owner[k]
  <1>1. /\ Types /\ Lists /\ Place(t) /\ k \in Mutexes /\ k # 0 /\ h # NoTask
        /\ cur = t /\ pendsv = 0 /\ \A m \in Mutexes : t \notin waiters[m]
    <2>1. Types /\ Lists /\ Place(t) /\ at[t].pc = "check" /\ at[t] \in Locals
      BY DEF Shape, Types, Block, Runs
    <2>2. k \in Mutexes /\ k # 0
      BY <2>1 DEF Place, Locals
    <2>3. Runs(t, "check") /\ h # NoTask
      BY DEF Block
    <2>4. QED
      BY <2>1, <2>2, <2>3, Runner DEF Sections
  <1>2. /\ \A n \in Mutexes : owner[n] # t
        /\ h \in Tasks
    BY <1>1, NoHolder, PrioIs
  <1>3. /\ UNCHANGED <<owner, cur, pendsv>>
        /\ prio' = IF prio[h] < prio[t] THEN [prio EXCEPT ![h] = prio[t]] ELSE prio
    BY DEF Block, Inherit
  <1>4. /\ \A u \in Tasks : u # t => at'[u] = at[u]
        /\ at'[t].m = k /\ at'[t].inh = IF Base[h] < prio[t] THEN 1 ELSE 0
    BY <1>1, BlockAt DEF Others
  <1>5. /\ waiters'[k] = waiters[k] \cup {t}
        /\ \A n \in Mutexes \ {k} : waiters'[n] = waiters[n]
        /\ \A u, v \in Tasks : <<u, v>> \in ahead' <=>
              \/ <<u, v>> \in ahead
              \/ u \in Passed(k, t) /\ v = t
              \/ u = t /\ v \in waiters[k] \ Passed(k, t)
    <2>1. Insert(k, t) /\ ~Waiting(t)
      BY <1>1 DEF Block, Waiting
    <2>2. waiters \in [Mutexes -> SUBSET Tasks] /\ ahead \subseteq Tasks \X Tasks
      BY <1>1 DEF Types
    <2>3. QED
      BY <1>1, <2>1, <2>2, InsertOrdered
  <1>6. \A u \in Tasks : u # t => list'[u] = list[u]
    <2>1. StillWaits(t).left \in 0 .. Forever
      <3>1. at[t].pc = "check" /\ ~TimedOut(t)
        BY DEF Block, Runs
      <3>2. StillWaits(t).left \in 1 .. Forever
        BY <1>1, <3>1, StillWaitsIs
      <3>3. QED
        BY <3>2, Constants
    <2>2. AddOrSuspend(t, StillWaits(t).left)
      BY DEF Block
    <2>3. QED
      BY <1>1, <2>1, <2>2, AddOrSuspendIs
  <1>7. /\ \A u \in Tasks : u # h => prio'[u] = prio[u]
        /\ prio[h] \in Nat /\ prio[t] \in Nat /\ Base[h] \in Nat /\ prio'[h] \in Nat
        /\ prio'[h] >= prio[h] /\ prio'[h] >= prio[t]
        /\ prio'[h] = prio[h] \/ prio'[h] = prio[t]
    BY <1>1, <1>2, <1>3, PrioIs DEF Types
  <1>8. \A m \in Mutexes : \A u \in waiters[m] \cup Lenders(m) \cup Retrying(m) :
          u \in Tasks /\ at[u].m = m /\ m # 0 /\ prio'[u] = prio[u]
    BY <1>1, <1>7, WaitersHoldNone
  <1>9. Holders'
    <2>1. ASSUME NEW m \in Mutexes, owner[m] # NoTask PROVE at'[owner[m]].m = 0
      BY <1>1, <1>2, <1>4, <2>1, PrioIs DEF InheritInv, Holders
    <2>2. QED
      BY <1>3, <2>1 DEF InheritInv, Holders
  <1>10. ASSUME NEW x \in Tasks
         PROVE  /\ prio'[x] >= Base[x]
                /\ prio'[x] > Base[x] =>
                     \E n \in Mutexes : /\ owner[n] = x
                                        /\ \E v \in waiters'[n] \cup Lenders(n)' : prio'[v] = prio'[x]
    <2>1. prio[x] >= Base[x] /\ prio[x] \in Nat /\ Base[x] \in Nat
      BY <1>1, PrioIs DEF InheritInv, Lent
    <2>2. CASE prio'[x] # prio[x]
      <3>1. x = h /\ prio'[x] = prio[t] /\ prio'[t] = prio[t]
        BY <1>2, <1>7, <2>2
      <3>2. t \in waiters'[k]
        BY <1>5
      <3>3. prio'[x] >= Base[x]
        <4>1. prio'[x] \in Nat /\ prio'[x] >= prio[x]
          BY <1>7, <3>1
        <4>2. QED
          BY <2>1, <4>1
      <3>4. QED
        BY <1>1, <3>1, <3>2, <3>3
    <2>3. CASE prio'[x] = prio[x]
      <3>1. ASSUME prio[x] > Base[x]
            PROVE  \E n \in Mutexes : /\ owner[n] = x
                                      /\ \E v \in waiters'[n] \cup Lenders(n)' : prio'[v] = prio'[x]
        <4>0. PICK n \in Mutexes : /\ owner[n] = x
                                   /\ \E v \in waiters[n] \cup Lenders(n) : prio[v] = prio[x]
          BY <3>1 DEF InheritInv, Lent
        <4>1. PICK v \in waiters[n] \cup Lenders(n) : prio[v] = prio[x]
          BY <4>0
        <4>2. v \in Tasks /\ at[v].m = n /\ prio'[v] = prio[v]
          BY <1>8
        <4>3. v \in waiters[n] => v \in waiters'[n]
          BY <1>5
        <4>4. CASE v \in Lenders(n) /\ v = t
          <5>1. n = k
            BY <4>2, <4>4
          <5>2. QED
            BY <1>5, <2>3, <4>0, <4>1, <4>2, <4>4, <5>1
        <4>5. CASE v \in Lenders(n) /\ v # t
          <5>1. ~Waiting(v)'
            BY <1>5, <4>5 DEF Lenders, Waiting
          <5>2. v \in Lenders(n)'
            BY <1>4, <4>2, <4>5, <5>1 DEF Lenders
          <5>3. QED
            BY <2>3, <4>0, <4>1, <4>2, <5>2
        <4>6. QED
          BY <2>3, <4>0, <4>1, <4>2, <4>3, <4>4, <4>5
      <3>2. QED
        BY <2>1, <2>3, <3>1
    <2>4. QED
      BY <2>2, <2>3
  <1>11. Lent'
    BY <1>3, <1>10 DEF Lent
  <1>12. ASSUME NEW n \in Mutexes, NEW w \in waiters'[n], owner[n] # NoTask
         PROVE  /\ prio'[w] <= prio'[owner[n]]
                /\ prio'[w] > Base[owner[n]] => at'[w].inh = 1
    <2>1. CASE w = t
      <3>1. n = k
        BY <1>1, <1>5, <2>1
      <3>2. prio'[t] = prio[t]
        BY <1>2, <1>7
      <3>3. prio[t] > Base[h] => at'[t].inh = 1
        BY <1>4, <1>7
      <3>4. QED
        BY <1>7, <2>1, <3>1, <3>2, <3>3
    <2>2. CASE w # t
      <3>1. w \in waiters[n]
        BY <1>5, <2>2
      <3>2. w \in Tasks /\ at'[w] = at[w] /\ prio'[w] = prio[w] /\ prio[w] \in Nat
        BY <1>1, <1>4, <1>8, <2>2, <3>1, PrioIs
      <3>3. prio[w] <= prio[owner[n]] /\ (prio[w] > Base[owner[n]] => at[w].inh = 1)
        BY <1>12, <3>1 DEF InheritInv, Bounded
      <3>4. owner[n] \in Tasks
        BY <1>1, <1>12, PrioIs
      <3>5. CASE owner[n] = h
        BY <1>7, <3>2, <3>3, <3>5
      <3>6. CASE owner[n] # h
        BY <1>7, <3>2, <3>3, <3>4, <3>6
      <3>7. QED
        BY <3>5, <3>6
    <2>3. QED
      BY <2>1, <2>2
  <1>13. ASSUME NEW n \in Mutexes, NEW w \in waiters'[n], owner[n] = NoTask
         PROVE  /\ \E u \in Retrying(n)' : prio'[u] >= prio'[w]
                /\ prio'[w] <= prio'[t]
    <2>1. n # k /\ w \in waiters[n]
      BY <1>1, <1>5, <1>13
    <2>2. PICK u \in Retrying(n) : prio[u] >= prio[w]
      BY <1>13, <2>1 DEF InheritInv, Bounded
    <2>3. u \in Retrying(n)'
      <3>1. u \in Tasks /\ u # t
        BY <1>8, <2>1
      <3>2. QED
        BY <1>4, <1>6, <3>1 DEF Retrying
    <2>4. prio[w] <= prio[t]
      BY <1>1, <1>13, <2>1 DEF InheritInv, Bounded
    <2>5. prio'[t] = prio[t] /\ prio'[w] = prio[w] /\ prio'[u] = prio[u]
      BY <1>2, <1>7, <1>8, <2>1
    <2>6. QED
      BY <2>2, <2>3, <2>4, <2>5
  <1>14. Bounded'
    BY <1>1, <1>3, <1>12, <1>13 DEF Bounded
  <1>15. ASSUME NEW n \in Mutexes, NEW u \in waiters'[n], NEW v \in waiters'[n], <<u, v>> \in ahead'
         PROVE  prio'[u] >= prio'[v]
    <2>1. u \in Tasks /\ v \in Tasks /\ (u # t => u \in waiters[n]) /\ (v # t => v \in waiters[n])
      BY <1>5, <1>8
    <2>2. /\ prio'[u] = prio[u] /\ prio'[v] = prio[v]
          /\ prio[u] \in Nat /\ prio[v] \in Nat /\ prio'[t] = prio[t]
      BY <1>1, <1>2, <1>7, <1>8, <2>1, PrioIs
    <2>3. CASE <<u, v>> \in ahead
      <3>1. u # t /\ v # t
        BY <1>1, <2>1, <2>3 DEF Lists, Waiting
      <3>2. QED
        BY <2>1, <2>2, <2>3, <3>1 DEF InheritInv, Sorted
    <2>4. CASE u \in Passed(k, t) /\ v = t
      BY <2>2, <2>4 DEF Passed
    <2>5. CASE u = t /\ v \in waiters[k] \ Passed(k, t)
      <3>1. PICK x \in waiters[k] : (x = v \/ <<x, v>> \in ahead) /\ ~(prio[x] >= prio[t])
        BY <2>5 DEF Passed
      <3>2. CASE x = v
        BY <2>2, <2>5, <3>1, <3>2
      <3>3. CASE <<x, v>> \in ahead
        <4>1. prio[x] >= prio[v]
          BY <1>1, <2>5, <3>1, <3>3 DEF InheritInv, Sorted
        <4>2. prio[x] \in Nat
          BY <1>1, <1>8, <3>1, PrioIs
        <4>3. QED
          BY <2>2, <2>5, <3>1, <4>1, <4>2
      <3>4. QED
        BY <3>1, <3>2, <3>3
    <2>6. QED
      BY <1>5, <1>15, <2>1, <2>3, <2>4, <2>5
  <1>16. Sorted'
    BY <1>15 DEF Sorted
  <1>17. QED
    BY <1>1, <1>2, <1>3, <1>9, <1>11, <1>14, <1>16 DEF InheritInv

(* xTaskPriorityDisinherit: the holder has its own priority again, and the first
   of those that wait, who has the highest priority of them, is on its way.  If
   that is above the holder's, the switch to it is pending; it is here that a
   harmful time-out of a task that lent, or a second mutex, would lose it. *)
LEMMA GiveInherit ==
  ASSUME Shape, InheritInv, Single \/ Harmless,
         NEW t \in Tasks, NEW k \in Mutexes, Give(t, k)
  PROVE  /\ InheritInv'
         /\ cur = t /\ pendsv = 0
         /\ prio' = [prio EXCEPT ![t] = Base[t]]
         /\ pendsv' = 0 => /\ \A u \in waiters[k] : prio[u] <= Base[t]
                           /\ Harmless => prio[t] = Base[t]
  <1>1. /\ Types /\ Lists /\ t # NoTask /\ at[t].m = 0
        /\ cur = t /\ pendsv = 0 /\ \A m \in Mutexes : t \notin waiters[m]
    <2>1. Types /\ Lists /\ Place(t) /\ at[t].pc = "run"
      BY DEF Shape, Give, Runs
    <2>2. Runs(t, "run")
      BY DEF Give
    <2>3. at[t] = Running
      BY <2>1 DEF Place
    <2>4. at[t].m = 0
      BY <2>3 DEF Running
    <2>5. QED
      BY <2>1, <2>2, <2>4, Runner, Constants DEF Sections
  <1>2. /\ owner' = [owner EXCEPT ![k] = NoTask] /\ owner[k] = t
        /\ prio' = [prio EXCEPT ![t] = IF LastGiven(t) THEN Base[t] ELSE prio[t]]
        /\ \/ waiters[k] = {} /\ UNCHANGED <<list, waiters, ahead>>
           \/ \E u \in First(k) :
                /\ u \in waiters[k] /\ list' = [list EXCEPT ![u] = "ready"]
                /\ \A n \in Mutexes : waiters'[n] = waiters[n] \ {u}
                /\ \A v, w \in Tasks : <<v, w>> \in ahead' <=>
                     <<v, w>> \in ahead /\ v # u /\ w # u
        /\ UNCHANGED <<at, cur>>
    BY <1>1, GiveIs
  <1>3. LastGiven(t) <=> prio[t] # Base[t]
    BY <1>1, <1>2, HeldIs DEF LastGiven
  <1>4. /\ prio' = [prio EXCEPT ![t] = Base[t]]
        /\ prio'[t] = Base[t] /\ \A u \in Tasks : u # t => prio'[u] = prio[u]
        /\ prio[t] \in Nat /\ Base[t] \in Nat /\ prio[t] >= Base[t]
    <2>1. prio[t] \in Nat /\ Base[t] \in Nat /\ prio[t] >= Base[t]
      BY <1>1, PrioIs DEF InheritInv, Lent
    <2>2. prio' = [prio EXCEPT ![t] = Base[t]]
      BY <1>2, <1>3
    <2>3. QED
      BY <1>1, <2>1, <2>2 DEF Types
  <1>5. pendsv' = IF GivenYields(t, k, Base[t]) THEN 1 ELSE 0
    BY <1>3 DEF Give
  <1>6. \A m \in Mutexes : \A u \in waiters[m] \cup Lenders(m) \cup Retrying(m) :
           u \in Tasks /\ at[u].m = m /\ m # 0 /\ u # t /\ prio'[u] = prio[u] /\ prio[u] \in Nat
    BY <1>1, <1>4, WaitersHoldNone, PrioIs
  <1>7. \A u \in First(k) : \A w \in waiters[k] : prio[w] <= prio[u]
    BY <1>1, FirstHighest
  <1>8. waiters[k] # {} => \E u \in First(k) : u \in waiters[k]
    BY <1>2
  <1>9. pendsv' = 0 => \A u \in waiters[k] : prio[u] <= Base[t]
    <2>1. SUFFICES ASSUME pendsv' = 0, NEW w \in waiters[k] PROVE prio[w] <= Base[t]
      OBVIOUS
    <2>2. PICK u \in First(k) : u \in waiters[k]
      BY <1>8
    <2>3. ~(prio[u] > Base[t])
      BY <1>5, <2>1, <2>2 DEF GivenYields
    <2>4. prio[w] <= prio[u] /\ prio[u] \in Nat /\ prio[w] \in Nat
      BY <1>6, <1>7, <2>2
    <2>5. QED
      BY <1>4, <2>3, <2>4
  <1>10. ASSUME pendsv' = 0, Harmless PROVE prio[t] = Base[t]
    <2>1. SUFFICES ASSUME prio[t] > Base[t] PROVE FALSE
      BY <1>4
    <2>2. PICK m \in Mutexes : /\ owner[m] = t
                               /\ \E v \in waiters[m] \cup Lenders(m) : prio[v] = prio[t]
      BY <2>1 DEF InheritInv, Lent
    <2>3. m = k
      BY <1>1, <1>2, <2>2 DEF InheritInv, Holders
    <2>4. PICK v \in waiters[k] \cup Lenders(k) : prio[v] = prio[t]
      BY <2>2, <2>3
    <2>5. CASE v \in waiters[k]
      <3>1. prio[t] <= Base[t]
        BY <1>9, <1>10, <2>4, <2>5
      <3>2. QED
        BY <1>4, <2>1, <3>1
    <2>6. CASE v \in Lenders(k)
      <3>1. LastGiven(t)
        BY <1>3, <1>4, <2>1
      <3>2. PICK w \in waiters[k] : TRUE
        BY <1>5, <1>10, <3>1 DEF GivenYields
      <3>3. prio[w] <= Base[t] /\ prio[w] \in Nat
        BY <1>6, <1>9, <1>10
      <3>4. prio[v] <= Base[t] \/ prio[w] > Base[t]
        BY <1>1, <1>2, <1>10, <2>6 DEF Harmless
      <3>5. QED
        BY <1>4, <2>1, <2>4, <3>3, <3>4
    <2>7. QED
      BY <2>4, <2>5, <2>6
  <1>11. Holders'
    BY <1>1, <1>2 DEF InheritInv, Holders, Types
  <1>12. /\ \A n \in Mutexes : waiters'[n] \subseteq waiters[n]
         /\ \A n \in Mutexes : n # k => waiters'[n] = waiters[n]
         /\ \A u \in Tasks : list[u] = "ready" => list'[u] = "ready"
         /\ \A u, v \in Tasks : <<u, v>> \in ahead' => <<u, v>> \in ahead
         /\ \A n \in Mutexes : n # k => owner'[n] = owner[n]
         /\ owner'[k] = NoTask
    <2>1. \A n \in Mutexes : n # k => owner'[n] = owner[n]
      BY <1>1, <1>2 DEF Types
    <2>2. owner'[k] = NoTask
      BY <1>1, <1>2 DEF Types
    <2>3. CASE waiters[k] = {} /\ UNCHANGED <<list, waiters, ahead>>
      BY <2>1, <2>2, <2>3
    <2>4. CASE waiters[k] # {}
      <3>1. PICK u \in First(k) :
              /\ u \in waiters[k] /\ list' = [list EXCEPT ![u] = "ready"]
              /\ \A n \in Mutexes : waiters'[n] = waiters[n] \ {u}
              /\ \A v, w \in Tasks : <<v, w>> \in ahead' <=>
                   <<v, w>> \in ahead /\ v # u /\ w # u
        BY <1>2, <2>4
      <3>2. \A n \in Mutexes : n # k => u \notin waiters[n]
        BY <1>6, <3>1
      <3>3. \A v \in Tasks : list[v] = "ready" => list'[v] = "ready"
        BY <1>1, <3>1 DEF Types
      <3>4. QED
        BY <2>1, <2>2, <3>1, <3>2, <3>3
    <2>5. QED
      BY <1>2, <2>3, <2>4
  <1>13. \A n \in Mutexes : /\ Lenders(n) \subseteq Lenders(n)'
                            /\ Retrying(n) \subseteq Retrying(n)'
    BY <1>2, <1>12 DEF Lenders, Retrying, Waiting
  <1>14. ASSUME NEW x \in Tasks
         PROVE  /\ prio'[x] >= Base[x]
                /\ prio'[x] > Base[x] =>
                     \E n \in Mutexes : /\ owner'[n] = x
                                        /\ \E v \in waiters'[n] \cup Lenders(n)' : prio'[v] = prio'[x]
    <2>1. CASE x = t
      BY <1>4, <2>1
    <2>2. CASE x # t
      <3>1. prio'[x] = prio[x] /\ prio[x] >= Base[x]
        BY <1>4, <2>2 DEF InheritInv, Lent
      <3>2. ASSUME prio[x] > Base[x]
            PROVE  \E n \in Mutexes : /\ owner'[n] = x
                                      /\ \E v \in waiters'[n] \cup Lenders(n)' : prio'[v] = prio'[x]
        <4>1. PICK n \in Mutexes : /\ owner[n] = x
                                   /\ \E v \in waiters[n] \cup Lenders(n) : prio[v] = prio[x]
          BY <3>2 DEF InheritInv, Lent
        <4>2. PICK v \in waiters[n] \cup Lenders(n) : prio[v] = prio[x]
          BY <4>1
        <4>3. n # k
          BY <1>2, <2>2, <4>1
        <4>4. QED
          BY <1>6, <1>12, <1>13, <3>1, <4>1, <4>2, <4>3
      <3>3. QED
        BY <3>1, <3>2
    <2>3. QED
      BY <2>1, <2>2
  <1>15. Lent'
    BY <1>14 DEF Lent
  <1>16. ASSUME NEW w \in waiters'[k]
         PROVE  /\ \E u \in Retrying(k)' : prio'[u] >= prio'[w]
                /\ pendsv' = 0 => prio'[w] <= prio'[t]
    <2>1. w \in waiters[k]
      BY <1>12
    <2>2. PICK u \in First(k) : u \in waiters[k] /\ list' = [list EXCEPT ![u] = "ready"]
      BY <1>2, <2>1
    <2>3. u \in Retrying(k)'
      <3>1. u \in Tasks /\ at'[u] = at[u] /\ list'[u] = "ready"
        BY <1>1, <1>2, <1>6, <2>2 DEF Types
      <3>2. at[u].m = k /\ PastTake(u)
        BY <2>2, <3>1 DEF Shape, Blocked
      <3>3. QED
        BY <3>1, <3>2 DEF Retrying, PastTake, Sections
    <2>4. prio[w] <= prio[u]
      BY <1>7, <2>1, <2>2
    <2>5. prio'[u] = prio[u] /\ prio'[w] = prio[w] /\ prio[u] \in Nat /\ prio[w] \in Nat
      BY <1>6, <2>1, <2>2
    <2>6. prio'[u] >= prio'[w]
      BY <2>4, <2>5
    <2>7. QED
      BY <1>4, <1>9, <2>1, <2>3, <2>5, <2>6
  <1>17. ASSUME NEW n \in Mutexes, n # k, NEW w \in waiters'[n]
         PROVE  /\ owner[n] # NoTask => /\ prio'[w] <= prio'[owner[n]]
                                        /\ prio'[w] > Base[owner[n]] => at[w].inh = 1
                /\ owner[n] = NoTask => /\ \E u \in Retrying(n)' : prio'[u] >= prio'[w]
                                        /\ pendsv' = 0 => prio'[w] <= prio'[t]
    <2>1. w \in waiters[n] /\ prio'[w] = prio[w]
      BY <1>6, <1>12, <1>17
    <2>2. CASE owner[n] # NoTask
      <3>1. owner[n] # t /\ owner[n] \in Tasks
        BY <1>1, <1>2, <1>17, <2>2, PrioIs DEF InheritInv, Holders
      <3>2. QED
        BY <1>4, <2>1, <2>2, <3>1 DEF InheritInv, Bounded
    <2>3. CASE owner[n] = NoTask
      <3>1. PICK u \in Retrying(n) : prio[u] >= prio[w]
        BY <2>1, <2>3 DEF InheritInv, Bounded
      <3>2. u \in Retrying(n)' /\ prio'[u] = prio[u]
        BY <1>6, <1>13, <3>1
      <3>3. prio[w] <= prio[t]
        BY <1>1, <2>1, <2>3 DEF InheritInv, Bounded
      <3>4. pendsv' = 0 => prio[t] = Base[t]
        BY <1>10, <1>17 DEF Single
      <3>5. QED
        BY <1>4, <2>1, <2>3, <3>1, <3>2, <3>3, <3>4
    <2>4. QED
      BY <2>2, <2>3
  <1>18. Bounded'
    BY <1>1, <1>2, <1>12, <1>16, <1>17 DEF Bounded
  <1>19. Sorted'
    BY <1>6, <1>12 DEF InheritInv, Sorted
  <1>20. QED
    BY <1>1, <1>4, <1>9, <1>10, <1>11, <1>15, <1>18, <1>19 DEF InheritInv

LEMMA NextInherit ==
  ASSUME Shape, InheritInv, Unnested, Single \/ Harmless, [Next]_vars
  PROVE  InheritInv'
  <1>0. Types /\ Lists
    BY DEF Shape
  (* The tick, whoever counts it. *)
  <1>1. ASSUME UNCHANGED <<at, prio, owner, cur>>, pendsv' = 0 => pendsv = 0, IncrementTick
        PROVE  InheritInv'
    <2>1. /\ \A u, v \in Tasks : <<u, v>> \in ahead' => <<u, v>> \in ahead
          /\ \A m \in Mutexes : waiters'[m] = waiters[m] \ Over
          /\ \A u \in Tasks : /\ u \in Over => list[u] \in {"delayed", "overflow"}
                              /\ list[u] = "ready" => list'[u] = "ready"
      BY <1>0, <1>1, IncrementTickIs
    <2>2. \A m \in Mutexes : \A u \in waiters[m] : u \notin waiters'[m] => list[u] # "suspended"
      BY <1>0, <2>1, PrioIs
    <2>3. QED
      BY <1>1, <2>1, <2>2, InheritStays
  <1>2. ASSUME NEW t \in Tasks, Step(t) PROVE InheritInv'
    <2>1. CASE \/ \E m \in Mutexes, n \in Ticks(t, "take") : CallTake(t, m, n)
               \/ Try(t) /\ owner[at[t].m] # NoTask
               \/ DoNotBlock(t) \/ Expired(t) \/ Woke(t) \/ NotifyReceived(t)
               \/ \E n \in Ticks(t, "delay") : Delay(t, n)
               \/ \E n \in Ticks(t, "until") : DelayUntil(t, n)
               \/ \E n \in Ticks(t, "wait") : NotifyWait(t, n)
               \/ ResumeAll(t) \/ Resumed(t) \/ Yield(t)
      BY <2>1, PlainInherit
    <2>2. CASE Try(t) /\ owner[at[t].m] = NoTask
      BY <2>2, TakeInherit
    <2>3. CASE Block(t)
      BY <2>3, BlockInherit
    <2>4. CASE Disinherit(t)
      BY <2>4, DisinheritInherit
    <2>5. ASSUME NEW m \in Mutexes, Give(t, m) PROVE InheritInv'
      BY <2>5, GiveInherit
    <2>6. ASSUME NEW u \in Tasks, Notify(t, u) PROVE InheritInv'
      <3>1. UNCHANGED <<at, prio, owner, cur, waiters, ahead>> /\ pendsv = 0
        BY <2>6 DEF Notify, Runs
      <3>2. \A v \in Tasks : list[v] = "ready" => list'[v] = "ready"
        BY <1>0, <2>6 DEF Notify, Types
      <3>3. QED
        BY <3>1, <3>2, InheritStays
    <2>7. CASE CatchUp(t)
      BY <1>1, <2>7 DEF CatchUp
    <2>8. QED
      BY <1>2, <2>1, <2>2, <2>3, <2>4, <2>5, <2>6, <2>7 DEF Step
  <1>3. ASSUME NEW t \in Tasks, SwitchContext(t) PROVE InheritInv'
    BY <1>3, SwitchInherit
  <1>4. ASSUME NEW t \in Tasks, NotifyFromISR(t) PROVE InheritInv'
    <2>1. UNCHANGED <<at, prio, owner, cur, waiters, ahead, pendsv>>
      BY <1>4 DEF NotifyFromISR
    <2>2. \A v \in Tasks : list[v] = "ready" => list'[v] = "ready"
      BY <1>0, <1>4 DEF NotifyFromISR, Types
    <2>3. QED
      BY <2>1, <2>2, InheritStays
  <1>5. CASE Tick
    <2>1. UNCHANGED <<at, prio, owner, cur>>
      BY <1>5 DEF Tick
    <2>2. CASE IncrementTick
      <3>1. pendsv' = 0 => pendsv = 0
        BY <1>5 DEF Tick
      <3>2. QED
        BY <1>1, <2>1, <2>2, <3>1
    <2>3. CASE UNCHANGED <<lists, pendsv>>
      BY <2>1, <2>3, InheritStays DEF lists
    <2>4. QED
      BY <1>5, <2>2, <2>3 DEF Tick
  <1>6. CASE UNCHANGED vars
    BY <1>6, InheritStays DEF vars, lists, sched
  <1>7. QED
    BY <1>2, <1>3, <1>4, <1>5, <1>6 DEF Next

(* Who lends, waits or holds has called so, and, without nesting, those that lend
   or wait have their own priority. *)
LEMMA HarmlessHolds ==
  ASSUME Shape, InheritInv, Called, TimeOutsHarmless
  PROVE  Harmless
  <1> SUFFICES ASSUME NEW m \in Mutexes, owner[m] # NoTask,
                      NEW l \in Lenders(m), NEW w \in waiters[m]
               PROVE  prio[l] <= Base[owner[m]] \/ prio[w] > Base[owner[m]]
    BY DEF Harmless
  <1> DEFINE h == owner[m]
  <1>1. /\ Types /\ h \in Tasks /\ l \in Tasks /\ w \in Tasks
        /\ at[l].m = m /\ at[w].m = m /\ m # 0 /\ l # h /\ w # h
        /\ prio[l] = Base[l] /\ prio[w] = Base[w]
    <2>1. Types /\ h \in Tasks
      BY PrioIs DEF Shape
    <2>2. /\ l \in Tasks /\ at[l].m = m /\ m # 0 /\ \A n \in Mutexes : owner[n] # l
          /\ w \in Tasks /\ at[w].m = m /\ \A n \in Mutexes : owner[n] # w
      BY WaitersHoldNone
    <2>3. QED
      BY <2>1, <2>2, OwnPrio
  <1>2. l # w
    BY DEF Lenders, Waiting
  <1>3. ~(Ticks(l, "take") \subseteq {0, Forever})
    BY <1>1 DEF Called, CalledBy, Lenders
  <1>4. ~(Ticks(w, "take") \subseteq {0})
    <2>1. at[w].left > 0
      BY <1>1 DEF Shape, Blocked
    <2>2. at[w].left # 0
      BY <2>1
    <2>3. QED
      BY <1>1, <2>2 DEF Called, CalledBy
  <1>5. Ticks(h, "take") # {}
    BY DEF Called
  <1>6. Base[l] <= Base[h] \/ Base[w] > Base[h]
    BY <1>1, <1>2, <1>3, <1>4, <1>5 DEF TimeOutsHarmless
  <1>7. QED
    BY <1>1, <1>6

LEMMA NextCalled ==
  ASSUME Shape, Called, [Next]_vars
  PROVE  Called'
  <1>0. Types /\ \A t \in Tasks : Place(t) /\ at[t] \in Locals
    BY DEF Shape, Types
  <1>1. ASSUME UNCHANGED at, \A m \in Mutexes : owner'[m] = owner[m] \/ owner'[m] = NoTask
        PROVE  Called'
    BY <1>1 DEF Called, CalledBy
  <1>2. ASSUME NEW t \in Tasks, Others(t), CalledBy(t)',
               \A m \in Mutexes : \/ owner'[m] = owner[m]
                                  \/ owner'[m] = t /\ at[t].m # 0
        PROVE  Called'
    BY <1>2 DEF Called, CalledBy, Others
  <1>3. ASSUME NEW t \in Tasks, Step(t) PROVE Called'
    <2>0. CalledBy(t)
      BY DEF Called
    <2>1. ASSUME NEW m \in Mutexes, NEW n \in Ticks(t, "take"), CallTake(t, m, n)
          PROVE  Called'
      <3>1. n \in 0 .. Forever
        BY CallTicks
      <3>2. Others(t) /\ at'[t].left = n /\ at'[t].inh = 0
        BY <1>0, <2>1, <3>1, CallTakeAt
      <3>3. n < Forever => n # Forever
        BY <3>1, Constants
      <3>4. CalledBy(t)'
        BY <3>2, <3>3 DEF CalledBy, Ticks
      <3>5. QED
        BY <1>2, <2>1, <3>2, <3>4 DEF CallTake
    <2>2. CASE Try(t)
      <3>1. /\ Others(t)
            /\ \/ at'[t] = Running
               \/ /\ at'[t].m = at[t].m /\ at'[t].left = at[t].left
                  /\ at'[t].inh = at[t].inh
        <4>1. Types /\ Others(t)
          BY <1>0, <2>2, TryAt
        <4>2. CASE owner[at[t].m] = NoTask \/ at[t].left = 0
          BY <1>0, <2>2, <4>1, <4>2, TryAt
        <4>3. CASE ~(owner[at[t].m] = NoTask \/ at[t].left = 0)
          BY <2>2, <4>1, <4>3, TryAt
        <4>4. QED
          BY <4>2, <4>3
      <3>2. CalledBy(t)'
        BY <2>0, <3>1 DEF CalledBy, Running, Ticks
      <3>3. at[t].m # 0 /\ at[t].m \in Mutexes
        BY <1>0, <2>2 DEF Try, Runs, Place, Locals
      <3>4. \A m \in Mutexes : owner'[m] = owner[m] \/ owner'[m] = t
        BY <1>0, <2>2, <3>3 DEF Try, Types
      <3>5. QED
        BY <1>2, <3>1, <3>2, <3>3, <3>4
    <2>3. CASE Block(t) \/ DoNotBlock(t)
      <3>1. at[t].pc = "check" /\ at[t].m # 0 /\ at[t].left # 0
        BY <1>0, <2>3 DEF Block, DoNotBlock, Runs, Place
      <3>2. /\ Ticks(t, "take") # {} /\ ~(Ticks(t, "take") \subseteq {0})
            /\ at[t].left < Forever => ~(Ticks(t, "take") \subseteq {0, Forever})
        BY <2>0, <3>1 DEF CalledBy
      <3>3. at[t].left = Forever \/ at[t].left < Forever
        BY <1>0, Constants DEF Locals
      <3>4. CASE Block(t)
        <4>1. Others(t) /\ at'[t].left = StillWaits(t).left
          BY <1>0, <3>4, BlockAt
        <4>2. at[t].left = Forever => ~(at'[t].left < Forever)
          BY <4>1, Constants DEF StillWaits
        <4>3. CalledBy(t)'
          BY <3>2, <3>3, <4>2 DEF CalledBy, Ticks
        <4>4. QED
          BY <1>2, <3>4, <4>1, <4>3 DEF Block
      <3>5. CASE DoNotBlock(t)
        <4>1. /\ Others(t)
              /\ \/ at'[t].left = StillWaits(t).left
                 \/ TimedOut(t)
          BY <1>0, <3>5, DoNotBlockAt
        <4>2. at[t].left = Forever => ~(at'[t].left < Forever)
          BY <4>1, Constants DEF StillWaits, TimedOut
        <4>3. CalledBy(t)'
          BY <3>2, <3>3, <4>2 DEF CalledBy, Ticks
        <4>4. QED
          BY <1>2, <3>5, <4>1, <4>3 DEF DoNotBlock
      <3>6. QED
        BY <2>3, <3>4, <3>5
    <2>4. ASSUME UNCHANGED owner, Others(t),
                 \/ at'[t].m = 0
                 \/ at'[t].m = at[t].m /\ at'[t].left = at[t].left /\ at'[t].inh = at[t].inh
          PROVE  Called'
      <3>1. CalledBy(t)'
        BY <2>0, <2>4 DEF CalledBy, Ticks
      <3>2. QED
        BY <1>2, <2>4, <3>1
    <2>5. CASE Expired(t)
      <3>1. UNCHANGED owner /\ (Return(t) \/ Goto(t, "try") \/ Goto(t, "disinherit"))
        BY <2>5 DEF Expired
      <3>2. CASE Return(t)
        BY <1>0, <2>4, <3>1, <3>2, ReturnDue DEF Running
      <3>3. CASE Goto(t, "try")
        BY <1>0, <2>4, <3>1, <3>3, GotoAt DEF Places
      <3>4. CASE Goto(t, "disinherit")
        BY <1>0, <2>4, <3>1, <3>4, GotoAt DEF Places
      <3>5. QED
        BY <3>1, <3>2, <3>3, <3>4
    <2>6. CASE Disinherit(t) \/ Woke(t) \/ NotifyReceived(t)
      <3>1. UNCHANGED owner /\ Return(t)
        BY <2>6 DEF Disinherit, Woke, NotifyReceived
      <3>2. QED
        BY <1>0, <2>4, <3>1, ReturnDue DEF Running
    <2>7. ASSUME NEW n, Delay(t, n) \/ DelayUntil(t, n) PROVE Called'
      <3>1. UNCHANGED owner /\ at[t] = Running
        BY <1>0, <2>7 DEF Delay, DelayUntil, Runs, Place
      <3>2. Others(t) /\ at'[t].m = 0
        BY <1>0, <2>7, <3>1, SleepAt DEF Delay, DelayUntil
      <3>3. QED
        BY <2>4, <3>1, <3>2
    <2>8. ASSUME NEW n \in Ticks(t, "wait"), NotifyWait(t, n) PROVE Called'
      <3>1. n \in 0 .. Forever /\ UNCHANGED owner
        BY <2>8, CallTicks DEF NotifyWait
      <3>2. Others(t) /\ at'[t].m = 0
        BY <1>0, <2>8, <3>1, NotifyWaitAt
      <3>3. QED
        BY <2>4, <3>1, <3>2
    <2>9. CASE ResumeAll(t)
      BY <1>0, <2>4, <2>9, GotoAt DEF ResumeAll, Places, Sections
    <2>10. CASE Resumed(t)
      BY <1>0, <2>4, <2>10, ForceAt, ContinueAt DEF Resumed
    <2>11. CASE Yield(t)
      BY <1>0, <2>4, <2>11, ContinueAt DEF Yield
    <2>12. ASSUME NEW m \in Mutexes, Give(t, m) PROVE Called'
      <3>1. UNCHANGED at /\ owner' = [owner EXCEPT ![m] = NoTask]
        BY <2>12 DEF Give
      <3>2. QED
        BY <1>0, <1>1, <3>1 DEF Types
    <2>13. CASE CatchUp(t) \/ \E u \in Tasks : Notify(t, u)
      BY <1>1, <2>13 DEF CatchUp, Notify
    <2>14. QED
      BY <1>3, <2>1, <2>2, <2>3, <2>5, <2>6, <2>7, <2>8, <2>9, <2>10, <2>11, <2>12, <2>13 DEF Step
  <1>4. CASE Tick \/ UNCHANGED vars \/ \E t \in Tasks : SwitchContext(t) \/ NotifyFromISR(t)
    BY <1>1, <1>4 DEF Tick, vars, SwitchContext, NotifyFromISR
  <1>5. QED
    BY <1>3, <1>4 DEF Next

LEMMA FirstInherit == Init => InheritInv /\ Called
  <1> SUFFICES ASSUME Init PROVE InheritInv /\ Called
    OBVIOUS
  <1>1. /\ \A t \in Tasks : prio[t] = Base[t] /\ at[t] = Running
        /\ \A m \in Mutexes : owner[m] = NoTask /\ waiters[m] = {}
    BY DEF Init
  <1>2. \A t \in Tasks : Base[t] \in Nat /\ at[t].m = 0
    BY <1>1, Constants DEF Running
  <1>3. QED
    BY <1>1, <1>2 DEF InheritInv, Holders, Lent, Bounded, Sorted, Called, CalledBy

(* What the property needs of the invariant. *)
LEMMA InheritedHolds ==
  ASSUME Shape, InheritInv
  PROVE  Inherited
  <1>1. ASSUME NEW t \in Tasks, NEW m \in Held(t), NEW u \in waiters[m] PROVE prio[t] >= prio[u]
    <2>1. m \in Mutexes /\ owner[m] = t /\ owner[m] # NoTask
      BY Constants DEF Held
    <2>2. prio[u] <= prio[t]
      BY <2>1 DEF InheritInv, Bounded
    <2>3. prio[u] \in Nat /\ prio[t] \in Nat
      BY <2>1, PrioIs DEF Shape
    <2>4. QED
      BY <2>2, <2>3
  <1>2. \A m \in Mutexes : Lenders(m) \subseteq Leaving(m)
    BY DEF Lenders, Leaving
  <1>3. ASSUME NEW t \in Tasks, prio[t] > Base[t]
        PROVE  \E m \in Held(t) : \E u \in waiters[m] \cup Leaving(m) : prio[u] = prio[t]
    <2>1. PICK m \in Mutexes : /\ owner[m] = t
                               /\ \E u \in waiters[m] \cup Lenders(m) : prio[u] = prio[t]
      BY <1>3 DEF InheritInv, Lent
    <2>2. QED
      BY <1>2, <2>1 DEF Held
  <1>4. QED
    BY <1>1, <1>3 DEF Inherited

(* xTaskPriorityInherit, xTaskPriorityDisinherit and
   vTaskPriorityDisinheritAfterTimeout: the holder of a mutex runs at least at the
   priority of every task that waits for it and keeps no priority that nobody lends
   it, however many tasks and, where time-outs are harmless, mutexes there are. *)
THEOREM InheritanceHolds ==
  Unnested /\ (TimeOutsHarmless \/ Single) => (Spec => []Inherited)
  <1> SUFFICES ASSUME Unnested, TimeOutsHarmless \/ Single PROVE Spec => []Inherited
    OBVIOUS
  <1>1. Init => InheritInv /\ Called
    BY FirstInherit
  <1>2. (Shape /\ InheritInv /\ Called) /\ [Next]_vars => (InheritInv /\ Called)'
    <2> SUFFICES ASSUME Shape, InheritInv, Called, [Next]_vars PROVE InheritInv' /\ Called'
      OBVIOUS
    <2>1. Single \/ Harmless
      BY HarmlessHolds
    <2>2. QED
      BY <2>1, NextInherit, NextCalled
  <1>3. Shape /\ InheritInv => Inherited
    BY InheritedHolds
  <1>4. QED
    BY <1>1, <1>2, <1>3, Shapely, PTL DEF Spec

-----------------------------------------------------------------------------
(* The task that runs.                                                     *)

LEMMA HighestKept ==
  ASSUME Types, Highest1, UNCHANGED <<prio, cur>>,
         pendsv' = 0 /\ yield' = 0 => pendsv = 0 /\ yield = 0,
         pendsv' = 0 /\ yield' = 0 =>
           \A u \in Tasks : list'[u] = "ready" => list[u] = "ready" \/ prio[u] <= prio[cur]
  PROVE  Highest1'
  BY DEF Highest1, Ready

(* A tick switches to every task that it wakes and that has the priority for it. *)
LEMMA HighestTicks ==
  ASSUME Types, Lists, Highest1, UNCHANGED <<prio, cur>>, IncrementTick,
         \/ yield' = yield /\ pendsv' = IF SwitchRequired THEN 1 ELSE pendsv
         \/ pendsv' = pendsv /\ yield' = IF SwitchRequired THEN 1 ELSE yield
  PROVE  Highest1'
  <1>1. pendsv' = 0 /\ yield' = 0 => pendsv = 0 /\ yield = 0 /\ ~SwitchRequired
    OBVIOUS
  <1>2. ~SwitchRequired => \A u \in Tasks : u \in Over => prio[u] <= prio[cur]
    <2>1. SUFFICES ASSUME ~SwitchRequired, NEW u \in Tasks, u \in Over PROVE prio[u] <= prio[cur]
      OBVIOUS
    <2>2. ~(prio[u] >= prio[cur])
      BY <2>1 DEF SwitchRequired
    <2>3. QED
      BY <2>2, PrioIs
  <1>3. \A u \in Tasks : list'[u] = "ready" => list[u] = "ready" \/ u \in Over
    BY IncrementTickIs
  <1>4. QED
    BY <1>1, <1>2, <1>3, HighestKept

LEMMA NextHighest ==
  ASSUME Shape, InheritInv, Harmless, Highest1, [Next]_vars
  PROVE  Highest1'
  <1>0. Types /\ Lists /\ \A t \in Tasks : Place(t) /\ at[t] \in Locals
    BY DEF Shape, Types
  <1>1. ASSUME NEW t \in Tasks, Step(t) PROVE Highest1'
    <2>1. CASE \/ \E m \in Mutexes, n \in Ticks(t, "take") : CallTake(t, m, n)
               \/ Try(t) \/ DoNotBlock(t) \/ Expired(t) \/ Woke(t) \/ NotifyReceived(t)
      <3>1. UNCHANGED <<prio, cur, list, pendsv, yield>>
        BY <2>1 DEF CallTake, Try, DoNotBlock, Expired, Woke, NotifyReceived, lists, sched
      <3>2. QED
        BY <1>0, <3>1, HighestKept
    <2>2. ASSUME NEW n, Delay(t, n) \/ DelayUntil(t, n) \/ NotifyWait(t, n) PROVE Highest1'
      <3>1. UNCHANGED <<prio, cur, yield>> /\ cur = t /\ pendsv = 0
        BY <2>2 DEF Delay, DelayUntil, NotifyWait, Runs
      <3>2. \A u \in Tasks : u # t => list'[u] = list[u]
        BY <1>0, <2>2 DEF Delay, DelayUntil, NotifyWait, AddOrSuspend, AddToDelayed, lists, Types
      <3>3. prio[t] <= prio[cur]
        BY <1>0, <3>1, PrioIs
      <3>4. QED
        BY <1>0, <3>1, <3>2, <3>3, HighestKept
    <2>3. CASE Block(t)
      <3> DEFINE h == owner[at[t].m]
      <3>1. cur = t /\ cur' = t /\ h # t /\ UNCHANGED <<pendsv, yield>>
        BY <2>3, BlockInherit DEF Block
      <3>2. h \in Tasks
        <4>1. at[t].m \in Mutexes /\ h # NoTask
          BY <1>0, <2>3 DEF Block, Runs, Place, Locals
        <4>2. QED
          BY <1>0, <4>1, PrioIs
      <3>3. prio' = IF prio[h] < prio[t] THEN [prio EXCEPT ![h] = prio[t]] ELSE prio
        BY <2>3, BlockInherit
      <3>4. \A u \in Tasks : list'[u] = "ready" => list[u] = "ready" \/ u = t
        <4>1. StillWaits(t).left \in 0 .. Forever
          <5>1. at[t].pc = "check" /\ ~TimedOut(t)
            BY <2>3 DEF Block, Runs
          <5>2. StillWaits(t).left \in 1 .. Forever
            BY <1>0, <5>1, StillWaitsIs
          <5>3. QED
            BY <5>2, Constants
        <4>2. AddOrSuspend(t, StillWaits(t).left)
          BY <2>3 DEF Block
        <4>3. QED
          BY <1>0, <4>1, <4>2, AddOrSuspendIs
      <3>5. ASSUME pendsv = 0, yield = 0, NEW u \in Tasks, list'[u] = "ready"
            PROVE  prio'[u] <= prio'[t]
        <4>1. /\ prio'[t] = prio[t] /\ prio[t] \in Nat /\ prio[u] \in Nat
              /\ prio'[u] = prio[u] \/ prio'[u] = prio[t]
          BY <1>0, <3>1, <3>2, <3>3, PrioIs DEF Types
        <4>2. prio[u] <= prio[t]
          BY <3>1, <3>4, <3>5, <4>1 DEF Highest1, Ready
        <4>3. QED
          BY <4>1, <4>2
      <3>6. QED
        BY <3>1, <3>5 DEF Highest1, Ready
    <2>4. CASE Disinherit(t)
      <3> DEFINE k == at[t].m
                 h == owner[k]
      <3>1. cur = t /\ UNCHANGED <<cur, list, pendsv, yield>>
        BY <2>4 DEF Disinherit, Runs, lists, sched
      <3>2. k \in Mutexes /\ k # 0 /\ DisinheritAfterTimeout(t, k)
        BY <1>0, <2>4 DEF Disinherit, Runs, Place, Locals
      <3>3. CASE prio' = prio
        BY <1>0, <3>1, <3>3, HighestKept
      <3>4. CASE prio' # prio
        <4>1. PICK p \in Range(Base) :
                /\ h \in Tasks /\ prio' = [prio EXCEPT ![h] = p]
                /\ p = Base[h] \/ \E u \in First(k) : p = prio[u]
          BY <1>0, <3>2, <3>4, DisinheritIs
        <4>2. h # t
          BY <3>2, NoHolder
        <4>3. Base[h] <= prio[h]
          <5>1. prio[h] >= Base[h] /\ prio[h] \in Nat /\ Base[h] \in Nat
            BY <1>0, <4>1, PrioIs DEF InheritInv, Lent
          <5>2. QED
            BY <5>1
        <4>4. \A u \in First(k) : prio[u] <= prio[h]
          BY <3>2, <4>1, Constants DEF First, InheritInv, Bounded
        <4>5. p <= prio[h] /\ p \in Nat /\ prio[h] \in Nat
          BY <1>0, <4>1, <4>3, <4>4, Constants, PrioIs
        <4>6. ASSUME pendsv = 0, yield = 0, NEW u \in Tasks, list[u] = "ready"
              PROVE  prio'[u] <= prio'[t]
          <5>1. prio[u] <= prio[t]
            BY <3>1, <4>6 DEF Highest1, Ready
          <5>2. /\ prio'[t] = prio[t] /\ prio[t] \in Nat /\ prio[u] \in Nat
                /\ IF u = h THEN prio'[u] = p ELSE prio'[u] = prio[u]
            BY <1>0, <4>1, <4>2, PrioIs DEF Types
          <5>3. QED
            BY <4>5, <5>1, <5>2
        <4>7. QED
          BY <3>1, <4>6 DEF Highest1, Ready
      <3>5. QED
        BY <3>3, <3>4
    <2>5. ASSUME NEW k \in Mutexes, Give(t, k) PROVE Highest1'
      <3>1. /\ cur = t /\ pendsv = 0 /\ prio' = [prio EXCEPT ![t] = Base[t]]
            /\ pendsv' = 0 => /\ \A u \in waiters[k] : prio[u] <= Base[t]
                              /\ prio[t] = Base[t]
        BY <2>5, GiveInherit
      <3>2. cur' = t /\ (yield' = 0 => yield = 0)
        <4>1. 1 # 0
          OBVIOUS
        <4>2. QED
          BY <3>1, <4>1, <2>5 DEF Give
      <3>3. \A u \in Tasks : list'[u] = "ready" => list[u] = "ready" \/ u \in waiters[k]
        BY <1>0, <2>5, GiveIs DEF Types
      <3>4. pendsv' = 0 => prio' = prio
        BY <1>0, <3>1 DEF Types
      <3>5. QED
        BY <3>1, <3>2, <3>3, <3>4 DEF Highest1, Ready
    <2>6. ASSUME NEW u \in Tasks, Notify(t, u) PROVE Highest1'
      <3>1. UNCHANGED <<prio, cur, yield>> /\ cur = t /\ pendsv = 0
        BY <2>6 DEF Notify, Runs
      <3>2. CASE state[u] = "waiting"
        <4>1. /\ list' = [list EXCEPT ![u] = "ready"]
              /\ pendsv' = IF prio[u] > prio[t] THEN 1 ELSE pendsv
          BY <2>6, <3>2 DEF Notify
        <4>2. pendsv' = 0 => prio[u] <= prio[cur]
          <5>1. prio[u] \in Nat /\ prio[t] \in Nat
            BY <1>0, PrioIs
          <5>2. pendsv' = 0 => ~(prio[u] > prio[t])
            BY <4>1
          <5>3. QED
            BY <3>1, <5>1, <5>2
        <4>3. \A v \in Tasks : v # u => list'[v] = list[v]
          BY <1>0, <4>1 DEF Types
        <4>4. QED
          BY <1>0, <3>1, <4>2, <4>3, HighestKept
      <3>3. CASE state[u] # "waiting"
        BY <1>0, <2>6, <3>1, <3>3, HighestKept DEF Notify
      <3>4. QED
        BY <3>2, <3>3
    <2>7. CASE ResumeAll(t)
      <3>1. UNCHANGED <<prio, cur, pendsv>> /\ cur = t
        BY <2>7 DEF ResumeAll, Runs
      <3>2. yield' = 0 => yield = 0 /\ \A u \in readied : ~(prio[u] >= prio[t])
        BY <2>7 DEF ResumeAll
      <3>3. \A u \in Tasks : list'[u] = "ready" => list[u] = "ready" \/ u \in readied
        BY <2>7 DEF ResumeAll
      <3>4. yield' = 0 => \A u \in Tasks : u \in readied => prio[u] <= prio[cur]
        BY <1>0, <3>1, <3>2, PrioIs
      <3>5. QED
        BY <1>0, <3>1, <3>2, <3>3, <3>4, HighestKept
    <2>8. CASE CatchUp(t)
      BY <1>0, <2>8, HighestTicks DEF CatchUp
    <2>9. CASE Resumed(t)
      <3>1. UNCHANGED <<prio, cur, yield, list>> /\ pendsv = 0 /\ pendsv' = yield
        BY <2>9 DEF Resumed, Runs, lists
      <3>2. QED
        BY <1>0, <3>1, HighestKept
    <2>10. CASE Yield(t)
      <3>1. pendsv' # 0
        BY <2>10 DEF Yield
      <3>2. QED
        BY <3>1 DEF Highest1
    <2>11. QED
      BY <1>1, <2>1, <2>2, <2>3, <2>4, <2>5, <2>6, <2>7, <2>8, <2>9, <2>10 DEF Step
  <1>2. ASSUME NEW t \in Tasks, SwitchContext(t) PROVE Highest1'
    BY <1>2 DEF SwitchContext, Highest1, Ready, lists
  <1>3. ASSUME NEW u \in Tasks, NotifyFromISR(u) PROVE Highest1'
    <2>1. UNCHANGED <<prio, cur, pendsv>>
      BY <1>3 DEF NotifyFromISR
    <2>2. CASE state[u] = "waiting"
      <3>1. yield' = IF prio[u] > prio[cur] THEN 1 ELSE yield
        BY <1>3, <2>2 DEF NotifyFromISR
      <3>2. yield' = 0 => yield = 0 /\ prio[u] <= prio[cur]
        <4>1. prio[u] \in Nat /\ prio[cur] \in Nat
          BY <1>0, PrioIs
        <4>2. QED
          BY <3>1, <4>1
      <3>3. \A v \in Tasks : v # u => list'[v] = list[v]
        BY <1>0, <1>3, <2>2 DEF NotifyFromISR, Types
      <3>4. QED
        BY <1>0, <2>1, <3>2, <3>3, HighestKept
    <2>3. CASE state[u] # "waiting"
      BY <1>0, <1>3, <2>1, <2>3, HighestKept DEF NotifyFromISR
    <2>4. QED
      BY <2>2, <2>3
  <1>4. CASE Tick
    <2>1. UNCHANGED <<prio, cur, yield>>
      BY <1>4 DEF Tick
    <2>2. CASE susp > 0
      BY <1>0, <1>4, <2>1, <2>2, HighestKept DEF Tick, lists
    <2>3. CASE ~(susp > 0)
      BY <1>0, <1>4, <2>1, <2>3, HighestTicks DEF Tick
    <2>4. QED
      BY <2>2, <2>3
  <1>5. CASE UNCHANGED vars
    BY <1>0, <1>5, HighestKept DEF vars, lists, sched
  <1>6. QED
    BY <1>1, <1>2, <1>3, <1>4, <1>5 DEF Next

(* "The scheduler selects the highest priority task that is able to run": where
   time-outs are harmless and no mutex is nested, no step leaves a task ready above
   the one that runs without a switch pending; otherwise what a holder has
   inherited may fall away without one. *)
THEOREM HighestPriorityRuns ==
  Unnested /\ TimeOutsHarmless => (Spec => []HighestRuns)
  <1> SUFFICES ASSUME Unnested, TimeOutsHarmless PROVE Spec => []HighestRuns
    OBVIOUS
  <1> DEFINE I == InheritInv /\ Called /\ Highest1
  <1>1. Init => I
    <2>1. Init => Highest1
      BY DEF Init, Highest1, Ready
    <2>2. QED
      BY <2>1, FirstInherit
  <1>2. (Shape /\ I) /\ [Next]_vars => I'
    <2> SUFFICES ASSUME Shape, I, [Next]_vars PROVE I'
      OBVIOUS
    <2>1. Harmless
      BY HarmlessHolds
    <2>2. InheritInv' /\ Called' /\ Highest1'
      BY <2>1, NextInherit, NextCalled, NextHighest
    <2>3. QED
      BY <2>2
  <1>3. I => HighestRuns
    BY DEF Highest1, HighestRuns
  <1>4. QED
    BY <1>1, <1>2, <1>3, Shapely, PTL DEF Spec
=============================================================================
