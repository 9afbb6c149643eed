--------------------------- MODULE ResetCounters ---------------------------
(***************************************************************************)
(* Resets of the BMC, their indications and their counters                 *)
(* (common/reset/tip_reset.c, common/gpio/tip_gpio.c and the reload branch *)
(* of bmc_task_loop; built with GPIO_WOL, without                          *)
(* ENABLE_RESET_COUNTER_CACHE).                                            *)
(*                                                                         *)
(* A reset leaves an indication in a register and notifies bmc_task_loop,  *)
(* which reads the indications, loads the BMC again, clears the            *)
(* indications and counts the resets it has read.  The hardware sets the   *)
(* indications of its own resets in RESSR; the interrupt of a TIP GPIO     *)
(* sets WOL and FORCE in TIP_SCR1.  When a counter runs out the TIP is     *)
(* shut down and starts from the recovery image.                           *)
(*                                                                         *)
(* The loading itself, which BmcTask models, is here the two steps that    *)
(* matter to the counters.                                                 *)
(***************************************************************************)
EXTENDS Integers

CONSTANTS
  Kinds,     \* the kinds of reset that occur
  Window,    \* MAX_BMC_BOOT_TIME_IN_SECONDS
  Horizon,   \* bound of the uptime of the TIP
  MaxHits,   \* bound of the resets of one kind that hits counts
  During     \* whether the BMC may be reset while it is loaded again

Gpio == {"WOL", "FORCE"}

(* WD1 has a counter; SW1 stands for the kinds whose feature is disabled. *)
Kind == {"WD1", "SW1"} \cup Gpio

(* MAX_RESET_COUNT_*; 0 disables the counter. *)
MaxCount == [k \in Kind |-> IF k = "SW1" THEN 0 ELSE 2]

ASSUME KindsAssumption  == Kinds \subseteq Kind
ASSUME BoundsAssumption == Window \in Nat /\ Horizon \in Nat /\ MaxHits \in Nat
ASSUME DuringAssumption == During \in {"yes", "no"}

VARIABLES
  now,       \* CLK_GetUpTimeSeconds
  lastInit,  \* last_reset_seconds_uptime
  count,     \* reset_counter
  ressr,     \* indications in RESSR
  scr,       \* indications in TIP_SCR1
  gpio,      \* 1 where the interrupt of the GPIO is enabled
  en46,      \* 1 while the interrupt of the BMC reset is enabled
  notif,     \* 1 while bmc_task_loop has a pending notification
  pc,        \* where bmc_task_loop is
  seen,      \* reset_reg: the indications it has read
  boot, next,
  hits,      \* history: resets, none more than Window after the one before
  lastReset  \* history: the uptime of the last reset

vars == <<now, lastInit, count, ressr, scr, gpio, en46, notif, pc, seen, boot,
          next, hits, lastReset>>

indications == <<ressr, scr, gpio, en46, notif>>
history     == <<hits, lastReset>>

(* The Wrong definitions of this module are mutants: each changes the
   definition after it the way a slip in the code would. *)

(* "if too much time passed since last reset (any reset!)" *)
WrongTooLate == now - lastInit >= Window
TooLate      == now - lastInit > Window

(* What one reset takes from a counter, a byte, that is running. *)
WrongCounted(c) == c
Counted(c)      == (c - 1) % 256

WrongRunning(c) == c \in 0 .. 255
Running(c)      == c # 0

(* The GPIOs whose handling is complete when the resets s are counted. *)
WrongCompleted(s) == s \cap {"WOL"}
Completed(s)      == s \cap Gpio

(* The indications that tip_clear_reset_indication leaves in RESSR. *)
WrongLeft == ressr
Left      == {}

Init ==
  /\ now = 0 /\ lastInit = 0 /\ count = MaxCount
  /\ ressr = {} /\ scr = {} /\ gpio = [g \in Gpio |-> 1]
  /\ en46 = 1 /\ notif = 0
  /\ pc = "idle" /\ seen = {}
  /\ boot \in {"main", "recovery"} /\ next = "main"
  /\ hits = [k \in Kind |-> 0] /\ lastReset = 0

(* The TIP starts again: cerberus_init clears every indication. *)
Restart ==
  /\ now' = 0 /\ lastInit' = 0 /\ count' = MaxCount
  /\ ressr' = {} /\ scr' = {} /\ gpio' = [g \in Gpio |-> 1]
  /\ en46' = 1 /\ notif' = 0
  /\ pc' = "idle" /\ seen' = {}
  /\ boot' = next /\ next' = "main"
  /\ hits' = [k \in Kind |-> 0] /\ lastReset' = 0

Tick ==
  /\ now < Horizon
  /\ now' = now + 1
  /\ UNCHANGED <<lastInit, count, indications, pc, seen, boot, next, history>>

(* The BMC runs, or it waits in its bootblock while it is loaded again. *)
Resettable ==
  \/ pc = "idle" /\ notif = 0
  \/ pc \in {"verify", "clear", "count"} /\ During = "yes"

Hit(k) ==
  /\ k \in Kinds /\ hits[k] < MaxHits
  /\ Resettable
  /\ hits' = [i \in Kind |-> (IF now - lastReset > Window THEN 0 ELSE hits[i])
                             + (IF i = k THEN 1 ELSE 0)]
  /\ lastReset' = now
  /\ UNCHANGED <<now, lastInit, count, pc, seen, boot, next>>

(* A reset that interrupt 46 reports: NVIC_BMC_reset. *)
BmcReset(k) ==
  /\ k \notin Gpio /\ Hit(k)
  /\ ressr' = ressr \cup {k}
  /\ notif' = IF en46 = 1 THEN 1 ELSE notif
  /\ en46' = 0
  /\ UNCHANGED <<scr, gpio>>

(* tip_gpio_handler: the interrupt of the GPIO stays disabled until its reset
   is handled. *)
GpioReset(k) ==
  /\ k \in Gpio /\ Hit(k)
  /\ gpio[k] = 1 /\ gpio' = [gpio EXCEPT ![k] = 0]
  /\ scr' = scr \cup {k}
  /\ notif' = 1 /\ en46' = 0
  /\ UNCHANGED ressr
-----------------------------------------------------------------------------
(* The reload branch of bmc_task_loop.                                     *)

(* tip_get_reset_indication, then the next boot is the recovery image. *)
Take ==
  /\ pc = "idle" /\ notif = 1
  /\ notif' = 0
  /\ seen' = ressr \cup scr
  /\ next' = "recovery"
  /\ pc' = "load"
  /\ UNCHANGED <<now, lastInit, count, ressr, scr, gpio, en46, boot, history>>

(* The bootblock is loaded and released; interrupt 46 is enabled again. *)
Release ==
  /\ pc = "load" /\ pc' = "verify"
  /\ en46' = 1
  /\ UNCHANGED <<now, lastInit, count, ressr, scr, gpio, notif, seen, boot,
                 next, history>>

(* The next images are loaded and verified ... *)
Loaded ==
  /\ pc = "verify" /\ pc' = "clear"
  /\ UNCHANGED <<now, lastInit, count, indications, seen, boot, next, history>>

(* ... or cannot be. *)
Refused == pc \in {"load", "verify"} /\ Restart

(* tip_clear_reset_indication *)
Clear ==
  /\ pc = "clear" /\ pc' = "count"
  /\ ressr' = Left
  /\ UNCHANGED <<now, lastInit, count, scr, gpio, en46, notif, seen, boot, next,
                 history>>

(* tip_reset_counters_init *)
CountersInit ==
  /\ count' = MaxCount /\ lastInit' = now
  /\ UNCHANGED <<gpio, history>>

(* The image is trusted again and the resets are counted:
   tip_reset_counters_increment. *)
StartCount ==
  /\ pc = "count" /\ boot = "main" /\ TooLate
  /\ CountersInit
  /\ pc' = "continue" /\ next' = "main"
  /\ UNCHANGED <<now, ressr, scr, en46, notif, seen, boot>>

MaxedOut == \E k \in seen : count[k] = 1

Count ==
  /\ pc = "count" /\ boot = "main" /\ ~TooLate
  /\ count' = [k \in Kind |-> IF k \in seen /\ Running(count[k])
                                THEN Counted(count[k]) ELSE count[k]]
  /\ gpio' = [g \in Gpio |-> IF g \in Completed(seen) THEN 1 ELSE gpio[g]]
  /\ pc' = IF MaxedOut THEN "shutdown" ELSE "continue"
  /\ next' = IF MaxedOut THEN "recovery" ELSE "main"
  /\ UNCHANGED <<now, lastInit, ressr, scr, en46, notif, seen, boot, history>>

(* "in case of recovery boot the reset counters are useless" *)
CountInRecovery ==
  /\ pc = "count" /\ boot = "recovery"
  /\ CountersInit
  /\ pc' = "continue"
  /\ UNCHANGED <<now, ressr, scr, en46, notif, seen, boot, next>>

(* tip_reset_platform_shutdown *)
Shutdown == pc = "shutdown" /\ Restart

(* bmc_continue, and the interrupts are enabled. *)
Continue ==
  /\ pc = "continue" /\ pc' = "idle"
  /\ en46' = 1 /\ seen' = {}
  /\ UNCHANGED <<now, lastInit, count, ressr, scr, gpio, notif, boot, next,
                 history>>

Loop ==
  \/ Take \/ Release \/ Loaded \/ Refused \/ Clear \/ StartCount \/ Count
  \/ CountInRecovery \/ Shutdown \/ Continue

Next == Tick \/ Loop \/ \E k \in Kind : BmcReset(k) \/ GpioReset(k)

Spec == Init /\ [][Next]_vars
-----------------------------------------------------------------------------
(* Properties.                                                             *)

Pcs == {"idle", "load", "verify", "clear", "count", "continue", "shutdown"}

TypeOK ==
  /\ now \in 0 .. Horizon /\ lastInit \in 0 .. now /\ lastReset \in 0 .. now
  /\ \A k \in Kind : count[k] \in 0 .. MaxCount[k]
  /\ DOMAIN count = Kind
  /\ ressr \subseteq Kind \ Gpio /\ scr \subseteq Gpio /\ seen \subseteq Kind
  /\ gpio \in [Gpio -> 0 .. 1] /\ en46 \in 0 .. 1 /\ notif \in 0 .. 1
  /\ pc \in Pcs
  /\ boot \in {"main", "recovery"} /\ next \in {"main", "recovery"}
  /\ hits \in [Kind -> 0 .. MaxHits]

(* "Max WOL reset counter. After exceeding go to recovery", and so for the
   other kinds: the TIP goes to recovery only when the resets of one kind
   reached the maximum of that kind.  The indication of a GPIO is never cleared:
   once it is set, nothing is claimed. *)
RecoveryJustified ==
  pc = "shutdown" /\ scr = {} =>
    \E k \in Kind : MaxCount[k] # 0 /\ hits[k] >= MaxCount[k]

(* The main image runs, the counters have not been initialised again for the
   uptime, and no reset is left to handle. *)
SettledInWindow == pc = "idle" /\ notif = 0 /\ boot = "main" /\ now <= Window

(* "If multiple resets happen during this time frame - go to recovery": a main
   image whose resets reached a maximum, none of them long after the one before
   it, is not run again. *)
Limited ==
  SettledInWindow => \A k \in Kind : MaxCount[k] # 0 => hits[k] < MaxCount[k]

(* "Reenable the GPIO IRQ after complition": when the TIP that runs the main
   image has no reset left to handle, every GPIO can reset the BMC. *)
GpioRearmed == SettledInWindow => \A g \in Gpio : gpio[g] = 1
=============================================================================
