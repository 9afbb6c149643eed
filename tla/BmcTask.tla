------------------------------ MODULE BmcTask ------------------------------
(***************************************************************************)
(* How the TIP boots the BMC, serves its direct commands and reloads it    *)
(* after a reset (common/bmc_task/bmc_task.c, built with BMC_DIRECT, and   *)
(* the part of cerberus_init that boots it the first time).                *)
(*                                                                         *)
(* Two FreeRTOS tasks of the same priority run the same loading code:      *)
(* "init", the task cerberus_init, once, and "task", bmc_task_loop, after  *)
(* every reset of the BMC.  They share bmc_state with two interrupt        *)
(* handlers, NVIC_BMC_reset (46) and NVIC_BMC_direct_handler (2), which    *)
(* talk to bmc_task_loop through its one notification value: a value that  *)
(* is written over one that was not yet taken replaces it.                 *)
(*                                                                         *)
(* A command is finished in steps (tip_bmc_direct_finalize_command), by the *)
(* task or, when it is unknown, by the handler itself: the status is        *)
(* written, the notification bit is cleared, the pending interrupt is       *)
(* cleared, the interrupt is enabled and the BMC is notified.  The BMC is   *)
(* another processor: it can read the status and send its next request      *)
(* between any two of them.                                                 *)
(*                                                                         *)
(* The BMC is the environment.  It runs a bootblock that trains the DDR    *)
(* and reports through B2TIPST0, waits there until it is told to jump to   *)
(* the next image, and then runs that image, which sends commands.  What   *)
(* the BMC does after its reset, whether it is held or starts its          *)
(* bootblock again, is left open: both happen.                             *)
(***************************************************************************)
EXTENDS Integers

CONSTANTS
  Retries,    \* times bmc_start tries the bootblock: boot_retry
  Requests,   \* what the BMC may send on interrupt 2
  ResetIn     \* stages of its boot in which the BMC may be reset, and whether
              \* a GPIO may ask for its reset

Loader == {"init", "task"}
Image  == {"main", "recovery"}
Kind   == {"command", "unknown", "unhandled", "i2c"}
Stage  == {"initTraining", "initTrained", "reloadTraining", "reloadTrained"}
Reset  == Stage \cup {"gpio"}
Finisher == {"task", "handler"}

ASSUME RetriesAssumption  == Retries \in Nat \ {0}
ASSUME RequestsAssumption == Requests \subseteq Kind
ASSUME ResetAssumption    == ResetIn \subseteq Reset

VARIABLES
  bmc,      \* the A35: held in reset, bootblock, trained, next (image)
  post,     \* what the bootblock reported in B2TIPST0
  wd,       \* 1 while a BMC watchdog runs
  ddr,      \* the images in DDR: junk, loading, verified
  state,    \* task->bmc_state
  notif,    \* the pending notification value of bmc_task_loop, or none
  en46, pend46, en2, pend2,   \* interrupt enable and pending bits
  reg, req, \* the command register, and the request it holds
  bit,      \* the notification bit of the direct channel in B2TIPST
  fin,      \* per finisher: what is left to finish a command
  early,    \* history: 1 if the request was sent before the BMC was notified
            \* that the one before was finished
  deaf,     \* history: 1 if interrupt 2 was left disabled by a request that
            \* nobody finishes
  lpc, tries,                 \* per loader: where it is, attempts left
  boot,     \* the image this TIP runs from
  next      \* the image the next TIP reset starts from: TIP_SEARCH_HDR_START

vars == <<bmc, post, wd, ddr, state, notif, en46, pend46, en2, pend2, reg, req,
          bit, fin, early, deaf, lpc, tries, boot, next>>

bmcVars  == <<bmc, post, wd, ddr>>
intVars  == <<en46, pend46, en2, pend2>>
cmdVars  == <<reg, req, bit, fin, early, deaf>>
imageVars == <<boot, next>>

(* The Wrong definitions of this module are mutants: each changes the
   definition after it the way a slip in the code would. *)

(* What bmc_release_from_reset polls for. *)
WrongBootblockOver == post # "none"
BootblockOver      == post # "none" \/ state = "BOOTBLOCK_RESET"

(* A notification in this state is one of a BMC that has booted. *)
WrongBooted == state # "DISABLE"
Booted      == state = "DDR_READY"

(* The last attempt at the bootblock has failed. *)
WrongLastTry(l) == tries[l] = -1
LastTry(l)      == tries[l] = 1

(* What follows the copy of the next images into DDR. *)
WrongAfterCopy == "trust"
AfterCopy      == "verify"

(* The image the TIP starts from if the reload does not succeed. *)
WrongFallback == next
Fallback      == "recovery"

(* cmd > BMC_RESET_0 && cmd < BMC_MAX_COMMANDS *)
InRange(q)      == q \in {"command", "unhandled"}

(* NVIC_ClearInt for interrupt 2.  The interrupt has a level
   (INTERRUPT_POLARITY_LEVEL_HIGH): it stays pending while the bit is set. *)
Cleared2 == bit

(* Interrupt 2 when a command is finished, interrupt 46 after a reload. *)
WrongReopened == 0
Reopened      == 1
Rearmed       == 1

Init ==
  /\ bmc = "held" /\ post = "none" /\ wd = 0 /\ ddr = "junk"
  /\ state = "DISABLE" /\ notif = "none"
  /\ en46 = 1 /\ pend46 = 0 /\ en2 = 0 /\ pend2 = 0
  /\ reg = "idle" /\ req = "none" /\ bit = 0 /\ early = 0 /\ deaf = 0
  /\ fin = [w \in Finisher |-> "none"]
  /\ lpc = [l \in Loader |-> IF l = "init" THEN "bootblock" ELSE "idle"]
  /\ tries = [l \in Loader |-> 0]
  /\ boot \in Image /\ next = "recovery"

(* platform_reset: the TIP starts again, from the image selected before. *)
Reboot ==
  /\ bmc' = "held" /\ post' = "none" /\ wd' = 0 /\ ddr' = "junk"
  /\ state' = "DISABLE" /\ notif' = "none"
  /\ en46' = 1 /\ pend46' = 0 /\ en2' = 0 /\ pend2' = 0
  /\ reg' = "idle" /\ req' = "none" /\ bit' = 0 /\ early' = 0 /\ deaf' = 0
  /\ fin' = [w \in Finisher |-> "none"]
  /\ lpc' = [l \in Loader |-> IF l = "init" THEN "bootblock" ELSE "idle"]
  /\ tries' = [l \in Loader |-> 0]
  /\ boot' = next /\ next' = "recovery"

(* The microseconds in which bmc_continue returns are over. *)
Settled == \A l \in Loader : lpc[l] # "open"

Reloading == lpc["task"] \notin {"idle", "execute"}

Goto(l, from, to) == lpc[l] = from /\ lpc' = [lpc EXCEPT ![l] = to]
-----------------------------------------------------------------------------
(* Loading the BMC: tip_load_bmc_firmware, bmc_start and                   *)
(* bmc_release_from_reset, run by loader l.                                *)

(* The bootblock is copied to the RAM of the A35 and verified ... *)
LoadBootblock(l) ==
  /\ Goto(l, "bootblock", "mute")
  /\ UNCHANGED <<bmcVars, state, notif, intVars, cmdVars, tries, imageVars>>

(* ... or refused, like any later image: cerberus_init and bmc_task_loop both
   end in platform_reset. *)
Refused(l) == lpc[l] \in {"bootblock", "verify"} /\ Reboot

(* bmc_start: no direct commands while the BMC boots. *)
Mute(l) ==
  /\ Goto(l, "mute", "disable")
  /\ en2' = 0
  /\ tries' = [tries EXCEPT ![l] = Retries]
  /\ UNCHANGED <<bmcVars, state, notif, en46, pend46, pend2, cmdVars,
                 imageVars>>

Disable(l) ==
  /\ Goto(l, "disable", "release")
  /\ state' = "DISABLE"
  /\ post' = "none" /\ bit' = 0
  /\ UNCHANGED <<bmc, wd, ddr, notif, intVars, reg, req, fin, early, deaf, tries,
                 imageVars>>

(* With interrupts disabled: the A35 is put in reset and released, the
   scratchpads and everything pending are cleared. *)
Release(l) ==
  /\ Goto(l, "release", "startWd")
  /\ bmc' = "bootblock" /\ post' = "none"
  /\ state' = "BOOTBLOCK_RUNNING"
  /\ reg' = "idle" /\ req' = "none" /\ bit' = 0 /\ early' = 0
  /\ en46' = 1 /\ pend46' = 0 /\ pend2' = 0
  /\ UNCHANGED <<wd, ddr, notif, en2, fin, deaf, tries, imageVars>>

StartWd(l) ==
  /\ Goto(l, "startWd", "wait")
  /\ wd' = 1
  /\ UNCHANGED <<bmc, post, ddr, state, notif, intVars, cmdVars, tries,
                 imageVars>>

(* The loader polls B2TIPST0 and bmc_state until one of them tells it that
   the bootblock is over ... *)
Polled(l) ==
  /\ BootblockOver
  /\ Goto(l, "wait", IF post = "pass" /\ state = "BOOTBLOCK_RUNNING"
                       THEN "passed" ELSE "ended")
  /\ UNCHANGED <<bmcVars, state, notif, intVars, cmdVars, tries, imageVars>>

(* ... and if it has passed, marks the DDR ready. *)
Passed(l) ==
  /\ Goto(l, "passed", "ended")
  /\ state' = "DDR_READY"
  /\ UNCHANGED <<bmcVars, notif, intVars, cmdVars, tries, imageVars>>

(* The watchdogs are stopped, what is pending is cleared; another attempt is
   made when the bootblock has not passed. *)
Ended(l) ==
  /\ Goto(l, "ended", IF state = "DDR_READY" THEN "copy" ELSE "disable")
  /\ state # "DDR_READY" => ~LastTry(l)
  /\ tries' = [tries EXCEPT ![l] = IF state = "DDR_READY" THEN 0 ELSE @ - 1]
  /\ wd' = 0 /\ pend46' = 0 /\ bit' = 0
  /\ UNCHANGED <<bmc, post, ddr, state, notif, en46, en2, pend2, reg, req, fin,
                 early, deaf, imageVars>>

(* "bootblock failed 3 times, resetting and try to recover" *)
GiveUp(l) ==
  /\ lpc[l] = "ended"
  /\ state # "DDR_READY" /\ LastTry(l)
  /\ Reboot

(* BL31, OP-TEE and U-Boot are copied to DDR and then verified there. *)
Copy(l) ==
  /\ Goto(l, "copy", AfterCopy)
  /\ ddr' = "loading"
  /\ UNCHANGED <<bmc, post, wd, state, notif, intVars, cmdVars, tries,
                 imageVars>>

Verify(l) ==
  /\ Goto(l, "verify", IF l = "init" THEN "initialise" ELSE "trust")
  /\ ddr' = "verified"
  /\ UNCHANGED <<bmc, post, wd, state, notif, intVars, cmdVars, tries,
                 imageVars>>

(* The rest of cerberus_init, up to the command tasks. *)
Initialise ==
  /\ Goto("init", "initialise", "trust")
  /\ UNCHANGED <<bmcVars, state, notif, intVars, cmdVars, tries, imageVars>>

(* The image is trusted, again after a reset: the next boot starts from the
   main one.  After the first boot this holds for the recovery image too
   (FORCE_RECOVERY_IMAGE_MATCH_ACTIVE). *)
Trust(l) ==
  /\ Goto(l, "trust", "continue")
  /\ next' = IF l = "init" \/ boot = "main" THEN "main" ELSE next
  /\ UNCHANGED <<bmcVars, state, notif, intVars, cmdVars, tries, boot>>

(* bmc_continue: a BMC that waits for it jumps to the next image ... *)
Continue(l) ==
  /\ Goto(l, "continue", "open")
  /\ wd' = 1
  /\ bmc' = IF bmc = "trained" THEN "next" ELSE bmc
  /\ UNCHANGED <<post, ddr, state, notif, intVars, cmdVars, tries, imageVars>>

(* ... and may then send commands. *)
Open(l) ==
  /\ Goto(l, "open", IF l = "init" THEN "done" ELSE "rearm")
  /\ en2' = 1 /\ pend2' = Cleared2 /\ deaf' = 0
  /\ UNCHANGED <<bmcVars, state, notif, en46, pend46, reg, req, bit, fin, early,
                 tries, imageVars>>

(* The end of a reload. *)
Rearm ==
  /\ Goto("task", "rearm", "idle")
  /\ en46' = Rearmed
  /\ UNCHANGED <<bmcVars, state, notif, pend46, en2, pend2, cmdVars, tries,
                 imageVars>>
-----------------------------------------------------------------------------
(* The interrupt handlers.                                                 *)

NVIC_BMC_reset ==
  /\ wd' = 0
  /\ en46' = 0 /\ pend46' = 0
  /\ notif' = "RESET"
  /\ UNCHANGED <<bmc, post, ddr, state, en2, pend2, cmdVars, lpc, tries,
                 imageVars>>

(* Both interrupts have priority 5: the one with the lower number goes first. *)
ResetHandler ==
  /\ en46 * pend46 = 1 /\ en2 * pend2 = 0 /\ fin["handler"] = "none"
  /\ NVIC_BMC_reset

(* tip_gpio_handler: the same is done for a GPIO, but the BMC goes on running.
   ResetCounters has the GPIO's own interrupt. *)
GpioHandler ==
  /\ "gpio" \in ResetIn
  /\ bmc = "next" /\ Settled /\ ~Reloading /\ en46 = 1
  /\ NVIC_BMC_reset

(* NVIC_BMC_direct_handler.  A command in range goes to bmc_task_loop, another
   is finished here. *)
DirectHandler ==
  /\ en2 = 1 /\ pend2 = 1 /\ fin["handler"] = "none"
  /\ \/ /\ state # "DDR_READY"
        /\ pend2' = Cleared2
        /\ UNCHANGED <<en2, reg, bit, fin, deaf, notif>>
     \/ /\ state = "DDR_READY" /\ bit = 1 /\ req = "i2c"
        /\ en2' = 0 /\ pend2' = 0 /\ reg' = "idle" /\ bit' = 0 /\ deaf' = 1
        /\ UNCHANGED <<fin, notif>>
     \/ /\ state = "DDR_READY" /\ bit = 1 /\ req # "i2c" /\ InRange(req)
        /\ en2' = 0 /\ reg' = "busy" /\ notif' = req
        /\ UNCHANGED <<pend2, bit, fin, deaf>>
     \/ /\ state = "DDR_READY" /\ bit = 1 /\ req # "i2c" /\ ~InRange(req)
        /\ en2' = 0 /\ pend2' = 0 /\ reg' = "busy"
        /\ fin' = [fin EXCEPT !["handler"] = "status"]
        /\ UNCHANGED <<bit, deaf, notif>>
     \/ /\ state = "DDR_READY" /\ bit = 0
        /\ en2' = 0 /\ pend2' = 0
        /\ fin' = [fin EXCEPT !["handler"] = "again"]
        /\ UNCHANGED <<reg, bit, deaf, notif>>
  /\ UNCHANGED <<bmcVars, state, en46, pend46, req, early, lpc, tries,
                 imageVars>>

(* The end of the handler: "Clear BMC notification event", once more. *)
LeaveHandler ==
  /\ fin["handler"] = "again"
  /\ fin' = [fin EXCEPT !["handler"] = "none"]
  /\ en2' = 1 /\ pend2' = Cleared2 /\ deaf' = 0
  /\ UNCHANGED <<bmcVars, state, notif, en46, pend46, reg, req, bit, early, lpc,
                 tries, imageVars>>
-----------------------------------------------------------------------------
(* tip_bmc_direct_finalize_command, called by w.                           *)

Finishes(w, from, to) == fin[w] = from /\ fin' = [fin EXCEPT ![w] = to]

(* The status goes to the command register: the BMC may read it. *)
WriteStatus(w) ==
  /\ Finishes(w, "status", "clear")
  /\ reg' = "done"
  /\ UNCHANGED <<bmcVars, state, notif, intVars, req, bit, early, deaf, lpc, tries,
                 imageVars>>

(* tip_mbx_clear_notification: whatever the BMC has asked for meanwhile is
   cleared with it. *)
ClearNotification(w) ==
  /\ Finishes(w, "clear", "pending")
  /\ bit' = 0
  /\ UNCHANGED <<bmcVars, state, notif, intVars, reg, req, early, deaf, lpc, tries,
                 imageVars>>

ClearPending(w) ==
  /\ Finishes(w, "pending", "enable")
  /\ pend2' = Cleared2
  /\ UNCHANGED <<bmcVars, state, notif, en46, pend46, en2, reg, req, bit, early,
                 deaf, lpc, tries, imageVars>>

Enable(w) ==
  /\ Finishes(w, "enable", "notify")
  /\ en2' = Reopened /\ deaf' = 0
  /\ UNCHANGED <<bmcVars, state, notif, en46, pend46, pend2, reg, req, bit, early,
                 lpc, tries, imageVars>>

(* "notify BMC on complition" *)
NotifyBmc(w) ==
  /\ Finishes(w, "notify", IF w = "task" THEN "none" ELSE "again")
  /\ lpc' = IF w = "task" THEN [lpc EXCEPT !["task"] = "idle"] ELSE lpc
  /\ UNCHANGED <<bmcVars, state, notif, intVars, reg, req, bit, early, deaf, tries,
                 imageVars>>

(* The BMC has not been notified that its last request is finished. *)
Finishing == \E w \in Finisher : fin[w] \in {"clear", "pending", "enable", "notify"}

Finalize(w) ==
  \/ WriteStatus(w) \/ ClearNotification(w) \/ ClearPending(w) \/ Enable(w)
  \/ NotifyBmc(w)
-----------------------------------------------------------------------------
(* bmc_task_loop: what it does with a notification depends on bmc_state.   *)

(* A bootblock was reset: the loader that waits for it is told. *)
TakeBootReset ==
  /\ lpc["task"] = "idle" /\ notif # "none"
  /\ state = "BOOTBLOCK_RUNNING"
  /\ state' = "BOOTBLOCK_RESET"
  /\ notif' = "none"
  /\ UNCHANGED <<bmcVars, intVars, cmdVars, lpc, tries, imageVars>>

(* A BMC that had booted was reset.  Before it is loaded again, the next boot
   of the TIP is set to the recovery image. *)
TakeReset ==
  /\ notif = "RESET" /\ Booted
  /\ Goto("task", "idle", "bootblock")
  /\ notif' = "none"
  /\ next' = Fallback
  /\ UNCHANGED <<bmcVars, state, intVars, cmdVars, tries, boot>>

TakeCommand ==
  /\ notif = "command" /\ state = "DDR_READY"
  /\ Goto("task", "idle", "execute")
  /\ notif' = "none"
  /\ UNCHANGED <<bmcVars, state, intVars, cmdVars, tries, imageVars>>

(* A command in range without a case: nobody finishes it. *)
TakeUnhandled ==
  /\ notif = "unhandled" /\ state = "DDR_READY" /\ lpc["task"] = "idle"
  /\ notif' = "none" /\ deaf' = 1
  /\ UNCHANGED <<bmcVars, state, intVars, reg, req, bit, fin, early, lpc, tries,
                 imageVars>>

(* The command is executed; then it is finished. *)
Execute ==
  /\ lpc["task"] = "execute" /\ fin["task"] = "none"
  /\ fin' = [fin EXCEPT !["task"] = "status"]
  /\ UNCHANGED <<bmcVars, state, notif, intVars, reg, req, bit, early, deaf, lpc,
                 tries, imageVars>>

(* Neither training nor booted: the reset interrupt is enabled again. *)
TakeOther ==
  /\ lpc["task"] = "idle" /\ notif # "none"
  /\ state \notin {"BOOTBLOCK_RUNNING", "DDR_READY"}
  /\ notif' = "none"
  /\ en46' = 1 /\ pend46' = 0
  /\ UNCHANGED <<bmcVars, state, en2, pend2, cmdVars, lpc, tries, imageVars>>
-----------------------------------------------------------------------------
(* The BMC.                                                                *)

(* Training the DDR outlasts the time slice after which bmc_task_loop, when it
   is idle, has taken the notification of an earlier reset. *)
Train ==
  /\ bmc = "bootblock"
  /\ lpc["task"] = "idle" => pend46 = 0 /\ notif # "RESET"
  /\ \/ bmc' = "trained" /\ post' = "pass"
     \/ bmc' = "held" /\ post' = "fail"
  /\ UNCHANGED <<wd, ddr, state, notif, intVars, cmdVars, lpc, tries,
                 imageVars>>

(* While it trains the BMC is reset by its watchdog only. *)
CanReset ==
  \/ bmc = "next" /\ Settled
  \/ /\ bmc = "bootblock" /\ wd = 1
     /\ \/ lpc["init"] = "wait" /\ "initTraining" \in ResetIn
        \/ lpc["task"] = "wait" /\ "reloadTraining" \in ResetIn
  \/ bmc = "trained" /\ lpc["init"] # "done" /\ "initTrained" \in ResetIn
  \/ bmc = "trained" /\ lpc["init"] = "done" /\ "reloadTrained" \in ResetIn

BmcReset ==
  /\ CanReset
  /\ bmc' \in {"held", "bootblock"}
  /\ pend46' = 1
  /\ UNCHANGED <<post, wd, ddr, state, notif, en46, en2, pend2, cmdVars, lpc,
                 tries, imageVars>>

(* One request at a time: the register holds the status of the one before. *)
Send ==
  /\ bmc = "next" /\ reg \in {"idle", "done"} /\ Settled
  /\ reg' = "sent"
  /\ req' \in Requests
  /\ bit' = 1 /\ pend2' = 1
  /\ early' = IF Finishing THEN 1 ELSE 0
  /\ UNCHANGED <<bmcVars, state, notif, en46, pend46, en2, fin, deaf, lpc, tries,
                 imageVars>>
-----------------------------------------------------------------------------
Load(l) ==
  \/ LoadBootblock(l) \/ Refused(l) \/ Mute(l) \/ Disable(l) \/ Release(l)
  \/ StartWd(l) \/ Polled(l) \/ Passed(l) \/ Ended(l) \/ GiveUp(l) \/ Copy(l)
  \/ Verify(l) \/ Trust(l) \/ Continue(l) \/ Open(l)

Loop == TakeBootReset \/ TakeReset \/ TakeCommand \/ TakeUnhandled \/ Execute \/ TakeOther

(* An interrupt that is pending and enabled is taken before any task runs, and
   no task runs before its handler has returned. *)
Quiet == en46 * pend46 = 0 /\ en2 * pend2 = 0 /\ fin["handler"] = "none"

InitTask == Quiet /\ (Load("init") \/ Initialise)
LoopTask == Quiet /\ (Load("task") \/ Rearm \/ Loop \/ Finalize("task"))

Direct == DirectHandler \/ Finalize("handler") \/ LeaveHandler

Next ==
  \/ InitTask \/ LoopTask \/ ResetHandler \/ Direct
  \/ GpioHandler \/ Train \/ BmcReset \/ Send

(* Both tasks run: they have the same priority and time slices.  Interrupts
   are taken.  A bootblock that is not reset reports, well or badly. *)
Fairness ==
  /\ WF_vars(InitTask) /\ WF_vars(LoopTask)
  /\ WF_vars(ResetHandler) /\ WF_vars(Direct)
  /\ WF_vars(Train)

Spec == Init /\ [][Next]_vars

FairSpec == Spec /\ Fairness
-----------------------------------------------------------------------------
(* Properties.                                                             *)

LoaderPc == {"idle", "bootblock", "mute", "disable", "release", "startWd",
             "wait", "passed", "ended", "copy", "verify", "initialise",
             "trust", "continue", "open", "rearm", "execute", "done"}

TypeOK ==
  /\ bmc \in {"held", "bootblock", "trained", "next"}
  /\ post \in {"none", "pass", "fail"} /\ wd \in 0 .. 1
  /\ ddr \in {"junk", "loading", "verified"}
  /\ state \in {"DISABLE", "BOOTBLOCK_RUNNING", "BOOTBLOCK_RESET", "DDR_READY"}
  /\ notif \in Kind \cup {"none", "RESET"}
  /\ en46 \in 0 .. 1 /\ pend46 \in 0 .. 1 /\ en2 \in 0 .. 1 /\ pend2 \in 0 .. 1
  /\ reg \in {"idle", "sent", "busy", "done"} /\ req \in Kind \cup {"none"}
  /\ bit \in 0 .. 1 /\ early \in 0 .. 1 /\ deaf \in 0 .. 1
  /\ fin \in [Finisher -> {"none", "status", "clear", "pending", "enable",
                          "notify", "again"}]
  /\ lpc \in [Loader -> LoaderPc] /\ tries \in [Loader -> 0 .. Retries]
  /\ boot \in Image /\ next \in Image

(* The two tasks that run the loading code never run it together. *)
OneLoader == Reloading => lpc["init"] = "done"

(* "BMC waits for TIP to verify the next images before jumping": at the jump
   the images in DDR are verified and nobody is replacing them. *)
VerifiedBeforeJump ==
  [][bmc # "next" /\ bmc' = "next" => ddr = "verified"]_vars

(* "Only after current image is re-validated TIP will configure the current
   main image as the next image": a TIP that is reset in the middle of a
   reload starts from the recovery image. *)
Distrusted ==
  Reloading /\ lpc["task"] \notin {"continue", "open", "rearm"} =>
    next = "recovery"

(* Every request of the BMC is answered, or the BMC is booted again.  Excepted
   is a request that was sent before the notification of the one before
   ("notify BMC on complition": it may be cleared with that one), and requests
   behind one that nobody finishes. *)
Answered ==
  reg \in {"sent", "busy"} ~> reg \in {"idle", "done"} \/ early = 1 \/ deaf = 1

(* "interrupt will be reenabled after BMC is reloaded in bmc_task": when the
   reset handler has disabled its interrupt, somebody still has to act. *)
ResetRemembered ==
  en46 = 0 =>
    \/ notif = "RESET" \/ state = "BOOTBLOCK_RESET"
    \/ Reloading \/ lpc["init"] \in {"disable", "release"}

(* A BMC that is in reset gets its bootblock started. *)
ResetServed == bmc = "held" ~> bmc = "bootblock"

(* "Retry bootblock up to 3 times. If that fails, reset and recovery": the
   wait for a bootblock ends. *)
WaitEnds == \A l \in Loader : lpc[l] = "wait" ~> lpc[l] # "wait"
=============================================================================
