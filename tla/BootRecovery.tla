---------------------------- MODULE BootRecovery ----------------------------
(* How TIP starts from one of two images and keeps both of them usable: the  *)
(* ROM's search, the checks of L0 and L1, the copy between the main and the  *)
(* recovery image made by the update task, the update of the main image, the *)
(* monotonic versions in OTP, and the address of the next boot, which resets *)
(* of the BMC change too.  Power may fail between any two steps.             *)
EXTENDS Integers, FiniteSets

CONSTANTS
  Release,   \* images: records [ver, next, force]
  Factory,   \* those a device is delivered with
  Offered,   \* those it is updated to
  Blank,     \* what is left in a part of the flash by an interrupted write
  Early      \* "yes": updates may run as soon as the command interface does

ASSUME ReleaseAssumption ==
  /\ Release \subseteq [ver : Nat, next : Nat, force : BOOLEAN]
  /\ Factory \subseteq Release /\ Offered \subseteq Release
  /\ Blank \notin Release
  /\ Early \in {"yes", "no"}

(* The image's parts, by the stage that verifies them: the ROM (KMT and L0), *)
(* L0 (SKMT and L1) and L1 (the four images of the BMC).                     *)
Part == {"l0", "l1", "bmc"}
Before(p) == CASE p = "l0" -> {} [] p = "l1" -> {"l0"} [] p = "bmc" -> {"l0", "l1"}

(* IMG_COMBO0, IMG_COMBO1 and IMG_COMBO2. *)
Combo == {{"l0", "l1"}, {"bmc"}, Part}

Slot == {"main", "recovery"}

VARIABLES
  flash,     \* what each slot holds
  otp,       \* the minimal version fused for each part
  next,      \* TIP_SEARCH_HDR_START
  running,   \* the slot the running image was loaded from
  booted,    \* the image that was loaded
  pc,        \* the boot, up to the end of cerberus_init
  upc,       \* the firmware update task
  bpc,       \* bmc_task_loop
  ver,       \* tip_version: versions recorded for each part
  minimal,   \* tip_version: ..._minimal_in_otp
  recBad,    \* the updater's mark on the recovery image
  job,       \* the copy under way: the parts left, and from what
  todo,      \* parts tip_version_set_in_OTP has still to look at
  sync,      \* outcome of the last restore of the recovery image
  calm       \* the environment leaves the system alone from now on

vars == <<flash, otp, next, running, booted, pc, upc, bpc, ver, minimal, recBad,
          job, todo, sync, calm>>
ram  == <<running, booted, pc, upc, bpc, ver, minimal, recBad, job, todo>>

NoVersion == [p \in Part |-> [cur |-> 0, nxt |-> 0]]
NoImage   == [p \in Part |-> Blank]
NoJob     == [left |-> {}, from |-> NoImage]

-----------------------------------------------------------------------------
(* Checks *)

(* The signature: half a write does not verify. *)
Authentic(img) == img # Blank

(* Mutant: a component older than OTP allows is let through. *)
WrongAllowed(p, img) == img.next <= img.ver

(* tip_version_check *)
Allowed(p, img) == img.next <= img.ver /\ img.ver >= minimal[p]

(* tip_firmware_component_verify *)
Checked(p, img) == Authentic(img) /\ Allowed(p, img)

(* The components of an image are verified in order, up to the first failure. *)
Passed(ps, c) == {p \in ps : \A q \in ps \cap (Before(p) \cup {p}) : Checked(q, c[q])}

(* tip_version_set, for each component that passed. *)
Recorded(ps, c) ==
  [p \in Part |-> IF p \in Passed(ps, c) THEN [cur |-> c[p].ver, nxt |-> c[p].next]
                                         ELSE ver[p]]

(* Mutant: the versions recorded so far are kept. *)
WrongForgotten == ver

(* What tip_version_init leaves after a restore that failed. *)
Forgotten == NoVersion

(* tip_version_set_in_OTP programs a part only up to the recorded version. *)
Programmable(p) == ver[p].nxt <= ver[p].cur /\ ver[p].nxt > minimal[p]

(* The updater may be asked for an update. *)
Serving == IF Early = "yes" THEN {"select", "otp", "ready"} ELSE {"ready"}

(* What a boot needs of a slot; the ROM compares its parts with OTP too. *)
Startable(s) == flash[s]["l0"] # Blank /\ flash[s]["l0"].ver >= otp["l0"]
Bootable(s)  ==
  /\ Startable(s)
  /\ \A p \in {"l1", "bmc"} : /\ flash[s][p] # Blank
                              /\ flash[s][p].next <= flash[s][p].ver
                              /\ flash[s][p].ver >= otp[p]

-----------------------------------------------------------------------------
(* Resets *)

Init ==
  /\ \E m \in Factory : \E r \in Factory \cup {Blank} :
       /\ m.next <= m.ver
       /\ flash = [s \in Slot |-> [p \in Part |-> IF s = "main" THEN m ELSE r]]
  /\ otp = [p \in Part |-> 0]
  /\ next = "main" /\ running = "main" /\ booted = NoImage
  /\ pc = "rom" /\ upc = "off" /\ bpc = "idle"
  /\ ver = NoVersion /\ minimal = [p \in Part |-> 0]
  /\ recBad = FALSE /\ job = NoJob /\ todo = {} /\ sync = "ok" /\ calm = FALSE

(* Whatever was in RAM is gone. *)
Restart ==
  /\ pc' = "rom" /\ upc' = "off" /\ bpc' = "idle" /\ running' = "main"
  /\ booted' = NoImage /\ ver' = NoVersion /\ minimal' = [p \in Part |-> 0]
  /\ recBad' = FALSE /\ job' = NoJob /\ todo' = {}

(* A power cycle clears TIP_SEARCH_HDR_START, a watchdog reset does not. *)
Crash ==
  /\ ~calm /\ pc # "dead"
  /\ Restart
  /\ next' \in {next, "main"}
  /\ UNCHANGED <<flash, otp, sync, calm>>

Calm == ~calm /\ calm' = TRUE /\ UNCHANGED <<flash, otp, next, sync>> /\ UNCHANGED ram

-----------------------------------------------------------------------------
(* ROM and L0 *)

(* The ROM takes the first image at or after TIP_SEARCH_HDR_START, beginning
   again at the main one, and leaves the address behind it for the next boot. *)
Candidate(s) ==
  /\ Startable(s)
  /\ IF next = "recovery" THEN s = "recovery" \/ ~Startable("recovery")
                          ELSE s = "main" \/ ~Startable("main")
After(s) == IF s = "main" THEN "recovery" ELSE "end"

RomLoad(s) ==
  /\ pc = "rom" /\ Candidate(s)
  /\ running' = s /\ booted' = flash[s] /\ next' = After(s)
  /\ pc' = "l0"
  /\ UNCHANGED <<flash, otp, upc, bpc, ver, minimal, recBad, job, todo, sync, calm>>

RomHalt ==
  /\ pc = "rom" /\ \A s \in Slot : ~Startable(s)
  /\ pc' = "dead"
  /\ UNCHANGED <<flash, otp, next, running, booted, upc, bpc, ver, minimal, recBad,
                 job, todo, sync, calm>>

(* L0's main, up to the load of L1; tip_version_init reads OTP. *)
L0Start ==
  /\ pc = "l0"
  /\ minimal' = otp /\ ver' = NoVersion
  /\ pc' = "loadL1"
  /\ UNCHANGED <<flash, otp, next, running, booted, upc, bpc, recBad, job, todo, sync,
                 calm>>

(* load_main_application: SKMT and L1 are verified, the versions of KMT and
   L0 are only recorded. *)
L0Jump ==
  /\ pc = "loadL1" /\ Checked("l1", booted["l1"])
  /\ ver' = [ver EXCEPT !["l0"] = [cur |-> booted["l0"].ver, nxt |-> booted["l0"].next],
                        !["l1"] = [cur |-> booted["l1"].ver, nxt |-> booted["l1"].next]]
  /\ pc' = "l1"
  /\ UNCHANGED <<flash, otp, next, running, booted, upc, bpc, minimal, recBad, job,
                 todo, sync, calm>>

(* "Never halt the system. Reboot and try again." *)
L0Fails ==
  /\ pc = "loadL1" /\ ~Checked("l1", booted["l1"])
  /\ Restart /\ UNCHANGED <<flash, otp, next, sync, calm>>

-----------------------------------------------------------------------------
(* cerberus_init *)

RecoveryBoot == running = "recovery"

(* Up to the images of the BMC; tip_version_init again. *)
L1Start ==
  /\ pc = "l1"
  /\ minimal' = otp /\ ver' = NoVersion
  /\ pc' = "loadBmc"
  /\ UNCHANGED <<flash, otp, next, running, booted, upc, bpc, recBad, job, todo, sync,
                 calm>>

(* tip_load_bmc_firmware, and the start of the update task. *)
L1Load ==
  /\ pc = "loadBmc" /\ Checked("bmc", booted["bmc"])
  /\ ver' = Recorded({"bmc"}, booted)
  /\ pc' = "sync"
  /\ upc' = IF RecoveryBoot THEN "restoreMain" ELSE "match"
  /\ UNCHANGED <<flash, otp, next, running, booted, bpc, minimal, recBad, job, todo,
                 sync, calm>>

(* Mutant: L1 halts. *)
WrongL1Fails ==
  /\ pc = "loadBmc" /\ ~Checked("bmc", booted["bmc"])
  /\ pc' = "dead"
  /\ UNCHANGED <<flash, otp, next, running, booted, upc, bpc, ver, minimal, recBad,
                 job, todo, sync, calm>>

(* "Never halt the system. Reboot and try again." *)
L1Fails ==
  /\ pc = "loadBmc" /\ ~Checked("bmc", booted["bmc"])
  /\ Restart /\ UNCHANGED <<flash, otp, next, sync, calm>>

(* Mutant: the update task is not waited for. *)
WrongStartCommands ==
  /\ pc = "sync"
  /\ pc' = "select"
  /\ UNCHANGED <<flash, otp, next, running, booted, upc, bpc, ver, minimal, recBad,
                 job, todo, sync, calm>>

(* start_cmd_interface, once the update task is free *)
StartCommands ==
  /\ pc = "sync" /\ upc = "idle"
  /\ pc' = "select"
  /\ UNCHANGED <<flash, otp, next, running, booted, upc, bpc, ver, minimal, recBad,
                 job, todo, sync, calm>>

(* "if main == recovery image, return to main image on the next reset";
   then bmc_continue lets the BMC run. *)
SelectMain ==
  /\ pc = "select"
  /\ next' = "main"
  /\ pc' = "otp" /\ todo' = Part
  /\ UNCHANGED <<flash, otp, running, booted, upc, bpc, ver, minimal, recBad, job,
                 sync, calm>>

(* One turn of the loop of tip_version_set_in_OTP; the fuses of a part are a
   thermometer, so that the last bit programmed is its minimal version. *)
SetInOTP(p) ==
  /\ pc = "otp" /\ p \in todo /\ Before(p) \cap todo = {}
  /\ otp' = [otp EXCEPT ![p] = IF Programmable(p) THEN ver[p].nxt ELSE @]
  /\ todo' = todo \ {p}
  /\ pc' = IF todo' = {} THEN "ready" ELSE pc
  /\ UNCHANGED <<flash, next, running, booted, upc, bpc, ver, minimal, recBad, job,
                 sync, calm>>

-----------------------------------------------------------------------------
(* The update task before it is free: recovery of one image from the other *)

boot == <<otp, next, running, booted, pc, bpc, minimal, todo, calm>>

(* The copy begins with the erasure of the parts it replaces. *)
Begin(dst, ps, c) ==
  /\ flash' = [flash EXCEPT ![dst] = [p \in Part |-> IF p \in ps THEN Blank ELSE @[p]]]
  /\ job' = [left |-> ps, from |-> c]

Copy(dst, p) ==
  /\ p \in job.left /\ Before(p) \cap job.left = {}
  /\ flash' = [flash EXCEPT ![dst][p] = job.from[p]]
  /\ job' = [job EXCEPT !.left = @ \ {p}]

(* A recovery boot: the running image is good by definition. *)
MarkRecoveryGood ==
  /\ upc = "restoreMain"
  /\ recBad' = FALSE
  /\ upc' = IF booted["l1"].force THEN "verifyRecovery" ELSE "idle"
  /\ UNCHANGED <<flash, ver, job, sync>> /\ UNCHANGED boot

(* firmware_update_restore_active_image *)
RestoreMain ==
  /\ upc = "verifyRecovery"
  /\ ver' = Recorded(Part, flash["recovery"])
  /\ IF Passed(Part, flash["recovery"]) = Part
     THEN /\ Begin("main", Part, flash["recovery"])
          /\ upc' = "copyToMain"
     ELSE /\ upc' = "idle"
          /\ UNCHANGED <<flash, job>>
  /\ UNCHANGED <<recBad, sync>> /\ UNCHANGED boot

CopyToMain(p) ==
  /\ upc = "copyToMain" /\ Copy("main", p)
  /\ upc' = IF job'.left = {} THEN "idle" ELSE upc
  /\ UNCHANGED <<ver, recBad, sync>> /\ UNCHANGED boot

(* "fail to restore main flash" *)
RestoreMainFails ==
  /\ ~calm /\ upc \in {"verifyRecovery", "copyToMain"}
  /\ upc' = "idle" /\ job' = NoJob
  /\ UNCHANGED <<flash, ver, recBad, sync>> /\ UNCHANGED boot

(* Mutant: the images are taken to match. *)
WrongDiffers == FALSE

(* Does the recovery image have to be replaced?  Only when the running image
   asks for it is it compared with the active one. *)
Differs == booted["l1"].force /\ flash["recovery"] # flash["main"]

Match ==
  /\ upc = "match"
  /\ recBad' = (recBad \/ Differs)
  /\ upc' = "validate"
  /\ UNCHANGED <<flash, ver, job, sync>> /\ UNCHANGED boot

ValidateRecovery ==
  /\ upc = "validate"
  /\ IF recBad
     THEN UNCHANGED <<ver, recBad>>
     ELSE /\ ver' = Recorded(Part, flash["recovery"])
          /\ recBad' = (Passed(Part, flash["recovery"]) # Part)
  /\ upc' = "restore"
  /\ UNCHANGED <<flash, job, sync>> /\ UNCHANGED boot

RestoreNotNeeded ==
  /\ upc = "restore" /\ ~recBad
  /\ upc' = "idle" /\ sync' = "ok"
  /\ UNCHANGED <<flash, ver, recBad, job>> /\ UNCHANGED boot

(* firmware_update_restore_recovery_image *)
RestoreRecovery ==
  /\ upc = "restore" /\ recBad
  /\ Passed(Part, flash["main"]) = Part
  /\ ver' = Recorded(Part, flash["main"])
  /\ Begin("recovery", Part, flash["main"])
  /\ upc' = "copyToRecovery"
  /\ UNCHANGED <<recBad, sync>> /\ UNCHANGED boot

CopyToRecovery(p) ==
  /\ upc = "copyToRecovery" /\ Copy("recovery", p)
  /\ IF job'.left = {} THEN upc' = "idle" /\ recBad' = FALSE /\ sync' = "ok"
                       ELSE UNCHANGED <<upc, recBad, sync>>
  /\ UNCHANGED ver /\ UNCHANGED boot

(* The image does not verify, or the flash fails, before the copy or in it. *)
RestoreRecoveryFails ==
  /\ \/ upc = "restore" /\ recBad
        /\ (~calm \/ Passed(Part, flash["main"]) # Part)
     \/ upc = "copyToRecovery" /\ ~calm
  /\ ver' = Forgotten
  /\ upc' = "idle" /\ job' = NoJob
  /\ sync' = IF Bootable("recovery") THEN "kept" ELSE "lost"
  /\ UNCHANGED <<flash, recBad>> /\ UNCHANGED boot

-----------------------------------------------------------------------------
(* Updates *)

(* An update of some parts to an image, staged and requested. *)
RunUpdate(ps, r) ==
  /\ ~calm /\ upc = "idle" /\ pc \in Serving
  /\ job' = [left |-> ps, from |-> [p \in Part |-> IF p \in ps THEN r ELSE Blank]]
  /\ upc' = "verify"
  /\ UNCHANGED <<flash, ver, recBad, sync>> /\ UNCHANGED boot

VerifyUpdate ==
  /\ upc = "verify"
  /\ ver' = Recorded(job.left, job.from)
  /\ IF Passed(job.left, job.from) = job.left
     THEN Begin("main", job.left, job.from) /\ upc' = "write"
     ELSE flash' = flash /\ job' = NoJob /\ upc' = "idle"
  /\ UNCHANGED <<recBad, sync>> /\ UNCHANGED boot

WriteUpdate(p) ==
  /\ upc = "write" /\ Copy("main", p)
  /\ upc' = IF job'.left = {} THEN "settle" ELSE upc
  /\ UNCHANGED <<ver, recBad, sync>> /\ UNCHANGED boot

UpdateFails ==
  /\ ~calm /\ upc \in {"verify", "write"}
  /\ upc' = "idle" /\ job' = NoJob
  /\ UNCHANGED <<flash, ver, recBad, sync>> /\ UNCHANGED boot

(* system_reset, 5 seconds after the end of the update *)
UpdateReset ==
  /\ upc = "settle"
  /\ Restart /\ UNCHANGED <<flash, otp, next, sync, calm>>

-----------------------------------------------------------------------------
(* Resets of the BMC *)

(* "the image is not trusted": until the BMC is loaded again, the next boot is
   the recovery image. *)
BmcReset ==
  /\ ~calm /\ pc = "ready" /\ bpc = "idle"
  /\ next' = "recovery" /\ bpc' = "reload"
  /\ UNCHANGED <<flash, otp, running, booted, pc, upc, ver, minimal, recBad, job,
                 todo, sync, calm>>

BmcReload ==
  /\ bpc = "reload" /\ Checked("bmc", flash[running]["bmc"])
  /\ ver' = Recorded({"bmc"}, flash[running])
  /\ next' = IF RecoveryBoot THEN next ELSE "main"
  /\ bpc' = "idle"
  /\ UNCHANGED <<flash, otp, running, booted, pc, upc, minimal, recBad, job, todo,
                 sync, calm>>

BmcReloadFails ==
  /\ bpc = "reload" /\ ~Checked("bmc", flash[running]["bmc"])
  /\ Restart /\ UNCHANGED <<flash, otp, next, sync, calm>>

(* The main image was reset too often: tip_reset_counters_increment. *)
GiveUpMain ==
  /\ ~calm /\ bpc = "reload" /\ ~RecoveryBoot
  /\ Checked("bmc", flash[running]["bmc"])
  /\ next' = "recovery"
  /\ Restart /\ UNCHANGED <<flash, otp, sync, calm>>

-----------------------------------------------------------------------------
Boot   == \/ \E s \in Slot : RomLoad(s)
          \/ RomHalt \/ L0Start \/ L0Jump \/ L0Fails \/ L1Start \/ L1Load \/ L1Fails
          \/ StartCommands \/ SelectMain \/ \E p \in Part : SetInOTP(p)
Sync   == \/ MarkRecoveryGood \/ RestoreMain \/ \E p \in Part : CopyToMain(p)
          \/ Match \/ ValidateRecovery \/ RestoreNotNeeded \/ RestoreRecovery
          \/ \E p \in Part : CopyToRecovery(p)
          \/ RestoreMainFails \/ RestoreRecoveryFails
Update == \/ VerifyUpdate \/ \E p \in Part : WriteUpdate(p)
          \/ UpdateFails \/ UpdateReset
Reload == BmcReload \/ BmcReloadFails \/ GiveUpMain
Env    == \/ Crash \/ Calm \/ BmcReset
          \/ \E ps \in Combo : \E r \in Offered : RunUpdate(ps, r)

Next == Boot \/ Sync \/ Update \/ Reload \/ Env

Spec == Init /\ [][Next]_vars /\ WF_vars(Boot) /\ WF_vars(Sync) /\ WF_vars(Update)
             /\ WF_vars(Reload)

-----------------------------------------------------------------------------
(* Properties *)

Content == Release \cup {Blank}

TypeOK ==
  /\ flash \in [Slot -> [Part -> Content]]
  /\ otp \in [Part -> Nat] /\ minimal \in [Part -> Nat]
  /\ next \in Slot \cup {"end"} /\ running \in Slot
  /\ booted \in [Part -> Content]
  /\ pc \in {"rom", "dead", "l0", "loadL1", "l1", "loadBmc", "sync", "select",
             "otp", "ready"}
  /\ upc \in {"off", "match", "validate", "restore", "copyToRecovery", "restoreMain",
              "verifyRecovery", "copyToMain", "idle", "verify", "write", "settle"}
  /\ bpc \in {"idle", "reload"}
  /\ ver \in [Part -> [cur : Nat, nxt : Nat]]
  /\ recBad \in BOOLEAN /\ calm \in BOOLEAN
  /\ job \in [left : SUBSET Part, from : [Part -> Content]]
  /\ todo \subseteq Part
  /\ sync \in {"ok", "kept", "lost"}
  /\ pc \in {"rom", "dead", "l0", "loadL1", "l1", "loadBmc"} => upc = "off"
  /\ pc \in {"select", "otp", "ready"} =>
       upc \in {"idle", "verify", "write", "settle"}
  /\ job.left # {} => upc \in {"copyToRecovery", "copyToMain", "verify", "write"}
  /\ todo # {} => pc = "otp"

(* "If the next OTP version number is greater than the version of currently
   running image, do not program": no fuse is blown that would keep the running
   image from starting again; of an image that asks for a matching recovery
   image. *)
NotProgrammedBeyond ==
  pc \in {"select", "otp", "ready"} /\ booted["l1"] # Blank /\ booted["l1"].force
    => \A p \in Part : otp[p] <= booted[p].ver

(* Whenever power fails, one of the two slots holds a complete image that is
   not older than OTP allows - unless the recovery image could not be repaired;
   nor do the fuses outrun the image that runs. *)
NeverBricked ==
  /\ sync = "lost" \/ \E s \in Slot : Bootable(s)
  /\ NotProgrammedBeyond

(* A booted image that asks for it is the recovery image too, whatever updates
   do to the main one meanwhile. *)
RecoveryKept ==
  pc \in {"select", "otp", "ready"} /\ booted["l1"].force /\ sync = "ok"
     => flash["recovery"] = booted

(* Once it is left alone, TIP gets up again. *)
Recovers == calm /\ sync # "lost" ~> pc = "ready"
=============================================================================
