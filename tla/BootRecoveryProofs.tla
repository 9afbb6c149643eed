------------------------- MODULE BootRecoveryProofs -------------------------
(* Proofs about BootRecovery: for any releases, any images a device is       *)
(* delivered with or updated to, and power failures, faults and resets of    *)
(* the BMC at any step, provided that updates run only when the boot is over *)
(* (Early = "no").                                                           *)
(*                                                                           *)
(* The argument: the two slots are never at risk at the same time.  The      *)
(* recovery image is overwritten only in a boot from the main one, before    *)
(* the command interface is open, and only after all of the main image has   *)
(* been checked against OTP; the main one only from a recovery image that    *)
(* this boot started from, or by an update, when the recovery image is known *)
(* to be bootable (SlotInv).  Fuses are blown in between, up to versions     *)
(* that the recovery image has (FuseInv).                                    *)
EXTENDS BootRecovery, TLAPS

Off     == {"rom", "dead", "l0", "loadL1", "l1", "loadBmc"}
Open    == {"select", "otp", "ready"}
Updating == {"verify", "write", "settle"}

(* The start of the update task is over: the images are as they will be when
   the fuses are blown. *)
Synced == pc \in Open \/ (pc = "sync" /\ upc = "idle")

Sound(p, img) == img # Blank /\ img.next <= img.ver

Recording(img) == [cur |-> img.ver, nxt |-> img.next]

(* What was loaded is still in the slot it came from. *)
BootedInv ==
  /\ pc \notin {"rom", "dead"} =>
       /\ running = "recovery" => flash["recovery"] = booted
       /\ running = "main" /\ upc \notin Updating /\ pc # "ready" => flash["main"] = booted
       /\ booted["l0"] # Blank
  /\ pc \in {"l1", "loadBmc", "sync"} \cup Open => Sound("l1", booted["l1"])
  /\ pc \in {"sync"} \cup Open => Sound("bmc", booted["bmc"])
  /\ pc \in {"loadL1", "l1", "loadBmc", "sync", "select"} => minimal = otp
  /\ pc \in {"otp"} => \A p \in todo : minimal[p] = otp[p]
  /\ pc \in {"l0", "loadL1", "l1", "loadBmc", "sync", "select"} => otp["l0"] <= booted["l0"].ver
  /\ pc \in {"l1", "loadBmc", "sync", "select"} => otp["l1"] <= booted["l1"].ver
  /\ pc \in {"sync", "select"} => otp["bmc"] <= booted["bmc"].ver

(* Which part of its work the update task does in which boot. *)
PhaseInv ==
  /\ upc \in {"match", "validate", "restore", "copyToRecovery"} =>
       pc = "sync" /\ running = "main"
  /\ upc \in {"restoreMain", "verifyRecovery", "copyToMain"} =>
       pc = "sync" /\ running = "recovery"
  /\ upc \in Updating => pc = "ready"
  /\ bpc = "reload" => pc = "ready"

(* What the start of the update task has found out about the recovery image. *)
RecoveryInv ==
  /\ upc \in {"validate", "restore"} /\ ~recBad /\ booted["l1"].force =>
       flash["recovery"] = booted
  /\ upc = "restore" /\ ~recBad =>
       \A p \in Part : /\ Checked(p, flash["recovery"][p])
                       /\ ver[p] = Recording(flash["recovery"][p])
  /\ upc = "copyToRecovery" =>
       /\ job.from = booted
       /\ \A p \in Part : /\ Checked(p, booted[p])
                          /\ ver[p] = Recording(booted[p])
                          /\ p \notin job.left => flash["recovery"][p] = booted[p]
  /\ Synced /\ sync = "ok" /\ booted["l1"].force => flash["recovery"] = booted

(* One slot can be booted, and it is not the one that is written to. *)
SlotInv ==
  /\ sync # "lost" => \E s \in Slot : Bootable(s)
  /\ sync # "lost" /\ Synced => Bootable("recovery")
  /\ upc = "copyToRecovery" => Bootable("main")
  /\ upc = "copyToMain" => Bootable("recovery")

(* No fuse will be blown that is above the recovery image, or above an image
   that asks for a matching one. *)
FuseInv ==
  /\ pc = "loadBmc" => ver = NoVersion
  /\ pc \in {"sync", "select", "otp"} /\ running = "recovery" =>
       \A p \in Part : ver[p].nxt = 0 \/ ver[p] = Recording(booted[p])
  /\ (pc \in {"select", "otp"} \/ (pc = "sync" /\ upc = "idle")) =>
       \A p \in Part : Programmable(p) =>
          /\ sync # "lost" => ver[p].nxt <= flash["recovery"][p].ver
          /\ booted["l1"].force => ver[p].nxt <= booted[p].ver
  /\ NotProgrammedBeyond

IInv == TypeOK /\ BootedInv /\ PhaseInv /\ RecoveryInv /\ SlotInv /\ FuseInv

-----------------------------------------------------------------------------
(* Checks *)

(* An image that passes is an image: its versions are numbers. *)
LEMMA ImageContent ==
  ASSUME NEW img \in Content, img # Blank
  PROVE  img \in Release /\ img.ver \in Nat /\ img.next \in Nat /\ img.force \in BOOLEAN
BY ReleaseAssumption DEF Content

(* tip_version_check of all the components. *)
LEMMA AllChecked ==
  ASSUME NEW c, Passed(Part, c) = Part
  PROVE  /\ \A p \in Part : Checked(p, c[p])
         /\ \A p \in Part : Recorded(Part, c)[p] = Recording(c[p])
<1>1. \A p \in Part : Checked(p, c[p])
  BY DEF Passed
<1>2. QED
  BY <1>1 DEF Recorded, Recording

(* tip_version_set records a version of the image or leaves what was there. *)
LEMMA RecordedEither ==
  ASSUME NEW c, NEW ps \in SUBSET Part, NEW p \in Part
  PROVE  \/ Recorded(ps, c)[p] = ver[p]
         \/ Recorded(ps, c)[p] = Recording(c[p]) /\ Checked(p, c[p])
BY DEF Recorded, Recording, Passed

(* What is recorded are numbers: of an image that passed, or as before. *)
LEMMA RecordedTyped ==
  ASSUME ver \in [Part -> [cur : Nat, nxt : Nat]],
         NEW c \in [Part -> Content], NEW ps \in SUBSET Part
  PROVE  Recorded(ps, c) \in [Part -> [cur : Nat, nxt : Nat]]
<1>1. ASSUME NEW p \in Part
      PROVE  Recorded(ps, c)[p] \in [cur : Nat, nxt : Nat]
  <2>1. CASE Recorded(ps, c)[p] = ver[p]
    BY <2>1
  <2>2. CASE Recorded(ps, c)[p] = Recording(c[p]) /\ Checked(p, c[p])
    <3>1. c[p] \in Content /\ c[p] # Blank
      BY <2>2 DEF Checked, Authentic
    <3>2. QED
      BY <2>2, <3>1, ImageContent DEF Recording
  <2>3. QED
    BY <2>1, <2>2, RecordedEither
<1>2. Recorded(ps, c) = [p \in Part |-> Recorded(ps, c)[p]]
  BY DEF Recorded
<1>3. QED
  BY <1>1, <1>2

(* While RAM holds the versions in OTP, the checks are those of the ROM. *)
LEMMA CheckedBootable ==
  ASSUME minimal = otp, NEW s \in Slot, \A p \in Part : Checked(p, flash[s][p])
  PROVE  Bootable(s)
BY DEF Bootable, Startable, Checked, Authentic, Allowed, Part

(* The image that this boot has loaded can be booted. *)
LEMMA LoadedBootable ==
  ASSUME BootedInv, pc \in {"sync", "select"},
         NEW s \in Slot, flash[s] = booted, booted \in [Part -> Content],
         otp \in [Part -> Nat]
  PROVE  Bootable(s)
<1>1. /\ Sound("l1", booted["l1"]) /\ Sound("bmc", booted["bmc"])
      /\ booted["l0"] # Blank
      /\ \A p \in Part : otp[p] <= booted[p].ver
  BY DEF BootedInv, Part, Open
<1>2. \A p \in Part : booted[p].ver \in Nat
  BY <1>1, ImageContent DEF Part, Sound
<1>3. QED
  BY <1>1, <1>2 DEF Bootable, Startable, Sound, Part

-----------------------------------------------------------------------------
(* The initial states *)

(* A device is delivered with a main image that can be booted. *)
LEMMA InitInv == Init => IInv
<1> SUFFICES ASSUME Init
             PROVE  IInv
  OBVIOUS
<1> PICK m \in Factory, r \in Factory \cup {Blank} :
      /\ m.next <= m.ver
      /\ flash = [s \in Slot |-> [p \in Part |-> IF s = "main" THEN m ELSE r]]
  BY DEF Init
<1>1. /\ m \in Release /\ m # Blank /\ m.ver \in Nat /\ m.next \in Nat
      /\ r \in Content
  BY ReleaseAssumption DEF Content
<1>2. TypeOK
  BY <1>1 DEF TypeOK, Init, Content, NoVersion, NoImage, NoJob, Slot, Part
<1>3. Bootable("main")
  BY <1>1 DEF Init, Bootable, Startable, Slot, Part
<1>4. BootedInv /\ PhaseInv /\ RecoveryInv /\ FuseInv
  BY DEF Init, BootedInv, PhaseInv, RecoveryInv, FuseInv, NotProgrammedBeyond,
         Open, Updating, Synced
<1>5. SlotInv
  BY <1>3 DEF Init, SlotInv, Synced, Open, Slot
<1>6. QED
  BY <1>2, <1>4, <1>5 DEF IInv

-----------------------------------------------------------------------------
(* The type *)

(* Erasing parts of a slot, and writing one, keep the flash one. *)
LEMMA BeginTyped ==
  ASSUME flash \in [Slot -> [Part -> Content]],
         NEW dst \in Slot, NEW ps \in SUBSET Part, NEW c \in [Part -> Content],
         Begin(dst, ps, c)
  PROVE  /\ flash' \in [Slot -> [Part -> Content]]
         /\ job' \in [left : SUBSET Part, from : [Part -> Content]]
         /\ job'.left = ps
BY DEF Begin, Content

(* Copying a part keeps both the flash and the copy job what they are. *)
LEMMA CopyTyped ==
  ASSUME flash \in [Slot -> [Part -> Content]],
         job \in [left : SUBSET Part, from : [Part -> Content]],
         NEW dst \in Slot, NEW p \in Part, Copy(dst, p)
  PROVE  /\ flash' \in [Slot -> [Part -> Content]]
         /\ job' \in [left : SUBSET Part, from : [Part -> Content]]
         /\ job'.left = job.left \ {p} /\ job'.from = job.from
<1>1. job.from[p] \in Content
  OBVIOUS
<1>2. flash' \in [Slot -> [Part -> Content]]
  BY <1>1 DEF Copy
<1>3. job' = [left |-> job.left \ {p}, from |-> job.from]
  BY DEF Copy
<1>4. QED
  BY <1>2, <1>3

(* L0 records the versions of L0 that the ROM found in an image. *)
LEMMA TypeBoot == TypeOK /\ BootedInv /\ Boot => TypeOK'
<1> SUFFICES ASSUME TypeOK, BootedInv, Boot
             PROVE  TypeOK'
  OBVIOUS
<1>1. ASSUME NEW s \in Slot, RomLoad(s)
      PROVE  TypeOK'
  BY <1>1 DEF TypeOK, RomLoad, After, Slot
<1>2. CASE RomHalt
  BY <1>2 DEF TypeOK, RomHalt
<1>3. CASE L0Start
  BY <1>3 DEF TypeOK, L0Start, NoVersion
<1>4. CASE L0Jump
  <2>1. \A p \in {"l0", "l1"} : booted[p] \in Content /\ booted[p] # Blank
    BY <1>4 DEF L0Jump, Checked, Authentic, BootedInv, TypeOK, Part
  <2>2. ver' \in [Part -> [cur : Nat, nxt : Nat]]
    BY <1>4, <2>1, ImageContent DEF TypeOK, L0Jump, Part
  <2>3. QED
    BY <1>4, <2>2 DEF TypeOK, L0Jump
<1>5. CASE L0Fails
  BY <1>5 DEF TypeOK, L0Fails, Restart, NoVersion, NoImage, NoJob, Slot, Content
<1>6. CASE L1Start
  BY <1>6 DEF TypeOK, L1Start, NoVersion
<1>7. CASE L1Load
  <2>1. ver' \in [Part -> [cur : Nat, nxt : Nat]]
    BY <1>7, RecordedTyped DEF TypeOK, L1Load, Part
  <2>2. QED
    BY <1>7, <2>1 DEF TypeOK, L1Load
<1>8. CASE L1Fails
  BY <1>8 DEF TypeOK, L1Fails, Restart, NoVersion, NoImage, NoJob, Slot, Content
<1>9. CASE StartCommands
  BY <1>9 DEF TypeOK, StartCommands
<1>10. CASE SelectMain
  BY <1>10 DEF TypeOK, SelectMain, Slot
<1>11. ASSUME NEW p \in Part, SetInOTP(p)
       PROVE  TypeOK'
  <2>1. otp' \in [Part -> Nat]
    BY <1>11 DEF TypeOK, SetInOTP
  <2>2. QED
    BY <1>11, <2>1 DEF TypeOK, SetInOTP
<1>12. QED
  BY <1>1, <1>2, <1>3, <1>4, <1>5, <1>6, <1>7, <1>8, <1>9, <1>10, <1>11 DEF Boot

(* So do the restores at the start of the update task. *)
LEMMA TypeSync == TypeOK /\ Sync => TypeOK'
<1> SUFFICES ASSUME TypeOK, Sync
             PROVE  TypeOK'
  OBVIOUS
<1>1. CASE MarkRecoveryGood
  BY <1>1 DEF TypeOK, MarkRecoveryGood, boot
<1>2. CASE RestoreMain
  <2>1. ver' \in [Part -> [cur : Nat, nxt : Nat]]
    BY <1>2, RecordedTyped DEF TypeOK, RestoreMain, Slot
  <2>2. CASE Passed(Part, flash["recovery"]) = Part
    <3>1. /\ flash' \in [Slot -> [Part -> Content]]
          /\ job' \in [left : SUBSET Part, from : [Part -> Content]]
      BY <1>2, <2>2, BeginTyped DEF TypeOK, RestoreMain, Slot
    <3>2. QED
      BY <1>2, <2>1, <2>2, <3>1 DEF TypeOK, RestoreMain, boot
  <2>3. CASE Passed(Part, flash["recovery"]) # Part
    BY <1>2, <2>1, <2>3 DEF TypeOK, RestoreMain, boot
  <2>4. QED
    BY <2>2, <2>3
<1>3. ASSUME NEW p \in Part, CopyToMain(p)
      PROVE  TypeOK'
  <2>1. /\ flash' \in [Slot -> [Part -> Content]]
        /\ job' \in [left : SUBSET Part, from : [Part -> Content]]
    BY <1>3, CopyTyped DEF TypeOK, CopyToMain, Slot
  <2>2. QED
    BY <1>3, <2>1 DEF TypeOK, CopyToMain, boot
<1>4. CASE Match
  BY <1>4 DEF TypeOK, Match, Differs, boot
<1>5. CASE ValidateRecovery
  <2>1. ver' \in [Part -> [cur : Nat, nxt : Nat]]
    BY <1>5, RecordedTyped DEF TypeOK, ValidateRecovery, Slot
  <2>2. QED
    BY <1>5, <2>1 DEF TypeOK, ValidateRecovery, boot
<1>6. CASE RestoreNotNeeded
  BY <1>6 DEF TypeOK, RestoreNotNeeded, boot
<1>7. CASE RestoreRecovery
  <2>1. ver' \in [Part -> [cur : Nat, nxt : Nat]]
    BY <1>7, RecordedTyped DEF TypeOK, RestoreRecovery, Slot
  <2>2. /\ flash' \in [Slot -> [Part -> Content]]
        /\ job' \in [left : SUBSET Part, from : [Part -> Content]]
    BY <1>7, BeginTyped DEF TypeOK, RestoreRecovery, Slot
  <2>3. QED
    BY <1>7, <2>1, <2>2 DEF TypeOK, RestoreRecovery, boot
<1>8. ASSUME NEW p \in Part, CopyToRecovery(p)
      PROVE  TypeOK'
  <2>1. /\ flash' \in [Slot -> [Part -> Content]]
        /\ job' \in [left : SUBSET Part, from : [Part -> Content]]
    BY <1>8, CopyTyped DEF TypeOK, CopyToRecovery, Slot
  <2>2. QED
    BY <1>8, <2>1 DEF TypeOK, CopyToRecovery, boot
<1>9. CASE RestoreMainFails
  BY <1>9 DEF TypeOK, RestoreMainFails, NoJob, NoImage, Content, boot
<1>10. CASE RestoreRecoveryFails
  BY <1>10 DEF TypeOK, RestoreRecoveryFails, Forgotten, NoVersion, NoJob, NoImage,
               Content, boot
<1>11. QED
  BY <1>1, <1>2, <1>3, <1>4, <1>5, <1>6, <1>7, <1>8, <1>9, <1>10 DEF Sync

(* And updates, resets of the BMC, and the environment. *)
LEMMA TypeRun ==
  TypeOK /\ (Update \/ Reload \/ Env) => TypeOK'
<1> SUFFICES ASSUME TypeOK, Update \/ Reload \/ Env
             PROVE  TypeOK'
  OBVIOUS
<1>1. CASE VerifyUpdate
  <2>1. ver' \in [Part -> [cur : Nat, nxt : Nat]]
    BY <1>1, RecordedTyped DEF TypeOK, VerifyUpdate
  <2>2. CASE Passed(job.left, job.from) = job.left
    <3>1. /\ flash' \in [Slot -> [Part -> Content]]
          /\ job' \in [left : SUBSET Part, from : [Part -> Content]]
      BY <1>1, <2>2, BeginTyped DEF TypeOK, VerifyUpdate, Slot
    <3>2. QED
      BY <1>1, <2>1, <2>2, <3>1 DEF TypeOK, VerifyUpdate, boot
  <2>3. CASE Passed(job.left, job.from) # job.left
    BY <1>1, <2>1, <2>3 DEF TypeOK, VerifyUpdate, NoJob, NoImage, Content, boot
  <2>4. QED
    BY <2>2, <2>3
<1>2. ASSUME NEW p \in Part, WriteUpdate(p)
      PROVE  TypeOK'
  <2>1. /\ flash' \in [Slot -> [Part -> Content]]
        /\ job' \in [left : SUBSET Part, from : [Part -> Content]]
    BY <1>2, CopyTyped DEF TypeOK, WriteUpdate, Slot
  <2>2. QED
    BY <1>2, <2>1 DEF TypeOK, WriteUpdate, boot
<1>3. CASE UpdateFails
  BY <1>3 DEF TypeOK, UpdateFails, NoJob, NoImage, Content, boot
<1>4. CASE BmcReload
  <2>1. ver' \in [Part -> [cur : Nat, nxt : Nat]]
    BY <1>4, RecordedTyped DEF TypeOK, BmcReload, Part
  <2>2. QED
    BY <1>4, <2>1 DEF TypeOK, BmcReload, Slot
<1>5. ASSUME Restart, UNCHANGED <<flash, otp, sync>>,
             next' \in Slot \cup {"end"}, calm' \in BOOLEAN
      PROVE  TypeOK'
  BY <1>5 DEF TypeOK, Restart, NoVersion, NoImage, NoJob, Slot, Content
<1>6. CASE UpdateReset
  BY <1>5, <1>6 DEF TypeOK, UpdateReset
<1>7. CASE BmcReloadFails
  BY <1>5, <1>7 DEF TypeOK, BmcReloadFails
<1>8. CASE GiveUpMain
  BY <1>5, <1>8 DEF TypeOK, GiveUpMain, Slot
<1>9. CASE Crash
  BY <1>5, <1>9 DEF TypeOK, Crash, Slot
<1>10. CASE Calm
  BY <1>10 DEF TypeOK, Calm, ram
<1>11. CASE BmcReset
  BY <1>11 DEF TypeOK, BmcReset, Slot
<1>12. ASSUME NEW ps \in Combo, NEW r \in Offered, RunUpdate(ps, r)
      PROVE  TypeOK'
  <2>1. ps \subseteq Part /\ r \in Content
    BY ReleaseAssumption DEF Combo, Part, Content
  <2>2. [p \in Part |-> IF p \in ps THEN r ELSE Blank] \in [Part -> Content]
    BY <2>1 DEF Content
  <2>3. job' \in [left : SUBSET Part, from : [Part -> Content]]
    BY <1>12, <2>1, <2>2 DEF RunUpdate
  <2>4. pc \in {"select", "otp", "ready"}
    BY <1>12 DEF RunUpdate, Serving
  <2>5. QED
    BY <1>12, <2>3, <2>4 DEF TypeOK, RunUpdate, boot
<1>13. QED
  BY <1>1, <1>2, <1>3, <1>4, <1>6, <1>12, <1>7, <1>8, <1>9, <1>10, <1>11
  DEF Update, Reload, Env

(* Every step keeps the type. *)
LEMMA TypeStep == TypeOK /\ BootedInv /\ [Next]_vars => TypeOK'
<1>1. TypeOK /\ UNCHANGED vars => TypeOK'
  BY DEF TypeOK, vars
<1>2. QED
  BY <1>1, TypeBoot, TypeSync, TypeRun DEF Next

-----------------------------------------------------------------------------
(* What the steps leave alone *)

(* A reset leaves the flash and the fuses; all else starts again. *)
LEMMA RestartFrame ==
  L0Fails \/ L1Fails \/ UpdateReset \/ BmcReloadFails \/ GiveUpMain \/ Crash
    => Restart /\ UNCHANGED <<flash, otp, sync>>
BY DEF L0Fails, L1Fails, UpdateReset, BmcReloadFails, GiveUpMain, Crash

(* After a reset nothing is claimed but that a slot can be booted. *)
LEMMA RestartInv ==
  IInv /\ Restart /\ UNCHANGED <<flash, otp, sync>>
    => BootedInv' /\ PhaseInv' /\ RecoveryInv' /\ SlotInv' /\ FuseInv'
<1> SUFFICES ASSUME IInv, Restart, UNCHANGED <<flash, otp, sync>>
             PROVE  BootedInv' /\ PhaseInv' /\ RecoveryInv' /\ SlotInv' /\ FuseInv'
  OBVIOUS
<1>1. pc' = "rom" /\ upc' = "off" /\ bpc' = "idle"
  BY DEF Restart
<1>2. BootedInv' /\ PhaseInv' /\ RecoveryInv' /\ FuseInv'
  BY <1>1 DEF BootedInv, PhaseInv, RecoveryInv, FuseInv, NotProgrammedBeyond, Open,
              Updating, Synced
<1>3. \A s \in Slot : Bootable(s)' <=> Bootable(s)
  BY DEF Bootable, Startable
<1>4. SlotInv'
  BY <1>1, <1>3 DEF IInv, SlotInv, Synced, Open
<1>5. QED
  BY <1>2, <1>4

(* Once the boot is over the recovery image, the fuses and what was booted stay
   as they are. *)
Runs ==
  /\ pc = "ready" /\ pc' = "ready"
  /\ flash'["recovery"] = flash["recovery"]
  /\ upc' \in Updating \cup {"idle"}
  /\ UNCHANGED <<otp, running, booted, sync>>

(* With Early = "no" an update runs only then, and writes to the main slot. *)
LEMMA RunsFrame ==
  ASSUME Early = "no", IInv,
         \/ Update /\ ~UpdateReset
         \/ BmcReload \/ BmcReset
         \/ \E ps \in Combo : \E r \in Offered : RunUpdate(ps, r)
  PROVE  Runs
<1>1. PhaseInv /\ TypeOK
  BY DEF IInv
<1>2. CASE VerifyUpdate
  BY <1>1, <1>2 DEF PhaseInv, TypeOK, VerifyUpdate, Begin, Runs, boot, Updating, Slot
<1>3. ASSUME NEW p \in Part, WriteUpdate(p)
      PROVE  Runs
  BY <1>1, <1>3 DEF PhaseInv, TypeOK, WriteUpdate, Copy, Runs, boot, Updating, Slot
<1>4. CASE UpdateFails
  BY <1>1, <1>4 DEF PhaseInv, UpdateFails, Runs, boot, Updating
<1>5. CASE BmcReload
  BY <1>1, <1>5 DEF PhaseInv, TypeOK, BmcReload, Runs, Updating
<1>6. CASE BmcReset
  BY <1>1, <1>6 DEF TypeOK, BmcReset, Runs, Updating
<1>7. ASSUME NEW ps \in Combo, NEW r \in Offered, RunUpdate(ps, r)
      PROVE  Runs
  BY <1>7 DEF RunUpdate, Serving, Runs, boot, Updating
<1>8. QED
  BY <1>2, <1>3, <1>4, <1>5, <1>6, <1>7 DEF Update

(* The invariant says nothing of the main slot then. *)
LEMMA RunsInv ==
  ASSUME IInv, Runs
  PROVE  BootedInv' /\ PhaseInv' /\ RecoveryInv' /\ SlotInv' /\ FuseInv'
<1>1. /\ pc = "ready" /\ pc' = "ready" /\ upc' \in {"idle", "verify", "write", "settle"}
      /\ flash'["recovery"] = flash["recovery"]
      /\ UNCHANGED <<otp, running, booted, sync>>
  BY DEF Runs, Updating
<1>2. BootedInv'
  BY <1>1 DEF IInv, BootedInv, Open, Updating
<1>3. PhaseInv'
  BY <1>1 DEF PhaseInv
<1>4. RecoveryInv'
  BY <1>1 DEF IInv, RecoveryInv, Synced, Open
<1>5. SlotInv'
  <2>1. Bootable("recovery")' <=> Bootable("recovery")
    BY <1>1 DEF Bootable, Startable
  <2>2. QED
    BY <1>1, <2>1 DEF IInv, SlotInv, Synced, Open, Slot
<1>6. FuseInv'
  BY <1>1 DEF IInv, FuseInv, NotProgrammedBeyond
<1>7. QED
  BY <1>2, <1>3, <1>4, <1>5, <1>6

(* A step that none of the formulas above can see. *)
LEMMA SameInv ==
  ASSUME IInv, UNCHANGED <<flash, otp, sync>>, UNCHANGED ram
  PROVE  BootedInv' /\ PhaseInv' /\ RecoveryInv' /\ SlotInv' /\ FuseInv'
<1>1. BootedInv' /\ PhaseInv'
  BY DEF IInv, ram, BootedInv, PhaseInv, Sound
<1>2. RecoveryInv'
  BY DEF IInv, ram, RecoveryInv, Synced, Checked, Authentic, Allowed, Recording
<1>3. SlotInv'
  BY DEF IInv, ram, SlotInv, Synced, Bootable, Startable
<1>4. FuseInv'
  BY DEF IInv, ram, FuseInv, NotProgrammedBeyond, Programmable, Recording
<1>5. QED
  BY <1>1, <1>2, <1>3, <1>4

-----------------------------------------------------------------------------
(* The boot *)

(* From the ROM to cerberus_init. *)
LEMMA BootStarts ==
  ASSUME IInv,
         \/ \E s \in Slot : RomLoad(s)
         \/ RomHalt \/ L0Start \/ L0Jump \/ L1Start
  PROVE  BootedInv' /\ PhaseInv' /\ RecoveryInv' /\ SlotInv' /\ FuseInv'
<1>1. /\ pc' \in {"dead", "l0", "loadL1", "l1", "loadBmc"}
      /\ upc' = "off" /\ upc = "off" /\ bpc' # "reload"
      /\ UNCHANGED <<flash, otp, sync>>
  BY DEF IInv, TypeOK, PhaseInv, RomLoad, RomHalt, L0Start, L0Jump, L1Start
<1>2. PhaseInv' /\ RecoveryInv'
  BY <1>1 DEF PhaseInv, RecoveryInv, Updating, Synced, Open
<1>3. SlotInv'
  BY <1>1 DEF IInv, SlotInv, Synced, Open, Bootable, Startable
<1>4. FuseInv'
  <2>1. pc' = "loadBmc" => ver' = NoVersion
    BY DEF RomLoad, RomHalt, L0Start, L0Jump, L1Start
  <2>2. QED
    BY <1>1, <2>1 DEF FuseInv, NotProgrammedBeyond
<1>5. ASSUME NEW s \in Slot, RomLoad(s)
      PROVE  BootedInv'
  <2>1. /\ running' = s /\ booted' = flash[s] /\ pc' = "l0" /\ UNCHANGED <<flash, otp>>
        /\ flash[s]["l0"] # Blank /\ flash[s]["l0"].ver >= otp["l0"]
    BY <1>5 DEF RomLoad, Candidate, Startable
  <2>2. flash[s]["l0"].ver \in Nat /\ otp["l0"] \in Nat
    BY <2>1, ImageContent DEF IInv, TypeOK, Part
  <2>3. QED
    BY <2>1, <2>2 DEF BootedInv, Open, Slot
<1>6. ASSUME RomHalt
      PROVE  BootedInv'
  BY <1>6 DEF RomHalt, BootedInv, Open
<1>7. ASSUME L0Start
      PROVE  BootedInv'
  BY <1>1, <1>7 DEF IInv, L0Start, BootedInv, Open, Updating
<1>8. ASSUME L0Jump
      PROVE  BootedInv'
  <2>1. Checked("l1", booted["l1"]) /\ minimal = otp /\ pc = "loadL1"
    BY <1>8 DEF IInv, L0Jump, BootedInv
  <2>2. Sound("l1", booted["l1"]) /\ booted["l1"].ver >= otp["l1"]
    BY <2>1 DEF Checked, Authentic, Allowed, Sound
  <2>3. booted["l1"].ver \in Nat /\ otp["l1"] \in Nat
    BY <2>2, ImageContent DEF IInv, TypeOK, Part, Sound
  <2>4. otp["l1"] <= booted["l1"].ver
    BY <2>2, <2>3
  <2>5. QED
    BY <1>1, <1>8, <2>1, <2>2, <2>4 DEF IInv, L0Jump, BootedInv, Open, Updating, Sound
<1>9. ASSUME L1Start
      PROVE  BootedInv'
  BY <1>1, <1>9 DEF IInv, L1Start, BootedInv, Open, Updating, Sound
<1>10. QED
  BY <1>2, <1>3, <1>4, <1>5, <1>6, <1>7, <1>8, <1>9

(* tip_load_bmc_firmware: the last of the three checks. *)
LEMMA LoadInv ==
  ASSUME IInv, L1Load
  PROVE  BootedInv' /\ PhaseInv' /\ RecoveryInv' /\ SlotInv' /\ FuseInv'
<1>1. /\ pc = "loadBmc" /\ pc' = "sync" /\ upc' \in {"restoreMain", "match"}
      /\ upc' = IF running = "recovery" THEN "restoreMain" ELSE "match"
      /\ UNCHANGED <<flash, otp, running, booted, bpc, minimal, sync, job>>
      /\ ver' = Recorded({"bmc"}, booted)
      /\ Checked("bmc", booted["bmc"])
  BY DEF L1Load, RecoveryBoot
<1>2. BootedInv'
  <2>1. minimal = otp
    BY <1>1 DEF IInv, BootedInv
  <2>2. Sound("bmc", booted["bmc"]) /\ booted["bmc"].ver >= otp["bmc"]
    BY <1>1, <2>1 DEF Checked, Authentic, Allowed, Sound
  <2>3. booted["bmc"].ver \in Nat /\ otp["bmc"] \in Nat
    BY <2>2, ImageContent DEF IInv, TypeOK, Part, Sound
  <2>4. otp["bmc"] <= booted["bmc"].ver
    BY <2>2, <2>3
  <2>5. QED
    <3>1. /\ booted["l0"] # Blank /\ Sound("l1", booted["l1"])
          /\ otp["l0"] <= booted["l0"].ver /\ otp["l1"] <= booted["l1"].ver
      BY <1>1 DEF IInv, BootedInv
    <3>2. /\ running = "recovery" => flash["recovery"] = booted
          /\ running = "main" => flash["main"] = booted
      BY <1>1 DEF IInv, TypeOK, BootedInv, Updating
    <3>3. QED
      BY <1>1, <2>1, <2>2, <2>4, <3>1, <3>2 DEF BootedInv, Open, Sound
<1>3. PhaseInv'
  BY <1>1 DEF IInv, PhaseInv, TypeOK, Updating, Slot
<1>4. RecoveryInv'
  BY <1>1 DEF RecoveryInv, Synced, Open
<1>5. SlotInv'
  BY <1>1 DEF IInv, SlotInv, Synced, Open, Bootable, Startable
<1>6. FuseInv'
  <2>1. ASSUME NEW p \in Part
        PROVE  ver'[p].nxt = 0 \/ ver'[p] = Recording(booted[p])
    <3>1. ver[p].nxt = 0
      BY <1>1 DEF IInv, FuseInv, NoVersion
    <3>2. ver'[p] = ver[p] \/ ver'[p] = Recording(booted[p])
      BY <1>1, RecordedEither DEF Part
    <3>3. QED
      BY <3>1, <3>2
  <2>2. QED
    BY <1>1, <2>1 DEF FuseInv, NotProgrammedBeyond, Recording
<1>7. QED
  BY <1>2, <1>3, <1>4, <1>5, <1>6

(* The command interface opens, and the next boot is chosen. *)
LEMMA OpenInv ==
  ASSUME IInv, StartCommands \/ SelectMain
  PROVE  BootedInv' /\ PhaseInv' /\ RecoveryInv' /\ SlotInv' /\ FuseInv'
<1>1. /\ \/ pc = "sync" /\ upc = "idle" /\ pc' = "select"
         \/ pc = "select" /\ pc' = "otp"
      /\ UNCHANGED <<flash, otp, running, booted, upc, bpc, ver, minimal, sync, job>>
  BY DEF StartCommands, SelectMain
<1>2. BootedInv'
  BY <1>1 DEF IInv, BootedInv, Open, Updating, Sound
<1>3. PhaseInv'
  <2>1. upc \in {"idle"} /\ bpc # "reload"
    BY <1>1 DEF IInv, TypeOK, PhaseInv, Updating
  <2>2. QED
    BY <1>1, <2>1 DEF PhaseInv, Updating
<1>4. RecoveryInv'
  BY <1>1 DEF IInv, TypeOK, RecoveryInv, Synced, Open
<1>5. SlotInv'
  BY <1>1 DEF IInv, TypeOK, SlotInv, Synced, Open, Bootable, Startable
<1>6. FuseInv'
  <2>1. NotProgrammedBeyond'
    BY <1>1 DEF IInv, FuseInv, BootedInv, NotProgrammedBeyond, Part
  <2>2. QED
    BY <1>1, <2>1 DEF IInv, FuseInv, Programmable, Recording
<1>7. QED
  BY <1>2, <1>3, <1>4, <1>5, <1>6

(* A fuse goes up to a version that the recovery image has. *)
LEMMA FuseStep ==
  ASSUME IInv, NEW p \in Part, SetInOTP(p)
  PROVE  BootedInv' /\ PhaseInv' /\ RecoveryInv' /\ SlotInv' /\ FuseInv'
<1>1. /\ pc = "otp" /\ pc' \in {"otp", "ready"} /\ p \in todo
      /\ todo' = todo \ {p}
      /\ otp' = [otp EXCEPT ![p] = IF Programmable(p) THEN ver[p].nxt ELSE @]
      /\ UNCHANGED <<flash, running, booted, upc, bpc, ver, minimal, sync, job>>
  BY DEF SetInOTP
<1>2. /\ otp \in [Part -> Nat] /\ todo \subseteq Part
      /\ upc \in {"idle"} /\ bpc # "reload"
  BY <1>1 DEF IInv, TypeOK, PhaseInv, Updating
<1>3. BootedInv'
  <2>1. \A q \in todo' : q # p /\ q \in todo /\ otp'[q] = otp[q]
    BY <1>1, <1>2
  <2>2. QED
    BY <1>1, <1>2, <2>1 DEF IInv, BootedInv, Open, Updating, Sound
<1>4. PhaseInv'
  BY <1>1, <1>2 DEF PhaseInv, Updating
<1>5. RecoveryInv'
  BY <1>1, <1>2 DEF IInv, RecoveryInv, Synced, Open
<1>6. \A q \in Part : \/ otp'[q] = otp[q]
                      \/ otp'[q] = ver[q].nxt /\ Programmable(q)
  BY <1>1, <1>2
<1>7. SlotInv'
  <2>1. CASE sync = "lost"
    BY <1>1, <1>2, <2>1 DEF SlotInv
  <2>2. CASE sync # "lost"
    <3>1. Bootable("recovery")
      BY <1>1, <2>2 DEF IInv, SlotInv, Synced, Open
    <3>2. \A q \in Part : Programmable(q) => ver[q].nxt <= flash["recovery"][q].ver
      BY <1>1, <2>2 DEF IInv, FuseInv
    <3>3. \A q \in Part : flash["recovery"][q].ver \in Nat /\ ver[q].nxt \in Nat
      <4>1. \A q \in Part : flash["recovery"][q] \in Content /\ flash["recovery"][q] # Blank
        BY <3>1 DEF IInv, TypeOK, Bootable, Startable, Part, Slot
      <4>2. QED
        BY <4>1, ImageContent DEF IInv, TypeOK
    <3>4. \A q \in Part : flash["recovery"][q].ver >= otp[q]
      BY <3>1 DEF Bootable, Startable, Part
    <3>5. \A q \in Part : flash["recovery"][q].ver >= otp'[q]
      BY <1>6, <3>2, <3>3, <3>4
    <3>6. Bootable("recovery")'
      BY <1>1, <3>1, <3>5 DEF Bootable, Startable, Part
    <3>7. QED
      BY <1>1, <1>2, <3>6 DEF SlotInv, Slot
  <2>3. QED
    BY <2>1, <2>2
<1>8. FuseInv'
  <2>1. NotProgrammedBeyond'
    <3>1. SUFFICES ASSUME booted["l1"] # Blank, booted["l1"].force, NEW q \in Part
                   PROVE  otp'[q] <= booted[q].ver
      BY <1>1 DEF NotProgrammedBeyond
    <3>2. otp[q] <= booted[q].ver
      BY <1>1, <3>1 DEF IInv, FuseInv, NotProgrammedBeyond
    <3>3. Programmable(q) => ver[q].nxt <= booted[q].ver
      BY <1>1, <3>1 DEF IInv, FuseInv
    <3>4. QED
      BY <1>6, <3>2, <3>3
  <2>2. QED
    BY <1>1, <2>1 DEF IInv, FuseInv, Programmable, Recording
<1>9. QED
  BY <1>3, <1>4, <1>5, <1>7, <1>8

-----------------------------------------------------------------------------
(* The start of the update task *)

(* It works in cerberus_init, on the slot that TIP does not run from. *)
LEMMA SyncFrame ==
  ASSUME IInv, Sync
  PROVE  /\ pc = "sync" /\ UNCHANGED boot
         /\ running = "recovery" => flash'["recovery"] = flash["recovery"]
         /\ running = "main" => flash'["main"] = flash["main"]
<1> DEFINE Goal == /\ pc = "sync" /\ UNCHANGED boot
                   /\ running = "recovery" => flash'["recovery"] = flash["recovery"]
                   /\ running = "main" => flash'["main"] = flash["main"]
<1>1. PhaseInv /\ flash \in [Slot -> [Part -> Content]]
  BY DEF IInv, TypeOK
<1>2. CASE MarkRecoveryGood
  BY <1>1, <1>2 DEF PhaseInv, MarkRecoveryGood
<1>3. CASE RestoreMain
  BY <1>1, <1>3 DEF PhaseInv, RestoreMain, Begin, Slot
<1>4. ASSUME NEW p \in Part, CopyToMain(p)
      PROVE  Goal
  BY <1>1, <1>4 DEF PhaseInv, CopyToMain, Copy, Slot
<1>5. CASE Match
  BY <1>1, <1>5 DEF PhaseInv, Match
<1>6. CASE ValidateRecovery
  BY <1>1, <1>6 DEF PhaseInv, ValidateRecovery
<1>7. CASE RestoreNotNeeded
  BY <1>1, <1>7 DEF PhaseInv, RestoreNotNeeded
<1>8. CASE RestoreRecovery
  BY <1>1, <1>8 DEF PhaseInv, RestoreRecovery, Begin, Slot
<1>9. ASSUME NEW p \in Part, CopyToRecovery(p)
      PROVE  Goal
  BY <1>1, <1>9 DEF PhaseInv, CopyToRecovery, Copy, Slot
<1>10. CASE RestoreMainFails
  BY <1>1, <1>10 DEF PhaseInv, RestoreMainFails
<1>11. CASE RestoreRecoveryFails
  BY <1>1, <1>11 DEF PhaseInv, RestoreRecoveryFails
<1>12. QED
  BY <1>2, <1>3, <1>4, <1>5, <1>6, <1>7, <1>8, <1>9, <1>10, <1>11 DEF Sync

(* Neither the fuses nor what was booted change meanwhile. *)
LEMMA SyncBooted ==
  ASSUME IInv, Sync
  PROVE  BootedInv' /\ NotProgrammedBeyond'
<1>1. /\ pc = "sync" /\ pc' = "sync"
      /\ UNCHANGED <<otp, running, booted, minimal>>
      /\ running = "recovery" => flash'["recovery"] = flash["recovery"]
      /\ running = "main" => flash'["main"] = flash["main"]
  BY SyncFrame DEF boot
<1>2. upc \notin Updating
  BY <1>1 DEF IInv, PhaseInv
<1>3. QED
  BY <1>1, <1>2 DEF IInv, BootedInv, NotProgrammedBeyond, Open, Sound

(* The facts that the steps start from. *)
LEMMA SyncFacts ==
  ASSUME IInv, pc = "sync"
  PROVE  /\ minimal = otp /\ \A p \in Part : otp[p] <= booted[p].ver
         /\ running = "recovery" => flash["recovery"] = booted /\ Bootable("recovery")
         /\ running = "main" => flash["main"] = booted
         /\ running \in Slot /\ bpc # "reload"
<1>1. /\ TypeOK /\ BootedInv /\ upc \notin Updating /\ bpc # "reload"
  BY DEF IInv, PhaseInv
<1>2. /\ minimal = otp /\ \A p \in Part : otp[p] <= booted[p].ver
      /\ running = "recovery" => flash["recovery"] = booted
      /\ running = "main" => flash["main"] = booted
  BY <1>1 DEF BootedInv, Part
<1>3. running = "recovery" => Bootable("recovery")
  BY <1>1, <1>2, LoadedBootable DEF TypeOK, Slot
<1>4. QED
  BY <1>1, <1>2, <1>3 DEF TypeOK

(* A boot from the recovery image leaves that image alone, and its versions
   are the only ones that it records. *)
LEMMA SyncRecovery ==
  ASSUME IInv, \/ MarkRecoveryGood \/ RestoreMain \/ RestoreMainFails
               \/ \E p \in Part : CopyToMain(p)
  PROVE  PhaseInv' /\ RecoveryInv' /\ SlotInv' /\ FuseInv'
<1>1. /\ upc \in {"restoreMain", "verifyRecovery", "copyToMain"}
      /\ upc' \in {"verifyRecovery", "copyToMain", "idle"}
      /\ UNCHANGED sync
      /\ ver' = ver \/ ver' = Recorded(Part, flash["recovery"])
  BY DEF MarkRecoveryGood, RestoreMain, RestoreMainFails, CopyToMain
<1>2. pc = "sync" /\ running = "recovery"
  BY <1>1 DEF IInv, PhaseInv
<1>3. /\ pc' = "sync" /\ running' = "recovery" /\ bpc' = bpc
      /\ UNCHANGED <<otp, booted, minimal>>
      /\ flash'["recovery"] = flash["recovery"]
  BY <1>2, SyncFrame DEF Sync, boot
<1>4. /\ flash["recovery"] = booted /\ Bootable("recovery") /\ bpc # "reload"
  BY <1>2, SyncFacts
<1>5. PhaseInv'
  BY <1>1, <1>3, <1>4 DEF PhaseInv, Updating
<1>6. RecoveryInv'
  BY <1>1, <1>3, <1>4 DEF RecoveryInv
<1>7. SlotInv'
  <2>1. Bootable("recovery")'
    BY <1>3, <1>4 DEF Bootable, Startable
  <2>2. QED
    BY <1>1, <2>1 DEF SlotInv, Slot
<1>8. FuseInv'
  <2>1. ASSUME NEW p \in Part
        PROVE  ver'[p].nxt = 0 \/ ver'[p] = Recording(booted[p])
    <3>1. ver[p].nxt = 0 \/ ver[p] = Recording(booted[p])
      BY <1>2 DEF IInv, FuseInv
    <3>2. \/ ver'[p] = ver[p]
          \/ ver'[p] = Recording(booted[p])
      BY <1>1, <1>4, RecordedEither
    <3>3. QED
      BY <3>1, <3>2
  <2>2. ASSUME NEW p \in Part, Programmable(p)'
        PROVE  ver'[p].nxt <= booted[p].ver
    <3>1. ver'[p].nxt <= ver'[p].cur /\ ver'[p].nxt > minimal[p] /\ minimal[p] \in Nat
      BY <1>3, <2>2 DEF Programmable, IInv, TypeOK
    <3>2. ver'[p] = Recording(booted[p])
      BY <2>1, <3>1
    <3>3. QED
      BY <3>1, <3>2 DEF Recording
  <2>3. NotProgrammedBeyond'
    BY <1>3 DEF NotProgrammedBeyond
  <2>4. QED
    BY <1>3, <1>4, <2>1, <2>2, <2>3 DEF FuseInv, Recording
<1>9. QED
  BY <1>5, <1>6, <1>7, <1>8

(* What holds in each step of a boot from the main image. *)
MainBoot ==
  /\ pc = "sync" /\ pc' = "sync" /\ running = "main" /\ bpc # "reload"
  /\ UNCHANGED <<otp, running, booted, minimal, bpc>>
  /\ minimal = otp /\ \A p \in Part : otp[p] <= booted[p].ver
  /\ flash["main"] = booted /\ flash'["main"] = booted

LEMMA MainFrame ==
  ASSUME IInv, Sync, upc \in {"match", "validate", "restore", "copyToRecovery"}
  PROVE  MainBoot
<1>1. pc = "sync" /\ running = "main"
  BY DEF IInv, PhaseInv
<1>2. QED
  BY <1>1, SyncFrame, SyncFacts DEF MainBoot, boot

(* No fuse is at stake before the update task is free. *)
LEMMA MainFuse ==
  ASSUME MainBoot, upc' # "idle"
  PROVE  FuseInv'
BY DEF MainBoot, FuseInv, NotProgrammedBeyond

(* Matching and validating the recovery image changes neither slot. *)
LEMMA SyncLooks ==
  ASSUME IInv, Match \/ ValidateRecovery
  PROVE  PhaseInv' /\ RecoveryInv' /\ SlotInv' /\ FuseInv'
<1>1. /\ MainBoot /\ UNCHANGED <<flash, sync>>
      /\ upc \in {"match", "validate"} /\ upc' \in {"validate", "restore"}
  BY MainFrame DEF Sync, Match, ValidateRecovery
<1>2. PhaseInv'
  BY <1>1 DEF MainBoot, PhaseInv, Updating
<1>3. FuseInv'
  BY <1>1, MainFuse
<1>4. SlotInv'
  BY <1>1 DEF MainBoot, IInv, SlotInv, Synced, Open, Bootable, Startable
<1>5. ASSUME Match
      PROVE  RecoveryInv'
  <2>1. upc' = "validate" /\ recBad' = (recBad \/ Differs)
    BY <1>5 DEF Match
  <2>2. ~recBad' /\ booted'["l1"].force => flash'["recovery"] = booted'
    BY <1>1, <2>1 DEF MainBoot, Differs
  <2>3. QED
    BY <1>1, <2>1, <2>2 DEF MainBoot, RecoveryInv, Synced, Open
<1>6. ASSUME ValidateRecovery
      PROVE  RecoveryInv'
  <2>1. upc = "validate" /\ upc' = "restore"
    BY <1>6 DEF ValidateRecovery
  <2>2. ~recBad' => /\ ~recBad
                    /\ Passed(Part, flash["recovery"]) = Part
                    /\ ver' = Recorded(Part, flash["recovery"])
    BY <1>6 DEF ValidateRecovery
  <2>3. ~recBad' /\ booted'["l1"].force => flash'["recovery"] = booted'
    BY <1>1, <2>1, <2>2 DEF MainBoot, IInv, RecoveryInv
  <2>4. ASSUME ~recBad', NEW p \in Part
        PROVE  /\ Checked(p, flash["recovery"][p])
               /\ ver'[p] = Recording(flash["recovery"][p])
    BY <2>2, <2>4, AllChecked
  <2>5. ASSUME ~recBad', NEW p \in Part
        PROVE  Checked(p, flash["recovery"][p])'
    BY <1>1, <2>4, <2>5 DEF MainBoot, Checked, Authentic, Allowed
  <2>6. QED
    BY <1>1, <2>1, <2>3, <2>4, <2>5 DEF MainBoot, RecoveryInv, Synced, Open, Recording
<1>7. QED
  BY <1>2, <1>3, <1>4, <1>5, <1>6

(* The recovery image is good, and the same if it has to be. *)
LEMMA SyncNotNeeded ==
  ASSUME IInv, RestoreNotNeeded
  PROVE  PhaseInv' /\ RecoveryInv' /\ SlotInv' /\ FuseInv'
<1>1. /\ MainBoot /\ UNCHANGED <<flash, ver>> /\ sync' = "ok"
      /\ upc = "restore" /\ ~recBad /\ upc' = "idle"
  BY MainFrame DEF Sync, RestoreNotNeeded
<1>2. /\ booted["l1"].force => flash["recovery"] = booted
      /\ \A p \in Part : /\ Checked(p, flash["recovery"][p])
                         /\ ver[p] = Recording(flash["recovery"][p])
  BY <1>1 DEF IInv, RecoveryInv
<1>3. PhaseInv'
  BY <1>1 DEF MainBoot, PhaseInv, Updating
<1>4. RecoveryInv'
  BY <1>1, <1>2 DEF MainBoot, RecoveryInv
<1>5. SlotInv'
  <2>1. Bootable("recovery")
    BY <1>1, <1>2, CheckedBootable DEF MainBoot, Slot
  <2>2. Bootable("recovery")'
    BY <1>1, <2>1 DEF MainBoot, Bootable, Startable
  <2>3. QED
    BY <1>1, <2>2 DEF SlotInv, Slot
<1>6. FuseInv'
  <2>1. ASSUME NEW p \in Part, Programmable(p)'
        PROVE  /\ ver'[p].nxt <= flash'["recovery"][p].ver
               /\ booted["l1"].force => ver'[p].nxt <= booted[p].ver
    <3>1. ver'[p].nxt <= ver'[p].cur
      BY <2>1 DEF Programmable
    <3>2. ver'[p] = Recording(flash'["recovery"][p])
      BY <1>1, <1>2
    <3>3. ver'[p].nxt <= flash'["recovery"][p].ver
      BY <3>1, <3>2 DEF Recording
    <3>4. QED
      BY <1>1, <1>2, <3>3
  <2>2. NotProgrammedBeyond'
    BY <1>1 DEF MainBoot, NotProgrammedBeyond
  <2>3. QED
    BY <1>1, <2>1, <2>2 DEF MainBoot, FuseInv
<1>7. QED
  BY <1>3, <1>4, <1>5, <1>6

(* The recovery image is given up only for a main image that can be booted. *)
LEMMA SyncRestores ==
  ASSUME IInv, RestoreRecovery
  PROVE  PhaseInv' /\ RecoveryInv' /\ SlotInv' /\ FuseInv'
<1>1. /\ MainBoot /\ UNCHANGED sync
      /\ upc' = "copyToRecovery" /\ job' = [left |-> Part, from |-> booted]
      /\ Passed(Part, booted) = Part /\ ver' = Recorded(Part, booted)
  BY MainFrame DEF Sync, RestoreRecovery, Begin, MainBoot
<1>2. \A p \in Part : Checked(p, booted[p]) /\ ver'[p] = Recording(booted[p])
  BY <1>1, AllChecked
<1>3. PhaseInv'
  BY <1>1 DEF MainBoot, PhaseInv, Updating
<1>4. RecoveryInv'
  <2>1. \A p \in Part : Checked(p, booted[p])' /\ ver'[p] = Recording(booted[p])'
    BY <1>1, <1>2 DEF MainBoot, Checked, Authentic, Allowed, Recording
  <2>2. job'.from = booted' /\ job'.left = Part
    BY <1>1 DEF MainBoot
  <2>3. QED
    BY <1>1, <2>1, <2>2 DEF MainBoot, RecoveryInv, Synced, Open
<1>5. SlotInv'
  <2>1. Bootable("main")
    BY <1>1, <1>2, CheckedBootable DEF MainBoot, Slot
  <2>2. Bootable("main")'
    BY <1>1, <2>1 DEF MainBoot, Bootable, Startable
  <2>3. QED
    BY <1>1, <2>2 DEF MainBoot, SlotInv, Synced, Open, Slot
<1>6. QED
  BY <1>1, <1>3, <1>4, <1>5, MainFuse

(* The copy ends with the image that has been checked. *)
LEMMA SyncCopies ==
  ASSUME IInv, NEW q \in Part, CopyToRecovery(q)
  PROVE  PhaseInv' /\ RecoveryInv' /\ SlotInv' /\ FuseInv'
<1>1. MainBoot /\ upc = "copyToRecovery" /\ ver' = ver /\ Copy("recovery", q)
  BY MainFrame DEF Sync, CopyToRecovery
<1>2. /\ job.from = booted /\ Bootable("main")
      /\ \A p \in Part : /\ Checked(p, booted[p])
                         /\ ver[p] = Recording(booted[p])
                         /\ p \notin job.left => flash["recovery"][p] = booted[p]
  BY <1>1 DEF IInv, RecoveryInv, SlotInv
<1>3. /\ job'.left = job.left \ {q} /\ job'.from = booted
      /\ flash' \in [Slot -> [Part -> Content]]
      /\ flash["recovery"] \in [Part -> Content]
  BY <1>1, <1>2, CopyTyped DEF IInv, TypeOK, Slot
<1>4. \A p \in Part : p \notin job'.left => flash'["recovery"][p] = booted[p]
  <2>1. flash' = [flash EXCEPT !["recovery"][q] = job.from[q]]
    BY <1>1 DEF Copy
  <2>2. flash'["recovery"] = [flash["recovery"] EXCEPT ![q] = job.from[q]]
    BY <2>1 DEF IInv, TypeOK, Slot
  <2>3. QED
    BY <1>2, <1>3, <2>2
<1>5. Bootable("main")'
  BY <1>1, <1>2 DEF MainBoot, Bootable, Startable
<1>6. CASE job'.left # {}
  <2>1. upc' = "copyToRecovery" /\ sync' = sync
    BY <1>1, <1>6 DEF CopyToRecovery
  <2>2. \A p \in Part : Checked(p, booted[p])' /\ ver'[p] = Recording(booted[p])'
    BY <1>1, <1>2 DEF MainBoot, Checked, Authentic, Allowed, Recording
  <2>3. RecoveryInv'
    BY <1>1, <1>3, <1>4, <2>1, <2>2 DEF MainBoot, RecoveryInv, Synced, Open
  <2>4. PhaseInv'
    BY <1>1, <2>1 DEF MainBoot, PhaseInv, Updating
  <2>5. SlotInv'
    BY <1>1, <1>5, <2>1 DEF MainBoot, SlotInv, Synced, Open, Slot
  <2>6. QED
    BY <1>1, <2>1, <2>3, <2>4, <2>5, MainFuse
<1>7. CASE job'.left = {}
  <2>1. upc' = "idle" /\ sync' = "ok"
    BY <1>1, <1>7 DEF CopyToRecovery
  <2>2. flash'["recovery"] = booted
    <3>1. flash'["recovery"] \in [Part -> Content] /\ booted \in [Part -> Content]
      BY <1>3 DEF IInv, TypeOK, Slot
    <3>2. \A p \in Part : flash'["recovery"][p] = booted[p]
      BY <1>4, <1>7
    <3>3. QED
      BY <3>1, <3>2
  <2>3. PhaseInv'
    BY <1>1, <2>1 DEF MainBoot, PhaseInv, Updating
  <2>4. RecoveryInv'
    BY <1>1, <2>1, <2>2 DEF MainBoot, RecoveryInv
  <2>5. Bootable("recovery")'
    BY <1>1, <1>5, <2>2 DEF MainBoot, Bootable, Startable
  <2>6. SlotInv'
    BY <2>1, <2>5 DEF SlotInv, Slot
  <2>7. ASSUME NEW p \in Part, Programmable(p)'
        PROVE  ver'[p].nxt <= booted[p].ver
    <3>1. ver'[p].nxt <= ver'[p].cur
      BY <2>7 DEF Programmable
    <3>2. ver'[p] = Recording(booted[p])
      BY <1>1, <1>2
    <3>3. QED
      BY <3>1, <3>2 DEF Recording
  <2>8. NotProgrammedBeyond'
    BY <1>1 DEF MainBoot, NotProgrammedBeyond
  <2>9. FuseInv'
    BY <1>1, <2>2, <2>7, <2>8 DEF MainBoot, FuseInv
  <2>10. QED
    BY <2>3, <2>4, <2>6, <2>9
<1>8. QED
  BY <1>6, <1>7

(* After a restore that failed nothing is recorded, so that no fuse is blown. *)
LEMMA SyncGivesUp ==
  ASSUME IInv, RestoreRecoveryFails
  PROVE  PhaseInv' /\ RecoveryInv' /\ SlotInv' /\ FuseInv'
<1>1. /\ MainBoot /\ UNCHANGED flash /\ ver' = NoVersion /\ upc' = "idle"
      /\ sync' = IF Bootable("recovery") THEN "kept" ELSE "lost"
  BY MainFrame DEF Sync, RestoreRecoveryFails, Forgotten
<1>2. PhaseInv'
  BY <1>1 DEF MainBoot, PhaseInv, Updating
<1>3. RecoveryInv'
  BY <1>1 DEF MainBoot, RecoveryInv
<1>4. SlotInv'
  <2>1. Bootable("recovery")' <=> Bootable("recovery")
    BY <1>1 DEF MainBoot, Bootable, Startable
  <2>2. QED
    BY <1>1, <2>1 DEF SlotInv, Slot
<1>5. FuseInv'
  <2>1. ASSUME NEW p \in Part
        PROVE  ~Programmable(p)'
    <3>1. ver'[p].nxt = 0 /\ minimal'[p] \in Nat
      BY <1>1 DEF NoVersion, MainBoot, IInv, TypeOK
    <3>2. QED
      BY <3>1 DEF Programmable
  <2>2. NotProgrammedBeyond'
    BY <1>1 DEF MainBoot, NotProgrammedBeyond
  <2>3. QED
    BY <1>1, <2>1, <2>2 DEF MainBoot, FuseInv
<1>6. QED
  BY <1>2, <1>3, <1>4, <1>5

-----------------------------------------------------------------------------
(* The theorems *)

(* Every step keeps the invariant, by the part of the system that takes it. *)
LEMMA StepInv ==
  ASSUME Early = "no", IInv, [Next]_vars
  PROVE  BootedInv' /\ PhaseInv' /\ RecoveryInv' /\ SlotInv' /\ FuseInv'
<1> DEFINE Goal == BootedInv' /\ PhaseInv' /\ RecoveryInv' /\ SlotInv' /\ FuseInv'
<1>1. CASE L0Fails \/ L1Fails \/ UpdateReset \/ BmcReloadFails \/ GiveUpMain \/ Crash
  BY <1>1, RestartFrame, RestartInv
<1>2. CASE \/ \E s \in Slot : RomLoad(s)
           \/ RomHalt \/ L0Start \/ L0Jump \/ L1Start
  BY <1>2, BootStarts
<1>3. CASE L1Load
  BY <1>3, LoadInv
<1>4. CASE StartCommands \/ SelectMain
  BY <1>4, OpenInv
<1>5. ASSUME NEW p \in Part, SetInOTP(p)
      PROVE  Goal
  BY <1>5, FuseStep
<1>6. CASE Sync
  <2>1. BootedInv'
    BY <1>6, SyncBooted
  <2>2. PhaseInv' /\ RecoveryInv' /\ SlotInv' /\ FuseInv'
    BY <1>6, SyncRecovery, SyncLooks, SyncNotNeeded, SyncRestores, SyncCopies,
       SyncGivesUp DEF Sync
  <2>3. QED
    BY <2>1, <2>2
<1>7. CASE \/ Update /\ ~UpdateReset
           \/ BmcReload \/ BmcReset
           \/ \E ps \in Combo : \E r \in Offered : RunUpdate(ps, r)
  BY <1>7, RunsFrame, RunsInv
<1>8. CASE Calm \/ UNCHANGED vars
  BY <1>8, SameInv DEF Calm, vars, ram
<1>9. QED
  BY <1>1, <1>2, <1>3, <1>4, <1>5, <1>6, <1>7, <1>8
  DEF Next, Boot, Update, Reload, Env

(* IInv: the two slots are never at risk at once, and no fuse is going to be
   blown beyond the recovery image, in every state that TIP reaches. *)
THEOREM Invariance == Early = "no" => (Spec => []IInv)
<1> SUFFICES ASSUME Early = "no"
             PROVE  Spec => []IInv
  OBVIOUS
<1>1. IInv /\ [Next]_vars => IInv'
  BY TypeStep, StepInv DEF IInv
<1>2. QED
  BY InitInv, <1>1, PTL DEF Spec

(* TypeOK: the phases of the boot, of the update task and of the BMC task fit. *)
THEOREM TypeCorrect == Early = "no" => (Spec => []TypeOK)
<1> SUFFICES ASSUME Early = "no"
             PROVE  Spec => []TypeOK
  OBVIOUS
<1>1. IInv => TypeOK
  BY DEF IInv
<1>2. QED
  BY <1>1, Invariance, PTL

(* NeverBricked: whatever step power fails at, the ROM, L0 and L1 find an image
   in one of the two slots that OTP still allows - for any releases, delivered
   or updated to, unless the recovery image could not be repaired. *)
THEOREM AlwaysBootable == Early = "no" => (Spec => []NeverBricked)
<1> SUFFICES ASSUME Early = "no"
             PROVE  Spec => []NeverBricked
  OBVIOUS
<1>1. IInv => NeverBricked
  BY DEF IInv, SlotInv, FuseInv, NeverBricked
<1>2. QED
  BY <1>1, Invariance, PTL

(* RecoveryKept: an image that asks for a matching recovery image has one once
   the boot is over, and no update takes it away. *)
THEOREM RecoveryMatches == Early = "no" => (Spec => []RecoveryKept)
<1> SUFFICES ASSUME Early = "no"
             PROVE  Spec => []RecoveryKept
  OBVIOUS
<1>1. IInv => RecoveryKept
  BY DEF IInv, RecoveryInv, RecoveryKept, Synced, Open
<1>2. QED
  BY <1>1, Invariance, PTL
=============================================================================
