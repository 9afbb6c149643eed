# TIP firmware for NPCM8xx: specification and verification

The TIP is the root of trust inside the NPCM8xx BMC. Its firmware, in
`src/tip`, starts from one of two images in flash, verifies itself stage by
stage, loads and verifies the images of the BMC (an Arm A35), serves requests
of the BMC, updates its own images, and recovers when one of them is damaged.
This directory holds TLA+ modules of that firmware, TLC instances of them, and
TLAPS proofs. Paths below are relative to `src/tip`.

## 1. Inventory

The firmware is bare C on FreeRTOS (L1) or without an operating system (L0).
`BMC_DIRECT`, `TIP_SUPPORT_ENCRYPTED_IMAGE`, `FORCE_RECOVERY_IMAGE_MATCH_ACTIVE`,
`ENABLE_RECOVERY_PROTECTION`, `GPIO_WOL` and `LMS_ENABLE` are built;
`ENABLE_RESET_COUNTER_CACHE` is not. The Cerberus core library
(`firmware_update`, command handlers, the RTOS platform layer) is a submodule
that is not in the repository: it is modelled from how the code here uses it,
and marked external in `PROJECT.json`.

| component | state it keeps | operations | hard behaviour | what makes it correct |
|---|---|---|---|---|
| Update task, `common/tip_fw_update_task.c` | `running`, `update_status`, mutex, notification bits, `staging_buf`, the staging flash | start_update, prepare_staging, write_staging (command tasks), stage_and_start (BMC task), the updater task, its start | ownership by a flag that outlives the mutex; notification bits cleared together; data read outside the lock | one owner of updater and staging area at a time; no accepted request lost; what is installed was verified; everybody answered |
| BMC task, `common/bmc_task/bmc_task.c` | `bmc_state`, one notification value, interrupt enables, `bmc_start_addr`, the images in DRAM, the command register | first boot (in `cerberus_init`), reload (in `bmc_task_loop`), two interrupt handlers, GPIO request, direct commands | two tasks run the same loader; handlers overwrite the notification; three attempts; resets while training | no two loaders; the BMC jumps to verified images only; a reset is never forgotten; commands are answered |
| Resets, `common/reset/tip_reset.c`, `common/gpio/tip_gpio.c` | indications in RESSR and TIP_SCR1, one-byte counters, time of their initialisation, GPIO interrupt enables | indicate, clear, increment, shut down | indications read and cleared at different times; 0 stands both for disabled and used up | recovery only if justified, and always if justified |
| Boot chain, `npcm850/L0/tip_boot.c`, `npcm850/L1/tip_cerberus.c` | address of the next boot, the running image, OTP versions, the two images | ROM search, L0, L1 (`cerberus_init`), failure reboots | power failure at any step; next-boot address written by several tasks | some image stays bootable; TIP gets up again |
| Versions, `common/tip_version.c` | recorded and fused versions per part | init, check, set, set_in_OTP | recorded by every verification, fused later | no fuse beyond what the running image reaches |
| Firmware components, `common/firmware/tip_firmware_component.c`, `tip_image_combo.c` | header addresses, sizes, digests | find, load, verify, decrypt, register table | direction of the cipher taken from a shared register | an update is encrypted, never decrypted |
| Image loader and hash, `common/tip_utils.c`, `common/crypto/tip_security.c` | the DRAM window register, DRAM, an active hash | tip_memcpy, load_to_memory, tip_image_hash | block boundaries; everybody moves one window | all of an image copied, hashed and nothing else touched |
| NCL crypto engines, `common/crypto/*_ncl.c` | the mutex of the ROM library, the wrapper's lock `shared_hash`, an active hash, the selected and the set key | hash, AES, AES-GCM, ECC, RSA, RNG | an operation is several critical sections, another task's engine may come between them; any call may fail, and some failures are ignored | own key and curve, whole digest, no engine left active by a failure but that of a finish, every caller returns |
| Fuses, keys and the OTP patch, `npcm850_fuse_wrapper.c`, `fuse_drv.c`, `common/firmware/tip_key_manifest.c`, `common/cmd_device/tip_cmd_device.c` | the fuses, one static buffer, the address register, registers patched from OTP | read and correct, burn a mask of revoked keys, burn the patch | fuses are never taken back; power fails between two of them; buffer and address are shared without a lock | keys read as burnt, nothing revoked that was not asked for, all revoked that was, burning never keeps TIP from booting |
| Kernel, `npcm850/freertos` (FreeRTOS V10.4.3) | task lists, tick count, priorities, mutex holders, notifications | take and give, delay, delay until, notify, wait, tick, switch | overflow of the tick, ticks while the scheduler is suspended, time-outs that race with gives, inherited priorities | the highest ready task runs, inheritance lasts as long as it must and no longer, waits end on time, no wake-up is lost |
| Watchdog task, `common/twd_task.c` | the time of its last turn | kick | a period that must not drift | on time |
| Mailbox, `common/mbx/tip_mbx.c` | notification registers, packet window | receive, send | unbounded polling of the BMC | depends on the driver of the BMC, section 7 |

The remaining components and why they are left out are in section 7.

How they interact. `cerberus_init` boots the BMC once, starts `bmc_task_loop`
and the update task, waits until the latter is free and then starts the command
tasks. Command tasks and the BMC task call the update task through a mutex, a
flag and notification bits. Interrupt handlers notify `bmc_task_loop`, which
reads the reset indications, reloads the BMC with the loader that
`cerberus_init` used before, and counts the reset. Loader and updater both
verify images and so record versions, and both write the address of the next
boot. The update task alone writes the two images.

## 2. Plan

Most important behaviour first; every module is written to be proved about (no
RECURSIVE operator, parameters as CONSTANTS with named assumptions).

| step | module | status |
|---|---|---|
| 1 | `UpdateSlot` (abstract), `FwUpdateTask` (implements it), `FwUpdateTaskProofs` | checked, proved |
| 2 | `BmcTask`, `BmcTaskProofs` | checked; safety proved |
| 3 | `ResetCounters`, `ResetCountersProofs` | checked, proved |
| 4 | `BootRecovery`: ROM, L0, L1, versions, update and restore of the images; `BootRecoveryProofs` | checked; safety proved |
| 5 | `ImageLoad`: DRAM window, copy, hash; `ImageLoadProofs` | checked, proved |
| 6 | `NclEngines`: the engines of `common/crypto` over one lock and one hardware; `NclEnginesProofs` | checked; safety proved |
| 7 | `Otp`: revocation of keys, the OTP patch, the codes of the fuses; `OtpProofs` | checked; safety proved |
| 8 | `Kernel`: scheduler, tick, mutexes, delays and notifications; `KernelProofs` | checked; proved, inheritance and priorities without nested mutexes |
| left | queues that hold data and software timers of the kernel; which key of a manifest may verify what | not begun |

## 3. Modules

Every module that is checked comes with an `MC` module that defines the instance
and nothing else. Definitions whose name begins with `Wrong` are mutants: the definition
after them with a plausible slip. They take part in no specification; replacing
the definition by them shows that a property can fail.

### FwUpdateTask and UpdateSlot

The state is the C state (`running`, `bits`, `status`, `stagingBuf`, `staging`,
`handle` for `task->task`, `lock` for the mutex) and a program counter per
requester and for the task. A requester takes the mutex (`Acquire`), is refused
or accepted (`Refuse`, `Accept`), sets `running` (`Claim`), gives the mutex back
and notifies (`Notify`); each is a step, so that all interleavings are explored.
`Control` requesters are command tasks, `Direct` ones the BMC task, which copies
its image into the staging area itself and may call before the updater exists.
The task wakes, reports, erases, writes, or verifies and installs chunk by
chunk, and resets the TIP after an update. `Reboot` is that reset.

`UpdateSlot` is what callers rely on: one slot that is granted, handed over to
the updater and released. `FwUpdateTask!Slot` maps `pc`, `tpc` and `sys` to its
owner, and `ImplementsSlot` is checked with fairness.

### BmcTask

`lpc` is the position of the two loaders in the common code of
`tip_load_bmc_firmware`, `bmc_start` and `bmc_continue`: "init" is the task
`cerberus_init`, "task" is `bmc_task_loop`. `notif` is the notification value;
handlers overwrite it. `en46`, `pend46`, `en2`, `pend2` are enable and pending
bits; a pending enabled interrupt pre-empts the tasks (`Quiet`), and interrupt 2
precedes 46 because both have the same priority. The BMC trains, fails, is
reset, jumps when told and sends requests. A command is finished in the five
steps of `tip_bmc_direct_finalize_command` (`Finalize`), by the task or, if it is
out of range, by the handler, which clears the interrupt once more
(`LeaveHandler`); `fin` says which step is next, and the BMC may send between any
two, because the status that allows it to is written first. `bit` is the
notification bit that holds the line of interrupt 2 (`Cleared2`: the interrupt has
a level, `npcm850_tip.c:526`, and stays pending while the bit is set). History:
`early` marks a request sent before the notification that the one before is
finished, `deaf` one that leaves interrupt 2 disabled. Assumptions about the BMC: training lasts
longer than a time slice (`Train`), and nothing happens in the microseconds in
which `bmc_continue` returns (`Settled`). A bootblock that is not reset reports.

### ResetCounters

The same reload, reduced to the steps that touch indications and counters, with
time in seconds and, as history, `hits`: the resets of a kind none of which
came more than `Window` after the one before. The kinds of the instance are one
with a counter (`WD1`), one whose counter is disabled (`SW1`), and the two that
GPIOs indicate (`WOL`, `FORCE`).

### BootRecovery

A slot holds, for each part (`l0`, `l1`, `bmc`: verified by ROM, L0, L1), the
release written there or `Blank`. `pc` goes through ROM, L0, L1 and the end of
`cerberus_init`; `upc` is the update task with its start-up work (mark, restore
or match the recovery image); `bpc` is a reload of the BMC. `Crash` may happen
between any two steps, and a power cycle clears the address of the next boot
while a watchdog reset keeps it. The ROM, external, searches from that address
and wraps around. `ver` and `minimal` are the RAM copies of tip_version, `otp`
the fuses.

### ImageLoad

DRAM is an array of words, the window register shows one block. `CopyBlock` is a
turn of the loop of `tip_memcpy`, `HashStart`, `HashBlock` and `HashEnd` are the
first update, a turn of the loop and the end of `tip_image_hash`; the digest is
the sequence of words hashed. `HashFails` is an engine that fails at the start or
in an update, `FinishFails` one that fails to finish: there the code moves the
window back but does not cancel the hash (`NclEngines` has what follows). The four
images come in the order of their types; `OutOfRange` refuses one that is not
between `addr_min` and `addr_max` of its type, and `ClearRam2` clears RAM2 before
a BL31 is copied there, the verified boot block with it, which runs by then
(`bmc_start` comes before the next image). `Reload` is the next reset of the
BMC, of which nothing in DRAM survives. Assumption (`LoadAssumption`): a header does
not straddle two blocks, which the code needs and does not check. Sizes are
whole words (16 bytes in the code, which otherwise hashes padding,
`tip_security.c:581`), and secure boot is active. One task loads at a time
(`BmcTask!OneLoader`).

### NclEngines

`Sections(op)` lists the critical sections of an operation and the calls of the
ROM in each; `at` is where a task is in them. Every call is a step, so that tasks
interleave between any two sections and any call may fail. What follows a failure
depends on the call: most return (`Fail`), a hash whose update fails is cancelled
(`Cancel`), one whose finish fails is neither cancelled nor freed (`FinishFails`;
`unfinished` remembers the task, which keeps `shared_hash`), and `ecdsa_sign` and
`ecdh_compute` (`"sign"`) go on after a failed SetCurve (`CurveFails`). `shared` is
the lock of the hash wrapper (`LockShared`), which the export of the attestation
passes by (`Test`); `start_sha384` and the hashes in one call test `active`
before they lock the library. `hw` is what the hardware
holds and whose it is. `clean`, history, tells whether another task's AES
operation came between two sections of one's own, a key was set where a key of
the OTP was selected, a curve could not be set, or the export had found the hash
engine free before one's own hash began: the properties about keys and digests are claimed
while it is 1, and what falls under the exception is listed in section 6.

### Otp

`fustrap2` are the three copies of the mask of revoked keys, `burnt` the bytes
of the register patch and its pointer, `encoded` and `addr` the buffer and the
address register that everybody shares. A fuse is burnt in two steps, setting
the address and the pulse, and the byte that is already fused is read before through
the same register (`NextByte`, `ReadByte`); a read of the BMC task may come
between any of them, and the byte read, or the pulse, is then another one. Power
may fail at any step, and a pulse may not take. `Decode` is the Hamming code of
64 data bits and 8 check bits as the code computes it, `Majority` the one of
three copies. Assumptions: a read by the BMC task is atomic and touches the first
copy in the buffer only; no update verifies a key manifest while the mask is
burnt (the command interface is not yet open). `RevokedAsAsked` claims complete
revocation of a boot with at most one disturbance (`slips`).

### Kernel

An action is one critical section, one section with the scheduler suspended, or
one interrupt. The loop of `xTaskResumeAll` over the ticks that came meanwhile is
an action per turn (`ResumeAll`, `CatchUp`, `Resumed`) during which no interrupt
is taken (`Masked`), because `taskENTER_CRITICAL` masks them. `list` and `wakeAt`
are the delayed and the ready lists; the list of a mutex is the set `waiters` with
the order `ahead`, which `Insert` keeps as `vListInsert` does. `time` is the tick
count, its overflow and `xNextTaskUnblockTime`, `prio` and `owner` the
inherited priorities and the holders, `readied` and `pended` what interrupts
leave while the scheduler is suspended, `at` the position and the local
variables of a kernel call. `due`, history, counts the ticks until the end of a
wait. A task in `Nesting` takes mutexes while it holds others, in the order of
their numbers, and gives them back in reverse order, as the firmware does with
`shared_hash` and the mutex of the NCL. A task
that tries again without time left, although it had lent its priority, halts at
the `configASSERT` of `queue.c:1552`; `Try` lets it not go on, and the others may. The
run does not get there (section 6).

## 4. Runs

| run | instance and bounds | question and result |
|---|---|---|
| `fw_update` | one command task, one BMC task (as in the firmware), a good and a bad image, staging of two chunks; about 70 000 states | Exclusive ownership without lost requests (`OneOwner`), only verified images installed (`InstalledVerified`), what is consumed and written keeps still meanwhile, answers, and the refinement of `UpdateSlot`. Two chunks are what it takes to interrupt a copy or an installation; more than two requesters are covered by the proofs. |
| `bmc_commands` | three attempts (the code's number), commands that are valid, out of range or without a case, requests on the polled channel, each sent as early as the register allows; resets while the first bootblock trains, of a trained and of a running BMC, by GPIO too | The loaders exclude each other; every request is answered or the BMC booted again, except one that was sent before the notification of the one before or behind one that nobody finishes. 46 206 states |
| `bmc_resets` | the same without commands | An interrupted reload falls back to the recovery image, the BMC jumps to verified images only, a BMC in reset is started, every wait for a bootblock ends. With commands the third fails, for the reason of the next run. |
| `bmc_lost_reset` | commands and GPIO requests | Violation: a command replaces the notification of a reset (finding 1). |
| `bmc_reload_hang` | resets while a reload trains | Violation: the reload waits for ever (finding 2). |
| `reset_counts` | four kinds of resets, window 2, uptime 4, at most three resets of a kind, more than the maximum of two | Recovery is entered for a reason only, and entered when the maximum is reached; counters neither wrap nor leave their range; every GPIO is enabled again. |
| `boot_recovery` | three releases (old, new, new without a forced match), two slots, all crashes, faults and BMC resets; about 650 000 states | One image stays bootable and fuses do not outrun the running one (`NeverBricked`), the recovery image survives, TIP gets up again once the environment is calm. |
| `image_load` | blocks of four words, images on 37 addresses; a BL31 at every offset in a block, of two to nine words, OP-TEE through the window or not; a BL31 in RAM2; each image below its range or a word behind it; 4 038 states | Copy and hash agree at all boundaries, images out of range are refused, nothing is written but the image and the RAM2 cleared for it, the window is left at the header. |
| `ncl_engines` | the update, BMC and command task, each with those of its operations that meet another task's (two with curves, two with AES, three with `shared_hash`); every call may fail; 285 325 states | Own keys and curves, whole digests; the engine stays active and its lock taken only for a hash that goes on or that the ROM failed to finish; every operation returns that does not wait for that lock. |
| `otp` | four manifests, one of them refused, two bytes of patch, two power failures, three fuses that do not take, one wrong bit; 1 151 828 states | Keys read as burnt, the mask is what was asked for, TIP boots. |
| `fuse_double` | the same word with two wrong bits | Violation: a double error is taken for good data (finding 3). |
| `kernel` | three tasks of priorities 1 to 3 and the idle task, one mutex, four values of the tick count, ticks late by two at most, no task nests mutexes, one tick in a suspended section; 1 041 268 states | The highest ready task runs, inheritance is neither too short nor too long, waits end on time across the overflow, no wake-up is lost. |

Why the bounds are enough: they are the smallest at which a boundary can be
met from both sides. Attempts, counters and versions are compared with
constants and with each other only, never added up; a third value of each shows
no new order between them. Images of two to nine words over blocks of four have
their ends at every position of the first, a middle and the last block. Two
power failures interrupt the burning and its repetition; three refused fuses
exceed the rounds that the code makes. A tick count of four values overflows within
every wait; three priorities are what inversion takes. The word of the key has
bits at both ends of the code and around its check bits; `KeysRead` proves it for
every word. What the one mutex and the four values of the tick count leave out,
more mutexes and every width, is covered by the proofs.

Deadlock is checked in `fw_update`, `otp` and `kernel`. It is not in the
others: the tasks may all wait for the lock of a hash that was not finished
(`NclEngines`; `Returns` says that nothing else stops them), a TIP that has booted waits for events (`BmcTask`), stops at the bound
of the clock (`ResetCounters`), halts in ROM without any image
(`BootRecovery`) or after a refused image (`ImageLoad`).

Fairness. `FwUpdateTask`: weak fairness of what a task does when it is ready, and
strong fairness of taking the mutex, because a FreeRTOS mutex goes to the waiting
task of the highest priority and those above it wait for a message between two
uses; calls are not fair, a requester need not ask. `BmcTask`: weak
fairness of both loaders, because `cerberus_init` and `bmc_task_loop` have the
same priority with time slices, of the handlers, and of the bootblock's report.
`BootRecovery`: weak fairness of boot, of the two halves of the update task and
of the reload. `Recovers` holds from `calm` on, when crashes, faults, updates
and BMC resets have stopped. `NclEngines`: strong fairness of each task's steps,
for the same reason as in `FwUpdateTask`. `Otp`: weak fairness of power
coming back and of `cerberus_init`. `Kernel`, `ResetCounters` and `ImageLoad`
assume none and claim no liveness.

## 5. Proofs

Every theorem holds for all values of the constants that satisfy the module's
named assumptions, and no other except those of the last column.

| module | theorem | states | provided |
|---|---|---|---|
| `FwUpdateTaskProofs` | `TypeCorrect` | `[]TypeOK` | |
| | `Exclusive` | `[]OneOwner` | |
| | `OnlyVerifiedInstalled` | `[]InstalledVerified` | |
| | `ConsumedBytes`, `WritesIntact` | `ConsumedBytesKept`, `WriteIntact` | |
| | `ImplementsSlotSafely` | `Slot!Safe`, the safety part of the refinement | |
| `BmcTaskProofs` | `TypeCorrect` | `[]TypeOK` | no reset between training and first release |
| | `LoadersExclude` | `[]OneLoader` | the same |
| | `FallsBack` | `[]Distrusted` | the same |
| | `JumpsVerified` | `VerifiedBeforeJump` | the same |
| `ResetCountersProofs` | `TypeCorrect` | `[]TypeOK` | |
| | `Justified` | `[]RecoveryJustified` | no reset while one is handled (`During = "no"`) |
| | `ResetsLimited` | `[]Limited` | the same |
| | `Rearmed` | `[]GpioRearmed` | the same |
| `ImageLoadProofs` | `TypeCorrect` | `[]TypeOK` | images do not overlap (`Apart`), no foreign footer (`NoFooter`) |
| | `StaysVerified` | `[]VerifiedInPlace` | the same |
| | `NeverMisread` | `[]NotMisread` | the same |
| | `StaysWithin` | `WithinImage` | the same |
| `NclEnginesProofs` | `TypeCorrect` | `[]TypeOK` | |
| | `KeysAreOwn` | `[]OwnKey` | |
| | `DigestIsWhole` | `[]DigestWhole` | |
| | `EngineIsFreed` | `[]NotLeftActive` | |
| `BootRecoveryProofs` | `TypeCorrect` | `[]TypeOK` | updates run after the boot (`Early = "no"`) |
| | `AlwaysBootable` | `[]NeverBricked` | the same |
| | `RecoveryMatches` | `[]RecoveryKept` | the same |
| `OtpProofs` | `TypeCorrect` | `[]TypeOK` | |
| | `Revoked` | `[]RevokedAsAsked` | |
| | `KeysRead` | `[]KeyReadable` | at most one wrong bit per word (`MaxWrong <= 1`) |
| `KernelProofs` | `TypeCorrect` | `[]TypeOK` | |
| | `WaitsAreExact` | `[]OnTime` | |
| | `WakesAreKept` | `NoLostWake` | |
| | `InheritanceHolds` | `[]Inherited` | no nested mutexes; time-outs harmless, or one mutex only |
| | `HighestPriorityRuns` | `[]HighestRuns` | no nested mutexes; time-outs harmless |

The conditions of the last column are those under which the code keeps its
promise: section 6 says what happens without them.

**FwUpdateTaskProofs**. None of its properties is inductive: that two tasks do not
own the slot at a time depends on what the flag, the mutex and the notification
bits say when one of them is about to take it. The invariant is

    IInv == TypeOK /\ LockInv /\ SlotInv /\ RunInv

- `LockInv`: the holder of the mutex is the process that is between taking and
  giving it. It makes `Available`, tested under the lock, still true at `Claim`.
- `SlotInv`: a requester that owns the slot (past `Claim`, before `Notify`) is the
  only one, `running` is not 0, no bit is pending and the updater waits; a
  pending bit is the only one, and the updater waits with `running` not 0; while
  the updater starts or works, `running` is not 0. So whoever is about to `Claim`
  sees `running = 0` and finds nobody. Exclusion and the absence of lost requests
  follow from it.
- `RunInv`: while the updater installs, `verified` is what staging holds,
  passes `Verifies`, and `installed` agrees with it in the chunks copied so far.
  Its step relies on `SlotInv`: nobody else can write to staging then.

There is one step lemma per conjunct (`LockStep`, `SlotStep`, `RunStep`), with a
case per action and below it what the action can disturb. For the refinement
`OwnerCases` derives from `IInv` that the owner is unique, and `SlotSteps` that
every step moves the owner along `UpdateSlot!Next` or leaves it.

**BmcTaskProofs**. `IInv == TypeOK /\ AttemptInv /\ FirstInv /\ FinishInv
/\ VerifiedInv /\ Distrusted`. While `cerberus_init` boots the BMC, `bmc_task_loop` leaves its
idle state only for a reset of a BMC that is marked `DDR_READY`. The mark needs
a bootblock that passed; by then the notification of every earlier reset has
been taken, and a trained BMC that waits is not reset again (`FirstBoot`). From
then on `bmc_task_loop` is the only loader, so what it has verified is what DDR
holds when it lets the BMC jump (`VerifiedInv`). `FinishInv` keeps the end of a
command apart from a reload, `AttemptInv` keeps the attempts
above zero.

**ResetCountersProofs**. A counter and the number of close resets differ by the
reset that is being handled and not yet counted (`NotifyInv`, `CountInv`). When
a gap longer than the window makes the history start again, anything counted
before it means that the counters were initialised no later than the last reset,
so the code initialises them again when it counts the next one (`InitInv`).
`LeftInv` relates the disabled counter to its maximum and `WindowInv` the
indications to the GPIOs.

**ImageLoadProofs**. In every turn of a loop the window shows the block of the
next word: for the copy the word at `dst + count` (`CopyInv`), for the hash the
one behind the words hashed (`HashInv`). The first turn has it because an address
is the start of its block and an offset (`Split`), a later one because the turn
before ended with a block or was the last. `WrittenInPlace` and `SignedWords`
are what a copy and an update of the hash do; an image in place
(`LoadedInv`, `GoodInv`) stays so because images are apart, but for the words of
the boot block that `ClearRam2` makes zero (`Kept`). From `Load` on the image is
within the range of its type (`RangeInv`), whatever the layout holds.

**NclEnginesProofs**. `IInv == TypeOK /\ AtInv /\ SharedInv /\ HashInv /\ KeyInv`. Only
the holder of `shared_hash` is between start and end of a wrapped hash
(`SharedInv`, `HashInv`); a hash that was not finished keeps the engine and the lock,
and as nobody gets past either, there is one at most. A task nobody disturbed finds
in the hardware what its earlier sections left there (`KeyInv`).

**BootRecoveryProofs**. `IInv == TypeOK /\ BootedInv /\ PhaseInv /\ RecoveryInv /\
SlotInv /\ FuseInv`. That one slot can be booted says nothing of which, and the step that
erases the other would break it. `SlotInv` names the slot: the recovery image once
the start of the update task is over or a copy to the main slot runs, the main
one during the copy to the recovery slot. A copy may begin because the source has passed
all checks against the versions in RAM, which are those of OTP until the fuses
are blown (`BootedInv`, `CheckedBootable`), and because it is what the running image
was loaded from (`PhaseInv`). `RecoveryInv` follows the copy part by part.
The fuses are blown last, and what they will be set to was recorded by the last
verification before: `FuseInv` says for each part that it does not exceed the
recovery image, or is not going to be programmed, so that blowing it
(`FuseStep`) leaves the recovery image bootable. `BootStarts` to `FuseStep` are about the
boot, `SyncFrame` to `SyncGivesUp` about the start of the update task, and
`RunsFrame` shows that nothing done afterwards touches what the invariant names.

**OtpProofs**. The BMC task only writes over the first copy in the buffer and only
makes the pulse in flight miss: the other two copies hold nothing that was not
asked for, and one disturbance spoils one copy of three (`BufferInv`,
`CopyInv`).

For the keys the word is an arbitrary set of bits. A bit of the data that reads
wrong changes the parity of the check bits that cover it and of the eighth, and
of no other (`OddFlip`, `CheckBitsFlip`); the first seven, read as a number, are
its position (`SyndromeOfBits`, `ErrorBitOfPosition`), and a wrong check bit
changes one only (`TwoBitsAtLeast` tells the two apart). So `Decode` gives the
data back (`OneWrongBit`). That two wrong bits are outside is finding 3.

**KernelProofs** is for any tasks, priorities, calls and mutexes, any width of the tick
counter and any number of ticks that pend. `Shape /\ TimeInv` is inductive and
carries the rest (`Shapely`); the conditions of the last column appear only in the
two theorems about priorities.

- `Shape`: where a task is in a kernel call says what its local variables hold
  (`Place`), which list it may be in (`Blocked`), and that only the running task can
  have the scheduler suspended (`Section`). The lists of mutexes stay strictly
  and totally ordered through insertion and removal (`InsertOrdered`,
  `LeaveOrdered`), so each has a first.
- `TimeInv`: a task in the delayed list wakes in the future and not before
  `xNextTaskUnblockTime`, one in the overflow list after the wrap (`Sleeping`);
  what remains of a wait is its wake time less the tick count less the pended
  ticks. `Timed` says the same of a time-out that is set: the ticks that have
  passed are the distance of the counter from the entry time, with or without
  one wrap, which is what `xTaskCheckForTimeOut` tests. `InStep` ties the
  previous wake time of a periodic task to the tick count. A late task must not be
  later than the counter can show: `Asked` bounds a wait with its lateness by
  the width, which is the assumption on time-outs in `KernelAssumption`.
- `Free`: tasks wait for a free mutex only while one that was woken is on its
  way to it (`NextFree`).
- `InheritInv == Holders /\ Lent /\ Bounded /\ Sorted`. Lists are sorted by
  priority (`Sorted`), although the priority of a task may change: only a holder's
  does, and a holder waits for nothing (`Holders`). So the task that is woken has
  the highest priority of those that wait (`FirstHighest`), and what a holder takes
  back after a time-out is right for all that remain. `Lent` names who lends a
  raised priority, and `Bounded` bounds those that wait for a free mutex by one on its
  way to it, and by the running task unless a switch is pending: who takes it at
  that moment runs with its own priority and must not be below them.
- `Highest1` is `HighestRuns` in a section, too. Its step needs
  `InheritInv` where a mutex is given: a holder that falls back to its own priority
  without a switch (`GiveInherit`) had none other.

`TimeOutsHarmless` is a condition on the calls: no task that may time out after it
lent its priority to a holder leaves behind one whose priority is not above the holder's
own. It holds where mutexes are waited for indefinitely or not at all, as all
calls of L1 do with `portMAX_DELAY`, and for the instance of `kernel`, which
has a time-out (with two mutexes, too, TLC finds all its properties kept, in 4 576 550
states). `Called` ties the local variables to the calls, `HarmlessHolds`
carries the condition over to the tasks that lend and wait at a time.

TLC gives a counterexample for each condition. With nested mutexes `HighestRuns`
and `Inherited` fail (section 6). With a harmful time-out `HighestRuns` fails: the
task that lent times out, and before it takes that back the holder gives the
mutex to the other one that waits, so that the switch is lost in the same way; it
takes four tasks and one mutex. With two mutexes `Inherited` fails then, because
that holder can take the other mutex below those that wait for it; six tasks. The only
nesting of L1 is that of `shared_hash` and the NCL: where tasks do both, the two
theorems say nothing, and section 6 says what happens.

Only model-checked: all liveness (`Answered`, the fairness part of
`ImplementsSlot`, `ResetServed`, `WaitEnds`, `Recovers`, `Returns`, `Boots`), which
needs fairness and ENABLED and is out of the prover's reach. Every invariant and
every action property that a passing run checks is a theorem.

## 6. What was found

Each finding is a run that violates one property taken from the code's own
words.

1. `bmc_lost_reset`: `NVIC_BMC_reset` says its interrupt "will be reenabled
   after BMC is reloaded in bmc_task", but a direct command that arrives before
   `bmc_task_loop` has taken the notification of a GPIO reset overwrites it. The
   reset interrupt stays disabled and nobody acts.
2. `bmc_reload_hang`: in a reload, `bmc_task_loop` itself polls in
   `bmc_release_from_reset`. When the bootblock is reset by its watchdog before it reports,
   `bmc_state` would have to become `BMC_BOOTBLOCK_RESET`, which only the same
   task sets after it has returned to its loop. The three attempts promised in
   the comment are not made.
3. `fuse_double`: `FUSE_64_72_SECDEC_Decode` takes every syndrome that is a power of
   two for an error of a check bit, and its eighth check bit covers the data only. Of
   the 2556 pairs of wrong bits of the run's word, 617 are returned as good
   although the data are wrong; the description above the function promises a
   failure for each.

Further disagreements that the models show when an assumption is lifted, and
which the passing runs exclude by the constant named:

- `BmcTask`, `"initTrained" \in ResetIn`: a reset between training and the first
  `bmc_continue` starts a second loader (`OneLoader`, `VerifiedBeforeJump`). The
  proofs show that it is the only reset that does.
- `BmcTask`, commands together with `"reloadTrained"` or `"gpio"`: `ResetServed`
  fails, by the overwritten notification of finding 1.
- `BmcTask`, what `Answered` excepts. `early`: the status of a command is written
  (`bmc_task.c:280`) before its notification is cleared (289), and a BMC that reads
  the status and sends its next request between the two loses it; a BMC that waits
  for the notification (298, "notify BMC on complition") does not, and neither
  does the second clearing of the handler (396) lose anything, as long as the
  interrupt has a level: with an edge (`Cleared2 == 0`) `Answered` fails there.
  `deaf`: after a request on the polled I2C channel interrupt 2 stays disabled
  (345); a command below `BMC_MAX_COMMANDS` without a case (1158) is never
  finished. Without either exception TLC finds the request that is lost.
- `BmcTask`: in a recovery boot the next boot stays at the recovery image after
  a reset of the BMC, though `tip_cerberus.c:2874` returns to the main one.
- `ResetCounters`, `During = "yes"`: a reset during a reload is cleared unread
  (`Limited`); `Horizon > Window`: the time of the first reset, not of the last,
  decides (`Limited`), and the early return leaves a GPIO disabled
  (`GpioRearmed`). In a recovery boot no GPIO is enabled again either.
- `BootRecovery`: validating a newer recovery image records its versions, which
  are then fused (`NotProgrammedBeyond` is claimed of images that ask for a
  matching recovery image only); an update accepted while the recovery image
  could not be repaired may be interrupted, and no image is left
  (`NeverBricked` makes this exception through `sync`).
- `BootRecovery`, `Early = "yes"`: `bmc_continue` comes before
  `tip_version_set_in_OTP`. An update that is verified between the two has its
  versions recorded, and fused before its image is written (`NeverBricked`). It
  needs an update staged and requested within the time the fuses take, which the
  passing run and the proofs assume is not met.
- `ImageLoad`: a BL31 in RAM2 has RAM2 cleared (`tip_firmware_component.c:989-995`)
  after the boot block in it was verified and started, so `VerifiedInPlace` excepts
  the words of the boot block that are cleared. What the boot block, which waits for
  the next image, executes from then on is not in this repository.
- `ImageLoad`, `TRUE \in FooterRead`: after the copy of an LMS signature
  (`tip_firmware_component.c:1011`) the DRAM window shows the block of the signature,
  not the one that the comment at line 1016 promises (`NotMisread`).
- `NclEngines`, `FinishFails`: `tip_image_hash` cancels after an update that fails,
  not after a finish (`tip_security.c:643-650`), and `tip_hash_ncl_finish` returns
  with `active` set (`tip_hash_ncl.c:358-361`). In L1 every later hash then waits for
  `shared_hash`. The measurement in L0 does cancel there (`tip_boot.c:455-467`).
  `NotLeftActive` and `Returns` except a hash that was not finished.
- `NclEngines`, `CurveFails`: `ecdsa_sign` and `ecdh_compute` overwrite the status of
  SetCurve (`tip_ecc_hw_ncl.c:310`, `475`) and compute with the curve of the operation
  before, or with none, where the other operations return the error. `OwnKey` excepts
  these two after such a failure.
- `NclEngines`: without `clean`, `OwnKey` fails. Direct AES (`bmc_task.c:1132-1149`) sets
  its key without selecting it, although `tip_ncl_rom_if.h:1259` asks for the
  selection first; AES-GCM sets its key before it selects slot 0. After an
  operation with a key of the OTP both rely on the order of earlier calls.
- `Otp`: a manifest that revokes the key it was verified with is refused at every
  boot, and TIP reboots for ever (`Legal`); a fuse that does not take while the
  mask is burnt is ignored (`tip_key_manifest.c:235`), so that two disturbances
  leave a key usable; the pointer is burnt even if the table failed.
- `Kernel`, `MCNested` with two mutexes: inheritance is not passed on. A task that
  waits for the second mutex lends its priority when it begins to wait; if it then
  inherits a higher one for the first, the holder of the second does not get it.
  And a task keeps an inherited priority until it gives the last of its mutexes,
  long after who lent it was served (`Inherited`). If a task of low priority waits for that one,
  the switch that the return to its own priority calls for is not made until the
  next tick, because it is in the `else` of waking that task (`queue.c:850`), while
  the comment at `tasks.c:4192` says that one should occur "whether a task is
  waiting on it or not" (`HighestRuns`).
- `Kernel`, `Try`: a task that lent its priority and timed out finds the mutex free
  (`Expired`) and loses it to a task of higher priority before it tries again. It
  then has no time left and `xInheritanceOccurred` set, which the comment at
  `queue.c:1548-1550` holds impossible, and the `configASSERT` below it halts. TLC
  gets there when a task with a time-out has another one above it that holds the
  mutex while it sleeps; L1 takes its mutexes with `portMAX_DELAY`.
- `FwUpdateTask`: a refused request overwrites the status of the running one.

Other observations, not modelled or not claimed by a property:

- The indications of GPIO resets in TIP_SCR1 are not cleared with those in RESSR
  (`tip_reset.c:63-73`), so that a later reset of another kind counts as one of the
  GPIO's too. `RecoveryJustified` claims nothing once such a bit is left.
- `tip_firmware_component_verify` takes the direction of the cipher from the address of
  the next boot (`tip_firmware_component.c:798`, with the comment at 786), which a
  reload of the BMC changes (`bmc_task.c:773`) while an update is verified.
- Three failures in the main of L0 return past the comment "Never halt the system"
  (`tip_boot.c:805, 817, 822`).
- The size of an image counts its LMS signature twice (`tip_image_combo.c:226`).

## 7. What is not modelled

Secure boot is active everywhere: without it a failed verification is ignored.
A signature is a predicate of an image. The content of commands, registers,
certificates and logs, and all console output, are abstracted.

| part | reason |
|---|---|
| `common/cmd_interface` | a table from commands to handlers of the core library |
| `common/mbx` | when the BMC sends, acknowledges and repeats is decided by its driver, which is not in the repository: a model would be of that driver |
| `tip_flash.c`, `tip_virtual_flash.c`, `tip_flash_cpld.c` | register sequences of one transfer |
| `flash_xfer_tip.c` | only called in builds without `BMC_DIRECT` |
| `riot/`, signature arithmetic, key formats | computation over data |
| `tip_init_common.c`, `tip_app_context.c` | straight-line configuration |
| `tip_stack_overflow_check.c`, `serial_printf/`, `deprecated/` | one hook or loop without shared state, or pure output |
| scanning and formats of images (`tip_image_combo.c`, `tip_firmware_component.c`) | abstracted to the set of an image's parts and the order of their verification |
| which key of a manifest may verify what | arithmetic over indices of a manifest without concurrency; left in the plan |
| kernel: queues that hold data, counting semaphores, creation and deletion of tasks, the assembler of the switch; timers, event groups, stream buffers, coroutines | the first are left in the plan; L1 does not call the last four |
| `npcm850/SWC_HAL` but the fuse driver, `SWC_DEFS`, ROM interface | vendor drivers and definitions, shared between chips, taken at their documented meaning |

The vendor's drivers, the ROM's headers and the vendored kernel are four fifths of
the lines in the repository. Most of them set registers, for hardware whose reaction is
not in the source; what the program relies on is in the modules as the effect of a
call.
