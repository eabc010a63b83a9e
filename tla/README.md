# Verification of reform-tools

TLA+ models of the parts of reform-tools that keep state, share it, or leave a
machine in a state that matters when they fail half way; TLC configurations that
check them on small instances; and TLAPS proofs about every one of them, for
every value of the constants. Paths are relative to `src/`.

## 1. The system

reform-tools is a set of mostly independent programs around the MNT Reform
laptops. They meet in the kernel (the battery a driver reports is what the power
daemon reads), on the disks (one script calls another, or continues what it left)
and in `machines/*.conf`, whose settings all scripts source.

| component | state | operations | what is hard | what makes it correct |
|---|---|---|---|---|
| command channel of the system controller (`system-controller/mnt-sc.c`, `sc_cmdresp`, `sc_cmdresp_retry`) | mutex, bytes on the SPI bus, per call: parenthesis depth, empty bytes, text read | send a command in chunks, read an answer byte by byte, time out, retry | many kernel threads; late answers that nobody drains; lost commands; a reader that starts in the middle of an answer | one transaction at a time; whole answers only, never twice, never out of order; bounded backlog; every call returns as long as the bus does not jam |
| its callers (same file) | backlight, suspend notifier, gpio, power-off handler, battery, the sysfs files | sysfs and power-supply reads, brightness, suspend and resume, gpio, power-off, `probe`, `remove` | callbacks from several subsystems under different locks; settings that nobody confirms; `probe` with partial failure, removal under use | the controller does what the driver's state says; no handler without driver data; power goes off |
| LPC driver (`lpc/reform2_lpc.c`) | mutex, API version, response buffers | battery properties, sysfs files, backlight, uart, `probe`, power-off | battery readable before the version is known; damaged transfers; checks after unlocking; handlers of several commands | own answers only; damage caught; plausible reports; power goes off |
| power daemon (`libexec/reform-tools/reform-power-daemon` and its unit) | `power_state`, `prev_power_state`, the settings in sysfs | read status, read capacity, decide, write settings | torn reads; writes that fail; kills in the middle, some of which the unit does not restart; the driver exchanged | the right mode; what is recorded was written; follows the battery |
| bootloader flasher (`bin/reform-flash-bootloader`) | `/boot/flash.bin`, devices, `force_ro` | check policies, download, compare, write, verify | many options and device names; offsets; a `parted` that fails unseen; failing or killed `dd` | partitions kept; policies hold; status 0 means flashed |
| boot configuration (`bin/reform-boot-config`) | mounts, the clean-up list `"$@"`, fstab, both boot partitions, partition table and label of the boot medium, LUKS | ask, partition, mount, copy, rewrite fstab, initramfs, unmount, clear the label | any command fails; a signal runs the clean-up and the script goes on; power loss | everything mounted is on the list; fstab after the copy; closed at the end |
| encrypted disk setup (`bin/reform-setup-encrypted-disk`) | target disk, LUKS, volume group, traps | consent, partition, swap size, format, copy, `reform-boot-config` | traps under `set -e`; names shared with a running system | consent before erasure; swap fits; others' volumes stay open; closed at the end |
| migration, rescue system, emmc bootstrap (`bin/reform-migrate`, `bin/reform-flash-rescue`, `bin/reform-emmc-bootstrap`, `bin/reform-rescue-shell`) | target disk, mounts | copy the system, write an image, open a shell in a system | failure half way, devices in use | consent; unmounted at the end |
| mcu tool (`bin/reform-mcu-tool`) | firmware of the microcontrollers | list, update | external programs | right firmware for the device |
| boot screen (`plymouth/monobar.c`) | one view per text display, mode, message, prompt, animation, event loop | show and hide the splash, progress, messages, passphrases and questions, displays added and removed | the order of the calls: a prompt while messages arrive, an event loop that ends first | the prompt stays; all displays agree; everything is given back |
| standby, hardware and display setup, kernel and initramfs hooks | none of their own | sequences of commands | - | - |
| `bin/reform-check`, desktop tools | none | report, start programs | - | - |

Interactions:

- the LPC driver reports status and capacity, the power daemon reads them (`Battery`
  in PowerDaemon stands for the driver; `Reload` for its exchange);
- all callers of a driver share one command channel and its mutex (ScCallers is
  built on ScCommand, which ScLink implements);
- `reform-setup-encrypted-disk` calls `reform-boot-config` on an open volume
  (`RunBootConfig` in EncryptedDisk is BootConfig with `luks = FALSE`, since
  the device is named `/dev/reformvg/root` explicitly), and takes its status 0 for
  success, also where a question of it was declined;
- `reform-flash-uboot` and `reform-setup-encrypted-nvme` only forward to their
  successors.

## 2. The modules

| module | models | checked by |
|---|---|---|
| ScCommand | what `sc_cmdresp_retry` promises, without bytes, mutex and timeouts | (abstract) |
| ScLink, MCScLink | `sc_cmdresp`, `sc_cmdresp_retry` and an external controller | sc_link, sc_link_returns |
| ScLinkProofs | theorems about ScLink | TLAPS |
| ScCallers, MCScCallers | the callers of the channel, `mntsc_probe`, `mntsc_remove`, over ScCommand | sc_callers |
| ScCallersProofs | theorems about ScCallers | TLAPS |
| PowerDaemon, MCPowerDaemon | the daemon and its systemd unit | power_daemon, power_daemon_ssds |
| PowerDaemonProofs | theorems about PowerDaemon | TLAPS |
| LpcDriver, MCLpcDriver | `lpc_command` and all its callers | lpc_driver |
| LpcDriverProofs | theorems about LpcDriver | TLAPS |
| FlashBootloader, MCFlashBootloader | `reform-flash-bootloader` | flash_bootloader, flash_bootloader_unread |
| FlashBootloaderProofs | theorems about FlashBootloader | TLAPS |
| BootConfig, MCBootConfig | `reform-boot-config` | boot_config |
| BootConfigProofs | theorems about BootConfig | TLAPS |
| EncryptedDisk, MCEncryptedDisk | `reform-setup-encrypted-disk` | encrypted_disk, encrypted_disk_policy |
| EncryptedDiskProofs | theorems about EncryptedDisk | TLAPS |
| Monobar, MCMonobar | `plymouth/monobar.c`, the boot screen | monobar |
| MonobarProofs | theorems about Monobar | TLAPS |

In every module an operator whose comment begins with "Mutant of" is a plausible
bug of the definition after it. It is used nowhere; put in the place of that
definition it makes TLC find one property violated, which shows that the property
looks at the code.

### ScLink

`lock` is `mntsc->lock`; `rx[t]` holds the locals `paren`, `delayed` and `rxbuf`
of `sc_cmdresp`, `ret[t]` its result, `tries[t]` the counter of
`sc_cmdresp_retry`, `resp[t]` the caller's buffer. `inbox` and `out` are the
commands and the answer bytes under way; each answer is a whole list the controller
chose from `Frames`, each byte remembers its frame, its position and the
transaction it answers. Actions follow the code: `Call`, `Lock` (with the memset
before it), `Send` (all chunks; whether they arrive is open, because the results
of `spi_write` are overwritten), one `Read...` action per branch of the read loop,
each with the tests at the end of the loop, `Unlock`, `Retry`. `Serve` is the
controller. The history variables `own`, `newest`, `given` and `broken` exist for
the properties only.

`bus` says whether the bytes that come are still the controller's. Once it is "jammed" a
byte that is neither empty nor a closing parenthesis comes for ever (`ReadJammed`, only with
`MayJam`): a line that is stuck, or a controller that hangs while it shifts out a parenthesis. Inside one level of
parentheses such bytes fill `rxbuf`; anywhere else neither the count of the buffer nor that of the
empty bytes moves, and `sc_cmdresp` never ends, with the mutex held. `CallReturns` says
that nothing but this keeps a call from returning.

What holds is weaker than one would wish, and the properties say so. A
transaction whose answer comes after its timeout leaves that answer to the
*next* transaction, which takes it for its own. `InStep` says when that cannot
happen (no transaction was abandoned so far), `Backlog` how far it can go
(one answer for each abandoned transaction), `FreshAnswers` that answers are at
least never used twice nor out of order. ScCommand states the same as an
abstract machine, and `ImplementsScCommand` is the refinement.

### ScCallers

The level above: which commands the handlers of `mnt-sc.c` send, in which order, and
under whose locks. Of a call this level needs only what ScCommand promises, and
ScCallers extends it: `Begin`, `Transmit`, `Serve` and `Return` are conjuncts of `Issue`, `Send`,
`Obey` and `Finish`. `Take` is left out, since no handler here decides anything from what an
answer says. A handler is the list `todo[t]` of the commands it has still to send,
fixed when it starts from the properties it reads then: `bl_update_status` sends
one, PM_SUSPEND_PREPARE and PM_POST_SUSPEND two, the files one to
three, the power-off handler one for ever. `reg` is the controller as
the commands that reach it leave it.

The locks are those of the kernel: the backlight class serialises its own users, the
gpio consumer its own, but the notifier calls `bl_update_status` without either. `stage`,
`files`, `screen` and `listening` are what `mntsc_probe` has brought up; `ProbeFails` can
come after any number of files, which then stay, because the error path removes
none; `RemoveNotifier`, `RemoveFiles` and `Release` are `mntsc_remove` and the release of
what devm manages, each waiting for the handlers it takes away.

`Settled` says what one would like to say of a suspend ("the brightness comes back"), of
the rails and of the gpio lines at once: when all is quiet the register holds what the
driver's state calls for. It needs two provisos, both real weaknesses
that the history variables `arrived` and `clash` name: the last command of a register may have
been lost, and nobody looks whether it arrived; and where notifier and backlight
run at the same time the later *command* wins, not the later *setting*. What it still excludes
is a retry of an older command that is obeyed after a newer one, and a
setting that is restored from a stale copy. `LiveData` admits the two exceptions
the code has: files left by a failed probe, which find no driver data, and the notifier of
a driver whose backlight could not be created, which uses the error pointer.

### PowerDaemon

One action per read, per write and per exit. Settings keep the mode they
were last written for. `Write` fails or not, per setting, as `set +e` allows; `Kill`
and `ReadFails` end the daemon, and `Restart` is the unit's `Restart=on-failure`, which
does not follow every end (`pc = "gone"`): a missing module is status 2, which the unit never
restarts; SIGHUP, SIGINT, SIGTERM and SIGPIPE are clean ends for systemd, so that a `Kill` leads to
"down" or to "gone"; and a `sleep` that fails ends the loop, of which it is the condition, with status 0
(`SleepFails`). `Follows` exempts these ends and no others. `round` remembers what held of the battery from the read of the
status on; with it `LowThroughout` says that a torn read is harmless for a
battery that was low all through.

### LpcDriver

Threads of three kinds call `lpc_command`: readers (battery properties, sysfs files,
uart, backlight), the probe, which learns `api_version`, and the power-off handler. `Write` is the
SPI transfer after which the controller has its answer ready, `Read` the second
one, which can fail or flip one bit of a byte (`BitWeights` are the weights of the bits,
`Flips` those of a run); `Check` comes after `Unlock`, as in the
code. `ReportPlausible` is about two things only: the range of the capacity, and that for a
current within 20 A the signs of status and current of one answer agree. `Confirm` computes what `lpc_confirm_checksum` does with nine bytes of
which eight were read. The answers to `n` and `f` are eight characters with no room for a
checksum bit, so that `DamageCaught` is about the other commands; `DateOf` is `kstrtou32` of
the eight digits of `f`. A handler is a list of commands (`Handlers`); `NextCommand` goes on to
the next one, after an error only where the handler does not look at the result
(`Careless`: uart and backlight). `Reports` is what the last call of a handler can return,
one element per property: `show_capacity` prints its charges also after an error, and
`CurrentOf` is a set, since for an implausible current the code
returns success and leaves the value unset, so it may be anything.

### FlashBootloader

The script in its order: policies, `--check`, download, image, space check of
all devices, questions, and per device compare, `force_ro 0`, `dd`, `force_ro 1`,
verify. A device can be named by a short-hand, by its name in `/dev` or by another
path; `Real` and `OnBoot0` map names to disks as the script does. Contents are
abstract (`old`, `latest`, `custom`, `zero`, `broken`), offsets and sizes are
bytes.

The space check asks `parted` for the label and for the start of the first partition (`Queries`), each in a pipe
whose first command may fail unseen, since `set -eu` is without `pipefail`. The answer is then the
empty string, which matches no label and makes the numeric tests an error inside of
`if`, so false: `Space` chooses what was heard, and `TooSmall` looks at that only. `unread` are the disks
for which something was not heard. `PartitionsKept` holds for all others; `SpaceChecked`, the same
for all disks, is what the code's comment promises and the run flash_bootloader_unread refutes.

### BootConfig

The first part (`Decline`, `NewTable`, `Mkfs`, `FreeRoot`) is everything before the trap:
the warning of `EMMC_USE` and the question about a new partition table, each of which
ends the script with status 0 when it is declined; the table and the file system of a boot
medium without a first partition (a failure between the two leaves it `raw`, and no later run
makes up for that: its mount fails); and the unmount of a root that is
mounted elsewhere. `at` says what is mounted where, `stack` is `"$@"` (an entry stands for the device
and its directory, which are pushed and shifted together). `Cleaned` is the
function `cleanup`. `Fail` is `set -e` with the EXIT trap for a failure at any
command; `Term` is the INT and TERM trap: the function gets copies of the
positional parameters, so the shifts in it are forgotten, and the script goes on
after it. `PowerLoss` ends everything. The script never calls `sync`, so that a power loss may also take any part of
what was written to a file system that is still mounted, in any order: the copy (which becomes
`partial`; `torn` says that it was at stake), the new fstab (which is then the old one, the new
one, or without entries) and the initramfs. `FstabAfterCopy` therefore holds after a power loss
only from the umount of the new boot on: between `rsync` and that umount it may leave an fstab that names a
partition without the files. An fstab that names the new boot already, by its UUID or with another entry for the
root, is commented out and written again (`CommentFstab`). The conditions on `terms` in the properties
are exact: with one TERM the script can go on over the bare root directory,
and only its checks of the mounts it removes make it fail; a second TERM that
remounts `/boot` hides even that. `ClearLabel`, near the end, removes the label by
which a rescue system would be found.

### EncryptedDisk

`trap` is the trap in force, `Outcomes` what it does to the open mount, volume
group and LUKS device: a command of a trap that fails ends the trap (`set -e`).
After a TERM whose trap worked to the end the script goes on with its next command; after one
that did not, the EXIT trap runs as well. `open0` is what was open before: a
machine that already runs from an encrypted disk has a `reformvg` and a
`reform_crypt` of its own. `SwapFor` is the arithmetic of the swap size,
including the rounding of `printf "%.f"` to the even number. `RunBootConfig` succeeds,
fails, or ends with status 0 after a question of it was declined. In the last case the script
goes on and reports success over a system whose `/boot` has not moved;
`SuccessIsComplete` says so. It closes the disk in all three.

`ClosedAtEnd` names the one failure that leaves the disk open by itself: when the
mount of the new root fails, its trap begins with an `umount` that fails too.

### Monobar

The plugin runs in plymouth's event loop, so a handler is one action, with all it
calls; what is hard is the order of the calls, which is plymouth's (external) and
open. `tty[d]` is what display `d` shows: the set of things drawn since it was last
cleared, whether its progress bar is on, its cursor and its colours. The operators on one
view (`ViewShowPrompt`, `ViewStartAnimation`, ...) and on all of them (`RedrawViews`,
`ShowMessage`, ...) are the functions of the source with these names; `Animated` and `Stopped` are
`start_animation` and `stop_animation`, with their early returns. Rows, columns, the
geometry of the prompt and the width of the bar are left out.

No handler is taken to have an event loop unless the source asserts one. So the splash may be
hidden after the loop has exited, which leaves the animation running (`is_animating`), and a display added then is
drawn on although nothing is shown. `RemoveTextDisplay` frees the view and its bar and leaves
colours, cursor and contents on the display, as `remove_text_display` does; only a terminal that plymouth opens
anew is `Fresh` (`NewTerminal`, external). The history variable `leftover` names the displays of both
kinds until the next hide cleans them, and `Released` is about all others.

`BarFollows` names the one way in which the displays and the plugin disagree: a
second `show_splash_screen` for another mode under a running animation returns before
the views learn of it (`switched`). `PromptStays` names the other limit: a message
draws over a prompt.

## 3. The runs

| run | shows | bounds |
|---|---|---|
| sc_link | type, exclusion, whole numbers, in step, backlog, fresh answers, refinement | 2 threads, 2 calls, 2 tries each, `RxSz` 3, one empty byte to the timeout, four answers |
| sc_link_returns | every call returns (`FairSpec`) | as above, one answer; the bus may jam |
| sc_callers | registers settle, live driver data, power-off (`FairSpec`) | 1 user, suspend, power-off; 2 calls from outside (power-off not counted), 2 tries, 1 lost transmission, 2 waiting commands, 2 probes |
| power_daemon | decision, recorded settings, following (`FairSpec`) | 2 SSDs, 3 capacities, 4 statuses, 2 faults |
| power_daemon_ssds | **violated**: a second SSD is left out in low power | as above |
| lpc_driver | own answers, damage, plausible reports, power-off (`FairSpec`) | reader, probe, power-off; 4 handlers, 2 measurements, 2 firmwares, 1 fault |
| flash_bootloader | partitions where parted answered, success, boot0, and what may be written at all (mode, policies, image) | 5 machines, 25 command lines, 7 partition tables, 2 runs, 2 faults |
| flash_bootloader_unread | **violated**: a failing `parted` passes the space check | as above |
| boot_config | clean-up list, what is left at the end (mounts, LUKS), success, fstab after the copy | 2 signals, any loss of power |
| encrypted_disk | consent, swap, closing, the running system's volumes and files, success | 6 arguments, 5 memories, 5 disks, 2 signals |
| encrypted_disk_policy | **violated**: `EMMC_USE` is not honoured for the short-hand `emmc` | as above, no signal |
| monobar | prompt, agreement of the displays, console and displays given back | 3 displays, 1 message |

Why the bounds are enough:

- *ScLink*: two threads are needed for exclusion and for one thread to read
  another's answer; two calls of two tries make four transactions, so that
  two answers can be late and a third transaction begins in the middle of
  them. The answers are one of each branch of the parser: a number, a negative
  number (which `kstrtoull` refuses), one that fills `rxbuf`, one nested too
  deep. `RxSz`, `RxMaxDelay` and `MaxRetries` are constants of the module, and the
  proofs hold for all of them, and for both values of `MayJam`, which only sc_link_returns sets: a
  jammed bus delivers nothing, so that it matters to `CallReturns` alone. `MaxCalls` bounds the run only.
- *ScCallers*: a register is touched by at most two kinds of handlers, so that a user and
  the suspend make every overlap; two calls from outside are a setting and a
  suspend, or two settings in a row (the return from a suspend and the power-off need
  no event of their own); two tries and two waiting commands let a
  command be obeyed twice, and after its call gave up; two probes are a failed one
  and another, or a removal between. MCScCallers has a VIEW: TLC tells states apart
  without the numbers of the transmissions, the answers, and the command and tries of a
  thread outside a call. No guard, invariant or temporal formula of ScCallers
  reads them (the numbers are compared by `Take` only, which is not used), so states that
  agree on the view have the same behaviours.
- *PowerDaemon*: the capacities are on both sides of both limits; two faults
  allow a failing write and a kill in the same application; two SSDs tell
  `/dev/nvme0` from "every SSD".
- *LpcDriver*: one thread of each kind; the properties are about pairs. The handlers
  are one for each answer that is decoded, the three commands of `show_firmware`, and one that
  ignores errors; the bits that flip are the lowest and the one of the checksum; the others differ in the bytes they print. Only the last call's report is
  kept, since the properties relate it to nothing older. The measurements are one charging and
  one discharging with a gauge of 0; the
  firmwares lie at the two sides that matter for the checksum.
- *FlashBootloader*: the machines are the distinct combinations of the settings in
  `machines/*.conf`, and one with `EMMC_BOOT=false`; the tables put the first
  partition before, inside and behind the bootloader, and have each label that the script tells
  apart or another one. Two faults let `parted` fail for one answer and something else later, or in the second run.
- *BootConfig, EncryptedDisk*: the scripts have no loops over data; every command
  may fail in every state. Two signals are the least with which a clean-up
  meets its own results. A power loss needs no bound, since nothing follows it. Memories and disks lie around every rounding, the minimum
  of 4 GiB and the limit of 5%.
- *Monobar*: the loops treat every display alike, so that two displays show every
  disagreement, and the third one is there while both remain. The displays are
  symmetric, and the run has invariants only, for which symmetry is sound. Nothing
  in the plugin reads the text of a message. The proofs hold for any number of both.

Deadlock is not checked where the program may stop: the scripts end, and the models
of the two drivers end with the power off, or with no more calls from outside.

### Fairness

- *ScLink*: `WF` of each thread's steps inside the driver (kernel threads run), and
  `SF` of `Lock`: kernel mutexes queue their waiters and hand over. No fairness
  for the controller, which may never answer, nor for failing transfers. On a jammed
  bus nothing is promised.
- *PowerDaemon*: `WF` of the daemon's step and of `Restart` (systemd restarts after
  `RestartSec`), which is enabled only after an end that the unit takes for a failure. Reading before the next exchange of the module is not promised;
  exchanges are bounded by `MaxFaults`.
- *ScCallers*: a thread that has commands left issues them, transmits and returns
  (`WF`): that a call returns is `CallReturns` of ScLink, on a bus that does not jam, and that the kernel runs the handler
  is its scheduler. The controller obeys what has reached it. The number of
  lost transmissions is bounded, without which no power-off could be promised.
- *LpcDriver*: as ScLink; in addition the power-off handler, once entered, calls
  again, since its loop has no exit.
- The scripts and Monobar have safety properties only.

## 4. The proofs

ScLinkProofs proves, for every set of threads, commands and answers and all
limits (assumptions: `FramesAssumption`, an answer is one balanced list;
`ConstantsAssumption`, the limits are positive and `NoThread` is no thread; from
`Invariant` on also `OneListAssumption`, an answer has one innermost list, and for
`WholeValues` `BareListAssumption`, nothing stands beside that list):

- `TypeCorrect`: `Spec => []TypeOK`. The range of `tries` needs `RetryInv`: a
  thread about to send has a try left, and one inside a transaction has made one;
- `Exclusion`: `Spec => []OneTransaction`;
- `InOrder`: `Spec => []IInv`, the inductive invariant
  `TypeOK /\ RetryInv /\ OneTransaction /\ OrderInv /\ ReaderInv`. `OrderInv` says that
  the requests still to be served are strictly increasing and newer than the last one
  answered, and that the answer bytes on the wire never decrease, from the newest
  accepted answer to the last one given. `ReaderInv` relates the reader to that: what
  is in `rxbuf` is not older than the newest accepted answer and not newer than any byte still to be
  read, and the response buffer is empty while a call still tries. Neither is inductive
  alone: what a read accepts is in order because of the bytes before it, and the bytes
  stay in order because only one thread reads;
- `Refinement`: `Spec => ImplementsScCommand`, with the mapping `busy` (threads not idle),
  `sent` (`txn`) and `taken` (the transaction of the delivered value). `Send` is
  the abstract `Transmit`, an accepting `ReadClose` is `Take`, and all other
  reads, `Lock` and `Unlock` are stutters. `RetryInv` gives the bound on the tries, `IInv` the
  order of the answers taken;
- `Invariant`: `Spec => []WholeInv`, which adds four parts to `IInv`. `WireInv`: the bytes of
  one transaction on the wire are of one answer, in its order. `SpentInv`: what is left of an
  accepted answer opens no parenthesis, so that nobody takes anything of it, and what is in
  `rxbuf` is newer. `BacklogInv`: the requests waiting and the answers with an opening parenthesis to come are at
  most as many as the abandoned transactions, and one more while somebody reads; a reader inside a
  parenthesis has used one up, or is about to (`Begun`). `StepInv`: while nothing was abandoned the wire is
  empty between two transactions and has at most the rest of its own answer in one, and the read
  loop is at the depth of that answer;
- `NeverTwice` (`FreshAnswers`, an action property), `AnswersInStep` (`InStep`) and
  `OneLeftBehind` (`Backlog`), from it;
- `WholeValues` (`WholeNumber`): from `ValueInv`. `Linked`: on the wire each byte is followed by the
  next one of its answer, and only a last one by another answer or nothing. `LevelInv`: a read loop is never deeper than
  the answer it reads, since it begins at 0 and answers balance; and at depth 1
  (`Inside`) the next byte comes right after what is in `rxbuf`, and that right after a
  parenthesis, so that the closing one finds all that stood between the two.

Both assumptions are what `mnt-sc.c:356` takes for granted ("anything between open and closed
parentheses (the response value)"). For an answer like `((1)(2))` `NeverTwice` and
`OneLeftBehind` are false: a loop that begins inside of it could take `1`, and the next one `2`,
of the same answer. Of `(1(2)3)` the loop would make 13.

MonobarProofs proves, for every set of displays and messages (assumption:
`MonobarAssumption`, `NoMessage` is no message):

- `Invariant`: `Spec => []IInv` with `IInv` the conjunction of `TypeOK`, `LoopInv`, `OutsideClean`,
  `PromptStays`, `BarFollows` and `Released`. The properties are not inductive without the two
  others: `LoopInv` says that a plugin attached to the event loop has its splash shown, and that
  only a running animation can have missed a change of the mode; `OutsideClean`
  says that a display without a view that is not `leftover` has its own cursor, colours and an empty
  screen, which a display taken over by `AddTextDisplay` starts from;
- `TypeCorrect`, `PromptKept`, `BarsAgree`, `GivenBack`: the run's four invariants, from it.

Each action has a lemma, proved conjunct by conjunct from small lemmas on what the
view operators do to `screen`, `bar`, `cursor` and `themed`.

PowerDaemonProofs proves, for any capacities and statuses, any set of SSDs and any number of
faults (assumption: `PowerAssumption`, capacities are percentages, the three statuses the script
names exist, the SSDs are finitely many and `/dev/nvme0` is one):

- `TypeCorrect`, `TornReadHarmless` (`LowThroughout`) and `RecordedIsApplied`
  (`AppliedAsRecorded`), from `Invariant`: `Spec => []IInv`. Neither property is inductive.
  `LowThroughout` needs `RoundInv`: what the history says of the round still holds of the
  battery, and the status read is one it had in the round. `AppliedAsRecorded` needs
  `WritingInv`: in an application every setting it names is written, has failed, or is still
  on the list. That the rules for low and high exclude each other is a lemma (`LowWins`).

LpcDriverProofs proves, for any threads, handlers, measurements, firmwares and faults
(assumption: `LpcAssumption`, measurements are eight bytes with their checksum, versions eight digits,
a handler has at least one command, a flip is of one bit):

- `OwnAnswers` (`OwnAnswer`): from `Mutex` (who is between write and read holds the mutex),
  `Fresh` (before it has read a call has nothing of an earlier one) and `Answered` (the answer that
  waits for the holder is the one to its command, and what was read keeps being it,
  also after the mutex is released);
- `EveryFlipCaught` (`DamageCaught`, an action property), for the flip of any of the 64 bits: from
  `Parity`, answers are even and a buffer is even unless it is damaged, with a
  lemma on what one flip does to `EvenBits`;
- `Plausible` (`ReportPlausible`), for all bytes: from the ranges of the decoding
  operators and `Reported`; and `TypeCorrect`.

ScCallersProofs proves, for any users, reads, retries, probes and losses (assumption:
`CallersAssumption`, suspend and power-off are threads of their own, a read sends no command
that sets something):

- `DataLives` (`LiveData`): from `DataInv`, which says of every stage of `mntsc_probe` and
  `mntsc_remove` who may be inside a handler, and which errors leave files or the notifier behind;
- `SettlesAsAsked` (`Settled`): from `SettleInv`. As long as no two handlers of a register
  overlapped, everything that handlers still send to it is what it should hold (`Meant`),
  and so is the last command waiting for it or, with none waiting, the
  register itself (`Fits`). `ReadInv` keeps the files out of it: `Meant` would not
  survive a reader that sets something.

FlashBootloaderProofs proves, for any machines, command lines, partition tables, number of devices, of runs
and of faults (assumption: `FlashAssumption`, offsets and sizes are whole sectors and the part of the
image that is left out is smaller than the image):

- `NothingOverwritten` (`PartitionsKept`): from `SpaceInv`, which says how far the space check has
  come, and that every device written so far passed it: it has the space, or
  is one of those for which `parted` failed (`unread`);
- `StatusIsTrue` (`SuccessMeansFlashed`): from `FlashInv`, the devices before the current one hold
  what was asked for, except one that is at this moment written again under another name;
- `Boot0Protected` (`Boot0ReadOnly`): from `LockInv`, without a failure boot0 is writable
  only between `Unlock` and `Lock` of itself;
- `OnlyAllowedWrites` (`WritesAllowed`, an action property): from `PolicyInv`, no step after
  the policies without having passed them; and `TypeCorrect`.

BootConfigProofs proves, for any number of signals (assumption: `MaxTermsAssumption`, it is a number):

- `NothingUnlisted` (`ListCoversMounts`), `NothingLeftBehind` (`ClosedAtEnd`), `StatusIsTrue`
  (`SuccessIsComplete`), `CopiedBeforeNamed` (`FstabAfterCopy`) and `TypeCorrect`, from one
  `Invariant`: for every step, what is on the clean-up list (`StackInv`), what may
  be mounted (`MountInv`), and how far LUKS device (`CryptInv`), fstab and initramfs (`FstabInv`)
  have come. A TERM may come at any of these steps and the script then goes on after a clean-up, so each part
  has to hold over the result of every clean-up as well; what the copy is worth
  (`MoveInv`) holds only while the new partition is mounted, and only up to the second signal. What
  `cleanup` leaves of any list and table of mounts is a group of lemmas at the start.

EncryptedDiskProofs proves, for all memories, disks and numbers of signals (assumptions:
`SizesAssumption` and `MaxTermsAssumption`, they are numbers):

- `EraseIsAgreed` (`EraseAgreed`): from `AskInv`, what was asked before the disk is touched, which
  has to say it twice, of the step and of the disk, because signals end the script at any step;
- `SwapAlwaysFits` (`SwapFits`): from `AskInv` and `SwapForFacts`, a lemma about `SwapFor` for
  every memory and disk: the rounding never takes the swap over the limit;
- `TargetClosed` (`ClosedAtEnd`), `OldSystemKept` (`RunningSystemKept`) and `StatusIsTrue`
  (`SuccessIsComplete`): from `TrapInv` (the trap of each step), `OpenInv` (what is open at it),
  `OtherInv` (a `reformvg` of the running system is never taken for ours) and `DiskInv` (how far
  the disk has come). What each trap leaves open, whichever of its commands fails, is one lemma
  (`TrapLeaves`); and `TypeCorrect`.

Only model-checked:

- what `DateOf` computes, a fact by induction over data: the proofs need that it is some number;
- all liveness (`CallReturns`, `Follows`, `PowersOff` of both drivers), which with `ENABLED`
  is beyond the prover.

No module declares a `RECURSIVE` operator.

## 5. Findings

1. `libexec/reform-tools/reform-power-daemon:120`: the low power loop over the SSDs
   names `/dev/nvme0` in every round (power_daemon_ssds).
2. `bin/reform-flash-bootloader:326` (also 349 and 355): where `parted` fails in its pipe, the
   space check passes, and `dd` may write over the first partition (flash_bootloader_unread).
3. `bin/reform-setup-encrypted-disk:133`: `EMMC_USE` is tested before the short-hand
   `emmc` becomes a path (encrypted_disk_policy).

Smaller things seen while reading; those that the models reach are listed as hazards in
`PROJECT.json` with their lines.

- `system-controller/mnt-sc.c`: the read loop (362) counts empty bytes and what it keeps, so that
  any other byte that repeats outside one level of parentheses keeps the mutex for ever; `show_capacity` (571-581) uses a `ret` that it does not declare;
  `show_firmware` (558-568) reads its three answers into `str1` and prints `str2` and `str3`
  as they are; the pm notifier is registered even when the backlight could not be
  created; a failed probe leaves its files, over which the next probe fails; the gpio chip has
  five lines and six names; a driver that is removed between PM_SUSPEND_PREPARE and PM_POST_SUSPEND
  leaves the auxiliary rails off.
- Both drivers: a current out of range returns success without a value. In
  `lpc/reform2_lpc.c` `show_capacity` does not look at the result of its command.
- `libexec/reform-tools/reform-power-daemon`: it has no traps, and nothing starts it again after a
  SIGTERM from outside of systemd, nor where `sleep` fails (see PowerDaemon above).
- `plymouth/monobar.c`: `hide_splash_screen` (617) stops the animation only with an event loop; after the
  exit of the loop `is_animating` stays set. `remove_text_display` leaves the splash on the display.
- `bin/reform-boot-config` never calls `sync`: a power loss between the rewrite of the fstab (482) and
  the umount of the new boot (512) may leave an fstab without the files it points to.
- `bin/reform-boot-config` exits with 0 when the question about `EMMC_USE=warn` (175) or about the
  new partition table (219) is declined, and `bin/reform-setup-encrypted-disk` (366) then ends
  with "You can now reboot into your encrypted System". A failure between `parted` and `mkfs`
  leaves a first partition that later runs of `reform-boot-config` do not format and cannot mount.
- `bin/reform-flash-bootloader`: the second checksum test is an `echo` without its pipe. The usage
  text (20-22) says that `-i` implies `--offline`; the code of `-i` (60) sets the image only (that of
  `--image` sets both), so that `/boot/flash.bin` is downloaded all the same (`Offline` in FlashBootloader).
- `bin/reform-setup-encrypted-disk`: a failing mount leaves its volumes open. It ignores rsync's
  exit status 24, "which will inevitably happen when rsync-ing a running system" (340-342), and
  `bin/reform-migrate` (200) does not.
- `bin/reform-flash-rescue` (178-188) looks at the last command of its pipe only, so that a
  download that breaks off is noticed by `parted` or `e2fsck` at best.

## 6. Not modelled, and the plan

Not modelled: messages, wording, help texts; programs that are called (cryptsetup,
rsync, parted, dd, apt-helper) beyond succeeding, failing, or failing half way;
the firmware of the controllers beyond answering; memory layout (the nine bytes of
`LPC_RES_SZ` in buffers of eight, the buffers that callers without interest in an answer
share); `store_uart` of `mnt-sc.c`, which passes whatever root writes on to the controller, so
that no register's value could be promised; probe and removal of the LPC driver, which are those
of `mnt-sc.c` without a notifier; parts listed as `not_modelled` or `partly` in
`PROJECT.json`, each with its reason there. `bin/reform-migrate` is the middle of
`reform-setup-encrypted-disk` (mount, question, copy, unmount, `reform-boot-config`) under a trap of
one command: EncryptedDisk has every step of it, in another order and on its own volume only.
Signals without a trap (HUP, KILL, QUIT) are left out of BootConfig and EncryptedDisk, so that
their `ClosedAtEnd` is about ends, failures, INT and TERM.

Done, in this order: the command channel and its abstraction (most
concurrency, least testable), its proofs, the power daemon and the LPC driver
(the path of the battery state), the three scripts that write to boot media; then
the callers of the channel over its abstraction, all handlers of the LPC driver, the rest of
`reform-boot-config`, the boot screen with its proofs, and the proofs of the others.

Next, by importance:

1. `PowerBattery`: PowerDaemon with its `Battery` implemented by LpcDriver's reports
   (status, capacity), so that implausible and damaged answers reach the decision.
2. `bin/reform-migrate`, `bin/reform-flash-rescue` and `bin/reform-emmc-bootstrap`, which call
   the modelled scripts one after the other.
3. Proofs about these, along the same lines.

Each invariant is written as a conjunction of named parts, and parameters are constants with
named assumptions, so that the inductive strengthening can be checked by TLC before it is proved.
