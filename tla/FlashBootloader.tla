-------------------------- MODULE FlashBootloader --------------------------
(***************************************************************************)
(* bin/reform-flash-bootloader: options, the eMMC and SD-card policies of  *)
(* machines/*.conf, the download and the checksum of /boot/flash.bin, the  *)
(* space checks of all devices, the questions to the user, and per device: *)
(* compare, make boot0 writable, write, make it read-only, read back.      *)
(* The script may fail or be killed between any two steps and be run again *)
(* with the same arguments.                                                *)
(***************************************************************************)
EXTENDS Integers, Sequences, FiniteSets

CONSTANTS
  Machines,    \* settings of machines/*.conf: [boot0, off, head, emmcBoot,
               \* sdBoot, nvmeFirst, mhdp]
  Invocations, \* command lines: options and the sequence args of devices
  Layouts,     \* partition tables: [label, first], first -1 without partition
  Size,        \* size of the image in bytes
  MaxRuns,     \* bound on the number of runs
  MaxFaults    \* bound on failures and kills

\* How a device can be named: a short-hand, its name in /dev, or another path
\* to it, a link below /dev/disk.
Args == {"emmc", "/dev/mmc", "sd", "/dev/sd", "/dev/usb", "alias of mmc"}
Disks == {"mmc", "boot0", "sd", "usb"}
Contents == {"old", "latest", "custom", "zero", "broken"}
Labels == {"unknown", "gpt", "msdos", "other"}
\* What the space check asks parted for.  (The number of partitions, asked for
\* in between, decides nothing that the start of the first does not.)
Queries == {"label", "start"}

ASSUME FlashAssumption ==
  /\ Size \in Nat \ {0} /\ Size % 512 = 0
  /\ \A m \in Machines : /\ m.off \in Nat /\ m.off % 512 = 0
                        /\ m.head \in 0..(Size - 1) /\ m.head % 512 = 0
  /\ \A v \in Invocations : v.args \in Seq(Args)
  /\ Layouts \subseteq [label : Labels, first : Nat \cup {-1}]
  /\ \A l \in Layouts : l.label = "unknown" => l.first = -1
  /\ MaxRuns \in Nat \ {0} /\ MaxFaults \in Nat

VARIABLES
  machine,     \* the machine config that is loaded
  inv,         \* the command line
  pc,          \* the part of the script that runs
  i,           \* the device of "$@" a loop is at
  status,      \* exit status
  flashbin,    \* /boot/flash.bin: missing, stale (wrong checksum) or latest
  mhdp,        \* /boot/ls1028a-mhdpfw.bin: missing, stale or latest
  disk,        \* per disk its table, and what is where the bootloader goes
  ro,          \* force_ro of boot0
  declined,    \* history: the user did not answer y
  agreed,      \* history: the user was asked about the eMMC and answered y
  written,     \* history: disks written to in this run
  unread,      \* history: disks for which parted failed in this run
  runs, faults

hist == <<declined, agreed, written, unread, runs>>
vars == <<machine, inv, pc, i, status, flashbin, mhdp, disk, ro, declined,
          agreed, written, unread, runs, faults>>

Fault == faults < MaxFaults /\ faults' = faults + 1
Go(from, to) == pc = from /\ pc' = to
Exit(code) == pc' = "done" /\ status' = code

-----------------------------------------------------------------------------
\* With --machine DEV_MMC is a name no device has.
NamesEmmc(a) == a = "emmc" \/ (a = "/dev/mmc" /\ ~inv.machine)
OnBoot0(a) == NamesEmmc(a) /\ machine.boot0

Real(a) ==
  IF OnBoot0(a) THEN "boot0"
  ELSE IF a \in {"sd", "/dev/sd"} THEN "sd"
  ELSE IF a = "/dev/usb" THEN "usb"
  ELSE "mmc"

\* What the bootloader's place should hold in the end.
Wanted == IF inv.zero THEN "zero" ELSE IF inv.image # "" THEN "custom" ELSE "latest"

\* --offline, and the options that imply it; -i does not.
Offline == inv.offline \/ inv.machine \/ inv.image = "--image"

\* The checks of --machine and of EMMC_BOOT and SD_BOOT.
Refused ==
  \/ inv.machine /\ inv.image = ""
  \/ \E k \in DOMAIN inv.args :
       LET a == inv.args[k]
       IN  \/ inv.machine /\ a \in {"/dev/mmc", "sd", "emmc"}
           \/ NamesEmmc(a) /\ machine.emmcBoot = "false"
           \/ a \in {"sd", "/dev/sd"} /\ ~machine.sdBoot

\* The bytes dd writes on a disk, and the end the space check computes.
Start == machine.off
End == machine.off + Size - machine.head

\* Mutant of TooSmall: the offset is forgotten.
TooSmallForAny(d, heard) ==
  \/ "label" \in heard /\ disk[d].label = "msdos" /\ Start < 512
  \/ "label" \in heard /\ disk[d].label = "gpt" /\ Start < 17408
  \/ "start" \in heard /\ disk[d].first >= 0
       /\ Size - machine.head >= disk[d].first

\* What the check finds on d, with the answers that were heard.  A parted that
\* fails in its pipe leaves an empty string (there is no pipefail): no table,
\* or a test that is an error and so false.
TooSmall(d, heard) ==
  \/ "label" \in heard /\ disk[d].label = "msdos" /\ Start < 512
  \/ "label" \in heard /\ disk[d].label = "gpt" /\ Start < 17408
  \/ "start" \in heard /\ disk[d].first >= 0 /\ End >= disk[d].first

-----------------------------------------------------------------------------
Init ==
  /\ machine \in Machines
  /\ inv \in Invocations
  /\ pc = "policy" /\ i = 1 /\ status = 0
  /\ flashbin \in {"missing", "stale", "latest"}
  /\ mhdp \in IF machine.mhdp THEN {"missing", "stale", "latest"} ELSE {"missing"}
  /\ \E lay \in Layouts, has \in {"old", "latest"} :
       disk = [d \in Disks |->
                 IF d = "boot0"
                 THEN [label |-> "unknown", first |-> -1, has |-> has]
                 ELSE [label |-> lay.label, first |-> lay.first, has |-> has]]
  /\ ro = TRUE
  /\ declined = FALSE /\ agreed = FALSE /\ written = {} /\ unread = {}
  /\ runs = 1 /\ faults = 0

\* Policies, then --check of /boot/flash.bin.  The test of the other firmware
\* is an echo without the pipe to sha1sum: always true.
Policy ==
  /\ pc = "policy"
  /\ IF Refused \/ (inv.check /\ flashbin # "latest")
     THEN Exit(1)
     ELSE Go("policy", "fetch") /\ UNCHANGED status
  /\ UNCHANGED <<machine, inv, i, flashbin, mhdp, disk, ro, hist, faults>>

\* Unless offline, /boot/flash.bin is downloaded when its checksum is wrong.
Fetch ==
  /\ pc = "fetch"
  /\ \/ /\ Offline \/ flashbin = "latest"
        /\ Go("fetch", "image")
        /\ UNCHANGED <<status, flashbin, faults>>
     \/ /\ ~Offline /\ flashbin # "latest"
        /\ flashbin' = "latest"
        /\ Go("fetch", "image")
        /\ UNCHANGED <<status, faults>>
     \/ /\ ~Offline /\ flashbin # "latest"
        /\ Fault
        /\ Exit(1)
        /\ UNCHANGED flashbin
  /\ UNCHANGED <<machine, inv, i, mhdp, disk, ro, hist>>

\* Without a device there is nothing to flash; without --image flash.bin must
\* have the right checksum.
Image ==
  /\ pc = "image"
  /\ IF inv.args = <<>> THEN Exit(0)
     ELSE IF inv.image = "" /\ flashbin # "latest" THEN Exit(1)
     ELSE Go("image", "space") /\ UNCHANGED status
  /\ UNCHANGED <<machine, inv, i, flashbin, mhdp, disk, ro, hist, faults>>

\* The space check goes on to the next device, or is over.
NextCheck ==
  /\ i' = IF i = Len(inv.args) THEN 1 ELSE i + 1
  /\ pc' = IF i = Len(inv.args) THEN "ask" ELSE "space"
  /\ UNCHANGED status

\* The space check of device i; boot0 has no partitions and no check.  (All
\* devices are there: a missing one ends the script as Kill does, or is passed
\* over with --dry-run.)
Space ==
  /\ pc = "space"
  /\ LET d == Real(inv.args[i])
     IN  \/ /\ OnBoot0(inv.args[i])
            /\ NextCheck /\ UNCHANGED <<unread, faults>>
         \/ /\ ~OnBoot0(inv.args[i])
            /\ \E heard \in SUBSET Queries :
                 /\ IF heard = Queries THEN UNCHANGED <<unread, faults>>
                    ELSE Fault /\ unread' = unread \cup {d}
                 /\ IF TooSmall(d, heard) THEN Exit(1) /\ UNCHANGED i ELSE NextCheck
  /\ UNCHANGED <<machine, inv, flashbin, mhdp, disk, ro, declined, agreed,
                 written, runs>>

AsksNvme == machine.nvmeFirst /\ ~inv.zero /\ ~inv.check
AsksEmmc ==
  /\ machine.emmcBoot = "warn" /\ ~inv.force /\ ~inv.check
  /\ \E k \in DOMAIN inv.args : NamesEmmc(inv.args[k])

\* Mutant of Ask: the user's answer is not looked at.
AskAnyway ==
  /\ Go("ask", "compare")
  /\ UNCHANGED <<machine, inv, i, flashbin, mhdp, disk, ro, hist, status, faults>>

\* The warnings about NVMe boot order and about the eMMC; any answer but y
\* ends the script with status 0.
Ask ==
  /\ pc = "ask"
  /\ \/ /\ AsksEmmc => inv.dryrun
        /\ pc' = "compare"
        /\ UNCHANGED <<status, declined, agreed>>
     \/ /\ AsksEmmc /\ ~inv.dryrun
        /\ agreed' = TRUE
        /\ pc' = "compare"
        /\ UNCHANGED <<status, declined>>
     \/ /\ AsksEmmc \/ (AsksNvme /\ ~inv.force)
        /\ ~inv.dryrun
        /\ declined' = TRUE
        /\ Exit(0)
        /\ UNCHANGED agreed
  /\ UNCHANGED <<machine, inv, i, flashbin, mhdp, disk, ro, written, unread,
                 runs, faults>>

Device == inv.args[i]

\* Mutant of NextDevice: off by one.
NextDeviceLate ==
  IF i > Len(inv.args) THEN Exit(0) /\ UNCHANGED i
  ELSE i' = i + 1 /\ pc' = "compare" /\ UNCHANGED status

\* On to the next device, or to the end of the script.
NextDevice ==
  IF i = Len(inv.args) THEN Exit(0) /\ UNCHANGED i
  ELSE i' = i + 1 /\ pc' = "compare" /\ UNCHANGED status

\* Mutant of Compare: --force goes before --check.
CompareForceFirst ==
  /\ pc = "compare"
  /\ IF disk[Real(Device)].has = Wanted /\ ~inv.force
     THEN NextDevice
     ELSE IF inv.check /\ ~inv.force THEN Exit(1) /\ UNCHANGED i
     ELSE IF inv.dryrun THEN NextDevice
     ELSE pc' = "unlock" /\ UNCHANGED <<i, status>>
  /\ UNCHANGED <<machine, inv, flashbin, mhdp, disk, ro, hist, faults>>

\* The expected contents are there already, or not.
Compare ==
  /\ pc = "compare"
  /\ IF disk[Real(Device)].has = Wanted /\ (inv.check \/ ~inv.force)
     THEN NextDevice
     ELSE IF inv.check THEN Exit(1) /\ UNCHANGED i
     ELSE IF inv.dryrun THEN NextDevice
     ELSE pc' = "unlock" /\ UNCHANGED <<i, status>>
  /\ UNCHANGED <<machine, inv, flashbin, mhdp, disk, ro, hist, faults>>

\* boot0 is made writable.
Unlock ==
  /\ Go("unlock", "write")
  /\ ro' = (ro /\ ~OnBoot0(Device))
  /\ UNCHANGED <<machine, inv, i, status, flashbin, mhdp, disk, hist, faults>>

\* dd writes everything, or something else without a notice, or fails (set -e).
Write ==
  /\ pc = "write"
  /\ \E c \in {Wanted, "broken"} :
       /\ disk' = [disk EXCEPT ![Real(Device)].has = c]
       /\ IF c = Wanted
          THEN pc' = "lock" /\ UNCHANGED <<status, faults>>
          ELSE Fault /\ (Exit(1) \/ (pc' = "lock" /\ UNCHANGED status))
  /\ written' = written \cup {Real(Device)}
  /\ UNCHANGED <<machine, inv, i, flashbin, mhdp, ro, declined, agreed, unread,
                 runs>>

\* Mutant of Lock: boot0 stays writable.
LockNot ==
  /\ Go("lock", "verify")
  /\ UNCHANGED <<machine, inv, i, status, flashbin, mhdp, disk, ro, hist, faults>>

\* boot0 is made read-only again.
Lock ==
  /\ Go("lock", "verify")
  /\ ro' = (ro \/ OnBoot0(Device))
  /\ UNCHANGED <<machine, inv, i, status, flashbin, mhdp, disk, hist, faults>>

\* Mutant of Verify: nothing is read back.
VerifyNot ==
  /\ pc = "verify"
  /\ NextDevice
  /\ UNCHANGED <<machine, inv, flashbin, mhdp, disk, ro, hist, faults>>

\* What was written is read back and compared.  For flash.bin also with the
\* checksum: where FLASHBIN_OFFSET is not zero the file compared has a hole
\* at its beginning, so the checksum may fail on the right contents.
Verify ==
  /\ pc = "verify"
  /\ IF disk[Real(Device)].has # Wanted THEN Exit(1) /\ UNCHANGED i
     ELSE \/ NextDevice
          \/ /\ inv.image = "" /\ ~inv.zero /\ machine.head > 0
             /\ Exit(1) /\ UNCHANGED i
  /\ UNCHANGED <<machine, inv, flashbin, mhdp, disk, ro, hist, faults>>

\* The script is killed; a running dd leaves a part of its work.
Kill ==
  /\ pc # "done"
  /\ Fault
  /\ Exit(1)
  /\ IF pc = "write"
     THEN \/ UNCHANGED <<disk, written>>
          \/ /\ disk' = [disk EXCEPT ![Real(Device)].has = "broken"]
             /\ written' = written \cup {Real(Device)}
     ELSE UNCHANGED <<disk, written>>
  /\ UNCHANGED <<machine, inv, i, flashbin, mhdp, ro, declined, agreed, unread,
                 runs>>

\* The same command is run again.
Again ==
  /\ Go("done", "policy")
  /\ runs < MaxRuns
  /\ runs' = runs + 1
  /\ i' = 1 /\ status' = 0
  /\ declined' = FALSE /\ agreed' = FALSE
  /\ written' = {} /\ unread' = {}
  /\ UNCHANGED <<machine, inv, flashbin, mhdp, disk, ro, faults>>

Next ==
  \/ Policy \/ Fetch \/ Image \/ Space \/ Ask
  \/ Compare \/ Unlock \/ Write \/ Lock \/ Verify
  \/ Kill \/ Again

Spec == Init /\ [][Next]_vars

-----------------------------------------------------------------------------
\* Types of all variables.
TypeOK ==
  /\ machine \in Machines /\ inv \in Invocations
  /\ pc \in {"policy", "fetch", "image", "space", "ask", "compare", "unlock",
             "write", "lock", "verify", "done"}
  /\ i \in 1..(Len(inv.args) + 1)
  /\ (pc \in {"space", "compare", "unlock", "write", "lock", "verify"})
       => i \in DOMAIN inv.args
  /\ status \in {0, 1}
  /\ flashbin \in {"missing", "stale", "latest"}
  /\ mhdp \in {"missing", "stale", "latest"}
  /\ disk \in [Disks -> [label : Labels, first : Nat \cup {-1}, has : Contents]]
  /\ ro \in BOOLEAN /\ declined \in BOOLEAN /\ agreed \in BOOLEAN
  /\ written \subseteq Disks /\ unread \subseteq Disks
  /\ runs \in 1..MaxRuns /\ faults \in 0..MaxFaults

Overwrites(d) ==
  /\ d # "boot0"
  /\ \/ disk[d].label = "msdos" /\ Start < 512
     \/ disk[d].label = "gpt" /\ Start < 34 * 512
     \/ disk[d].first >= 0 /\ disk[d].first < End

\* The bootloader never goes over an MBR or a GPT and never beyond the start
\* of the first partition, on any device and under any of its names, whatever
\* the machine's offsets are, if parted answered for the device in this run.
PartitionsKept == \A d \in written \ unread : ~Overwrites(d)

NamedPlainly == \A k \in DOMAIN inv.args : inv.args[k] # "alias of mmc"

\* Status 0 means that every device holds what was asked for, read back from
\* the device, even after an earlier run was killed in the middle of dd; the
\* exceptions are --dry-run and a user who did not agree.
SuccessMeansFlashed ==
  pc = "done" /\ status = 0 /\ ~declined /\ ~inv.dryrun =>
    \A k \in DOMAIN inv.args : disk[Real(inv.args[k])].has = Wanted

\* boot0 is read-only whenever the script is not running, unless a write
\* failed or the script was killed: nothing restores force_ro then.
Boot0ReadOnly == pc \in {"policy", "done"} /\ ~ro => faults > 0

EmmcAllowed ==
  /\ ~inv.machine
  /\ machine.emmcBoot # "false"
  /\ machine.emmcBoot = "warn" => inv.force \/ agreed

\* A step writes only what options, policy and image allow: --check and
\* --dry-run touch no device and --check downloads nothing; without --image a
\* device gets a flash.bin with the right checksum; and the eMMC, named by its
\* short-hand or in /dev, is not written where EMMC_BOOT=false or --machine
\* forbid it, nor where it is "warn" without --force or the user's consent.
WritesAllowed ==
  [][/\ inv.check \/ inv.dryrun => UNCHANGED <<disk, ro>>
     /\ inv.check => UNCHANGED <<flashbin, mhdp>>
     /\ \A d \in written' \ written :
          /\ Wanted = "latest" => flashbin = "latest"
          /\ d \in {"mmc", "boot0"} /\ NamedPlainly => EmmcAllowed]_vars

\* A device is written only after it was found to have enough free space at
\* its beginning, also where parted failed.
SpaceChecked == \A d \in written : ~Overwrites(d)
=============================================================================
