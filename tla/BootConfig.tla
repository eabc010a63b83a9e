----------------------------- MODULE BootConfig -----------------------------
(***************************************************************************)
(* bin/reform-boot-config: the boot partition moves to the SD-card or the  *)
(* eMMC ("newboot") for a root file system that is either the running one  *)
(* or mounted for the purpose, possibly from an encrypted disk.  What is   *)
(* mounted on the way is pushed on the positional parameters, which the    *)
(* trap of EXIT, INT and TERM cleans up; after a TERM the script goes on.  *)
(* Every step may fail, a TERM may come before every step, and the machine *)
(* may lose power, and with it what no umount has written to a disk: the   *)
(* script never calls sync.                                                *)
(***************************************************************************)
EXTENDS Integers, Sequences, SequencesExt

CONSTANTS
  MaxTerms     \* bound on the signals of a run

ASSUME MaxTermsAssumption == MaxTerms \in Nat

Points == {"/boot", "/media", "/mnt", "root", "root/boot", "old", "binds"}
Boots == {"newboot", "oldboot"}

VARIABLES
  running,     \* the chosen root is /
  luks,        \* the chosen root is on an encrypted disk the script opens
  copy,        \* COPY_OLDBOOT
  pc,
  at,          \* what is mounted at each mount point, "" for nothing
  crypt,       \* reform_crypt and its volume group: open or closed
  stack,       \* "$@": what cleanup has to unmount, first entry first
  fstab,       \* the /boot entry of the root's fstab, "none" without entries
  has,         \* the files of the boot partitions: own, blank, copied, or
               \* partial: any part of the copy
  part,        \* the first partition of the boot medium: absent, raw (without
               \* a file system) or ready
  label,       \* it has the label of a rescue system
  initrd,      \* partitions with a new initramfs, "root" without one mounted
  status,      \* exit status, -1 while running
  fstab0, crypt0, \* history: the fstab and the encrypted disk at the start
  terms,       \* history: signals so far
  stuck,       \* history: an umount of the script, or closing the disk, failed
  torn,        \* history: the machine lost power with the new boot mounted
  declined     \* history: one of the first questions was not answered with y

startVars == <<running, luks, copy, fstab0, crypt0>>
medium == <<part, label>>
diskVars == <<fstab, has, initrd, medium>>
vars == <<startVars, pc, at, crypt, stack, diskVars, status, terms, stuck, torn,
          declined>>

BootDir == IF running THEN "/boot" ELSE "root/boot"
RootThere == running \/ at["root"] = "root"
OldBoot == fstab   \* OLDBOOTPART, read from the fstab before it is changed

Go(from, to) == pc = from /\ pc' = to /\ status' = status
Script == <<startVars, terms, stuck, torn, declined>>

-----------------------------------------------------------------------------
\* A device is unmounted wherever it is; a busy one stays.
Busy(m, p) == p = "root" /\ (m["root/boot"] # "" \/ m["binds"] # "")

Umount(m, entry) ==
  IF entry = "boot" THEN [p \in Points |-> IF m[p] = "newboot" THEN "" ELSE m[p]]
  ELSE IF Busy(m, entry) THEN m
  ELSE [m EXCEPT ![entry] = ""]

\* The loop of cleanup over its list s, which never has more than three entries.
Unmounted(m, s) ==
  LET one == IF Len(s) > 0 THEN Umount(m, s[1]) ELSE m
      two == IF Len(s) > 1 THEN Umount(one, s[2]) ELSE one
  IN  IF Len(s) > 2 THEN Umount(two, s[3]) ELSE two

\* mount /boot, as the running system's fstab says.
MountBoot(m) ==
  IF fstab \in Boots /\ (fstab = "newboot" => part = "ready")
  THEN [m EXCEPT !["/boot"] = fstab] ELSE m

\* Mutant of Cleaned: only the first entry of the list is cleaned up.
CleanedFirst ==
  LET m == IF stack = <<>> THEN at ELSE Umount(at, Head(stack))
  IN  IF running THEN MountBoot(m) ELSE m

\* cleanup: the whole list, first entry first, then /boot again.
Cleaned ==
  LET m == Unmounted(at, stack)
  IN  IF running THEN MountBoot(m) ELSE m

\* reform_crypt can be closed when its root is mounted nowhere.
CryptAfter(m) ==
  IF ~running /\ luks /\ (\A p \in Points : m[p] # "root") THEN "closed"
  ELSE crypt

CleanedCrypt == CryptAfter(Cleaned)

Cleanup == at' = Cleaned /\ crypt' = CleanedCrypt

-----------------------------------------------------------------------------
Init ==
  /\ running \in BOOLEAN /\ luks \in BOOLEAN /\ copy \in BOOLEAN
  /\ pc = "ask" /\ status = -1
  /\ fstab \in Boots \cup {"none"}
  /\ part \in {"absent", "raw", "ready"}
  /\ label \in BOOLEAN /\ (label => part = "ready")
  /\ crypt \in {"closed", "open"}
  /\ crypt = "open" => luks /\ ~running
  /\ \E b \in Boots \cup {""}, m \in Boots \cup {""}, r \in {"root", ""} :
       /\ b # m \/ b = ""
       /\ part # "ready" => "newboot" \notin {b, m}
       /\ r = "root" => ~running /\ (luks => crypt = "open")
       /\ at = [p \in Points |-> IF p = "/boot" THEN b ELSE IF p = "/media" THEN m
                                 ELSE IF p = "/mnt" THEN r ELSE ""]
  /\ stack = <<>>
  /\ has = [d \in Boots |-> "own"]
  /\ initrd = {}
  /\ fstab0 = fstab /\ crypt0 = crypt
  /\ terms = 0 /\ stuck = FALSE /\ torn = FALSE /\ declined = FALSE

\* Another answer than y to the warning of EMMC_USE, or to the question whether
\* the boot medium may get a new partition table: exit, with status 0.
Decline ==
  /\ pc = "ask"
  /\ pc' = "done" /\ status' = 0 /\ declined' = TRUE
  /\ UNCHANGED <<startVars, at, crypt, stack, diskVars, terms, stuck, torn>>

\* Without a first partition the boot medium gets a new table of two, if it is
\* not in use (an exclusive lock; otherwise the script fails).
NewTable ==
  /\ Go("ask", IF part = "absent" THEN "mkfs" ELSE "unmount")
  /\ part' = IF part = "absent" THEN "raw" ELSE part
  /\ UNCHANGED <<at, crypt, stack, label, has, fstab, initrd, Script>>

Mkfs ==
  /\ Go("mkfs", "unmount")
  /\ part' = "ready"
  /\ has' = [has EXCEPT !["newboot"] = "blank"]
  /\ UNCHANGED <<at, crypt, stack, label, fstab, initrd, Script>>

\* A root that is mounted elsewhere is unmounted, if the user agrees.
FreeRoot ==
  /\ Go("unmount", "luks")
  /\ at' = [at EXCEPT !["/mnt"] = ""]
  /\ UNCHANGED <<crypt, stack, diskVars, Script>>

\* cryptsetup luksOpen and vgchange -ay; an open reform_crypt is an error.
OpenRoot ==
  /\ Go("luks", "root")
  /\ (~running /\ luks) => crypt = "closed"
  /\ crypt' = IF ~running /\ luks THEN "open" ELSE crypt
  /\ UNCHANGED <<at, stack, diskVars, Script>>

\* Mutant of MountRoot: the entries are pushed after the mount, too late.
MountRootUnlisted ==
  /\ Go("root", "free")
  /\ at' = IF running THEN at ELSE [at EXCEPT !["root"] = "root"]
  /\ UNCHANGED <<crypt, stack, diskVars, Script>>

\* Mutant of MountRoot: another type of entry on the list.
MountRootByDevice ==
  /\ Go("root", "free")
  /\ IF running THEN UNCHANGED <<at, stack>>
     ELSE /\ stack' = <<"/dev">> \o stack
          /\ at' = [at EXCEPT !["root"] = "root"]
  /\ UNCHANGED <<crypt, diskVars, Script>>

\* The root is mounted on a temporary directory unless it is the running one.
MountRoot ==
  /\ Go("root", "free")
  /\ (~running /\ luks) => crypt = "open"
  /\ IF running THEN UNCHANGED <<at, stack>>
     ELSE /\ stack' = <<"root">> \o stack
          /\ at' = [at EXCEPT !["root"] = "root"]
  /\ UNCHANGED <<crypt, diskVars, Script>>

\* The new boot partition is unmounted wherever it is, and whatever is mounted
\* on the root's /boot too, if the user agrees (otherwise the script fails).
FreeBoot ==
  /\ Go("free", "boot")
  /\ RootThere
  /\ at' = [Umount(at, "boot") EXCEPT ![BootDir] = ""]
  /\ UNCHANGED <<crypt, stack, diskVars, Script>>

MountNewBoot ==
  /\ Go("boot", "old")
  /\ RootThere /\ part = "ready"
  /\ stack' = <<"boot">> \o stack
  /\ at' = [at EXCEPT ![BootDir] = "newboot"]
  /\ UNCHANGED <<crypt, diskVars, Script>>

\* Mutant of MountOld: the fstab is changed without the copy.
MountOldNoCopy ==
  /\ Go("old", "fstab")
  /\ UNCHANGED <<at, stack, crypt, diskVars, Script>>

\* The old boot partition is mounted if it is not yet, to be copied.  (Without
\* a /boot in the fstab, or without the user's consent, the script fails.)
MountOld ==
  /\ pc = "old" /\ UNCHANGED status
  /\ IF ~copy \/ OldBoot = "newboot"
     THEN pc' = "fstab" /\ UNCHANGED <<at, stack>>
     ELSE /\ OldBoot = "oldboot" /\ RootThere
          /\ pc' = "rsync"
          /\ IF \E p \in Points : at[p] = "oldboot" THEN UNCHANGED <<at, stack>>
             ELSE /\ stack' = <<"old">> \o stack
                  /\ at' = [at EXCEPT !["old"] = "oldboot"]
  /\ UNCHANGED <<crypt, diskVars, Script>>

\* rsync from the old to what is mounted on the root's /boot.
Rsync ==
  /\ Go("rsync", "oldaway")
  /\ RootThere
  /\ \E p \in Points : at[p] = "oldboot" /\ (p = "old" \/ "old" \notin ToSet(stack))
  /\ has' = IF at[BootDir] = "newboot" THEN [has EXCEPT !["newboot"] = "copied"]
            ELSE has
  /\ UNCHANGED <<at, crypt, stack, fstab, initrd, medium, Script>>

\* shift && umount: the first entry, if it is the one expected.
Pop(entry) ==
  IF stack # <<>> /\ Head(stack) = entry
  THEN stack' = Tail(stack) /\ at' = Umount(at, entry)
  ELSE UNCHANGED <<stack, at>>

UmountOld ==
  /\ Go("oldaway", "fstab")
  /\ IF "old" \in ToSet(stack) THEN at["old"] # "" /\ Pop("old")
     ELSE UNCHANGED <<stack, at>>
  /\ UNCHANGED <<crypt, diskVars, Script>>

\* Every line of the fstab becomes a comment, unless it has the right entries
\* already.  One that names the new boot by its UUID, or another root, has not.
CommentFstab ==
  /\ pc = "fstab" /\ UNCHANGED status
  /\ RootThere
  /\ \/ fstab = "newboot" /\ pc' = "bind" /\ UNCHANGED fstab
     \/ pc' = "append" /\ fstab' = "none"
  /\ UNCHANGED <<at, crypt, stack, has, initrd, medium, Script>>

\* The new entries are appended (also where the directory is not mounted any
\* more: that fails).
AppendFstab ==
  /\ Go("append", "bind")
  /\ RootThere
  /\ fstab' = "newboot"
  /\ UNCHANGED <<at, crypt, stack, has, initrd, medium, Script>>

\* /dev, /sys and /proc, for a root that is not the running one.
BindMounts ==
  /\ Go("bind", "initramfs")
  /\ RootThere
  /\ IF running THEN UNCHANGED <<at, stack>>
     ELSE /\ stack' = <<"binds">> \o stack
          /\ at' = [at EXCEPT !["binds"] = "binds"]
  /\ UNCHANGED <<crypt, diskVars, Script>>

\* update-initramfs writes to what is mounted on the root's /boot.
Initramfs ==
  /\ Go("initramfs", "unbind")
  /\ running \/ (RootThere /\ at["binds"] # "")
  /\ initrd' = initrd \cup {IF at[BootDir] = "" THEN "root" ELSE at[BootDir]}
  /\ UNCHANGED <<at, crypt, stack, fstab, has, medium, Script>>

Unbind ==
  /\ Go("unbind", "bootaway")
  /\ IF running THEN UNCHANGED <<stack, at>>
     ELSE at["binds"] # "" /\ Pop("binds")
  /\ UNCHANGED <<crypt, diskVars, Script>>

\* Mutant of UmountBoot: its own umount is not looked at.
UmountBootCareless ==
  /\ Go("bootaway", "rootaway")
  /\ Pop("boot")
  /\ UNCHANGED <<crypt, diskVars, Script>>

UmountBoot ==
  /\ Go("bootaway", "rootaway")
  /\ \E p \in Points : at[p] = "newboot"
  /\ Pop("boot")
  /\ UNCHANGED <<crypt, diskVars, Script>>

\* The root is unmounted, the list is empty, and the trap is removed.
UmountRoot ==
  /\ Go("rootaway", "close")
  /\ IF running THEN UNCHANGED <<stack, at>>
     ELSE at["root"] # "" /\ Pop("root")
  /\ stack' = <<>>
  /\ UNCHANGED <<crypt, diskVars, Script>>

CloseRoot ==
  /\ Go("close", "label")
  /\ (~running /\ luks) => crypt = "open"
  /\ crypt' = IF ~running /\ luks THEN "closed" ELSE crypt
  /\ UNCHANGED <<at, stack, diskVars, Script>>

\* The partition must not be taken for the one of a rescue system.
ClearLabel ==
  /\ Go("label", "again")
  /\ label' = FALSE
  /\ UNCHANGED <<at, crypt, stack, part, has, fstab, initrd, Script>>

\* mount /boot, and the end.
MountAgain ==
  /\ pc = "again"
  /\ at' = IF running THEN MountBoot(at) ELSE at
  /\ pc' = "done" /\ status' = 0
  /\ UNCHANGED <<crypt, stack, diskVars, Script>>

Trapped == pc \notin {"ask", "mkfs", "close", "label", "again", "done"}

\* What a command does that does not come to its end.
Halfway ==
  \/ UNCHANGED <<has, medium>>
  \/ /\ pc = "rsync" /\ at[BootDir] = "newboot"
     /\ has' = [has EXCEPT !["newboot"] = "partial"]
     /\ UNCHANGED medium
  \/ /\ pc = "ask" /\ part = "absent"
     /\ part' = "raw"
     /\ UNCHANGED <<has, label>>

\* A command fails, or a question is not answered with y: set -e, and the trap.
\* rsync may have copied a part; a failing umount was shifted off the list.
Fail ==
  /\ pc # "done"
  /\ pc' = "done" /\ status' = 1
  /\ \/ stack' = stack /\ stuck' = (stuck \/ pc = "close")
        /\ IF Trapped THEN Cleanup ELSE UNCHANGED <<at, crypt>>
     \/ /\ stack # <<>> /\ <<pc, Head(stack)>> \in
             {<<"oldaway", "old">>, <<"unbind", "binds">>,
              <<"bootaway", "boot">>, <<"rootaway", "root">>}
        /\ stack' = Tail(stack) /\ stuck' = TRUE
        /\ at' = LET m == Unmounted(at, stack')
                 IN  IF running THEN MountBoot(m) ELSE m
        /\ crypt' = CryptAfter(at')
  /\ Halfway
  /\ UNCHANGED <<startVars, terms, torn, declined, fstab, initrd>>

\* A TERM: cleanup runs, its shifts forgotten, and the script goes on.
Term ==
  /\ Trapped
  /\ terms < MaxTerms
  /\ terms' = terms + 1
  /\ Cleanup
  /\ UNCHANGED <<startVars, pc, stack, diskVars, status, stuck, torn, declined>>

\* The fstab has been changed on a file system that is still mounted.
FstabUnsaved ==
  /\ RootThere
  /\ pc \in {"append", "bind", "initramfs", "unbind", "bootaway", "rootaway",
             "close", "label", "again"}

\* The machine loses power: nothing is mounted any more, and any part of what
\* was written to a file system that was mounted may be lost, in any order.
PowerLoss ==
  /\ pc # "done"
  /\ pc' = "done" /\ status' = 1
  /\ at' = [p \in Points |-> ""] /\ crypt' = "closed" /\ stack' = <<>>
  /\ torn' = \E p \in Points : at[p] = "newboot"
  /\ fstab' \in IF FstabUnsaved THEN {fstab, fstab0, "none"} ELSE {fstab}
  /\ initrd' \in SUBSET initrd
  /\ \/ Halfway
     \/ /\ torn' /\ has["newboot"] = "copied"
        /\ has' = [has EXCEPT !["newboot"] = "partial"]
        /\ UNCHANGED medium
  /\ UNCHANGED <<startVars, terms, stuck, declined>>

Step ==
  \/ Decline \/ NewTable \/ Mkfs \/ FreeRoot
  \/ OpenRoot \/ MountRoot \/ FreeBoot \/ MountNewBoot \/ MountOld \/ Rsync
  \/ UmountOld \/ CommentFstab \/ AppendFstab \/ BindMounts \/ Initramfs
  \/ Unbind \/ UmountBoot \/ UmountRoot \/ CloseRoot \/ ClearLabel \/ MountAgain

Next == Step \/ Fail \/ Term \/ PowerLoss

Spec == Init /\ [][Next]_vars

-----------------------------------------------------------------------------
\* Types of all variables.
TypeOK ==
  /\ running \in BOOLEAN /\ luks \in BOOLEAN /\ copy \in BOOLEAN
  /\ at \in [Points -> Boots \cup {"", "root", "binds"}]
  /\ crypt \in {"open", "closed"} /\ crypt0 \in {"open", "closed"}
  /\ stack \in Seq({"root", "boot", "old", "binds"}) /\ Len(stack) <= 3
  /\ fstab \in Boots \cup {"none"} /\ fstab0 \in Boots \cup {"none"}
  /\ has \in [Boots -> {"own", "blank", "copied", "partial"}]
  /\ part \in {"absent", "raw", "ready"} /\ label \in BOOLEAN
  /\ initrd \subseteq Boots \cup {"root"}
  /\ status \in {-1, 0, 1}
  /\ terms \in 0..MaxTerms /\ stuck \in BOOLEAN /\ torn \in BOOLEAN
  /\ declined \in BOOLEAN

\* Everything the script has mounted is on its list, whatever fails next: a
\* mount is pushed before it is made and shifted off only to be unmounted.
ListCoversMounts ==
  Trapped => \A p \in {"root", "old", "binds"} : at[p] # "" => p \in ToSet(stack)

\* Whether the script comes to its end, stops at a failure or an answer, or gets
\* a signal that it traps, unless an umount or the closing itself fails, it
\* leaves nothing behind: its mounts are gone, an encrypted disk that it opened
\* is closed, and a running root that was moved has its new /boot mounted.
ClosedAtEnd ==
  pc = "done" /\ ~stuck =>
    /\ \A p \in {"root", "root/boot", "old", "binds"} : at[p] = ""
    /\ crypt = "open" => crypt0 = "open"
    /\ running /\ fstab \in Boots /\ status = 0 /\ ~declined =>
         at["/boot"] = fstab

\* Status 0 means that one of the first questions was declined, with nothing
\* changed, or a complete move, even if one TERM came in between: the fstab
\* names the new partition, which has the new initramfs, the copied files and no
\* label of a rescue system.
\* (A second TERM can remount /boot so that the first goes unnoticed.)
SuccessIsComplete ==
  status = 0 /\ terms < 2 /\ ~(declined /\ fstab = fstab0 /\ initrd = {}) =>
    /\ fstab = "newboot" /\ part = "ready" /\ ~label
    /\ "newboot" \in initrd
    /\ copy /\ fstab0 = "oldboot" => has["newboot"] = "copied"

\* At no moment, and so after no failure, does the fstab name a new boot partition
\* that has not got the old one's files; nor after a power loss, once the new
\* partition is unmounted.  Before that a power loss may leave the fstab without
\* the files, which the script does not sync, and a script that goes on after a
\* TERM may change the fstab with the old partition mounted under the copy.
FstabAfterCopy ==
  fstab = "newboot" /\ fstab0 = "oldboot" /\ copy =>
    has["newboot"] = "copied" \/ torn \/ terms > 0
=============================================================================
