---------------------------- MODULE EncryptedDisk ----------------------------
(***************************************************************************)
(* bin/reform-setup-encrypted-disk: a disk is erased and given a LUKS      *)
(* container with a volume group of swap and root; the running system is   *)
(* copied to it and reform-boot-config makes it bootable.  The trap of     *)
(* EXIT, INT and TERM is replaced as the script opens more things; under   *)
(* set -e a command of the trap that fails ends the trap, and after a TERM *)
(* whose trap ran to its end the script goes on.                           *)
(***************************************************************************)
EXTENDS Integers, Sequences

CONSTANTS
  Memories,    \* sizes of the memory, in quarters of a GiB
  Disks,       \* sizes of the target, in GiB
  MaxTerms     \* bound on the signals of a run

ASSUME SizesAssumption == Memories \subseteq Nat /\ Disks \subseteq Nat
ASSUME MaxTermsAssumption == MaxTerms \in Nat

Arguments == {"emmc", "/dev/emmc", "/dev/emmcp2", "sd", "/dev/ssd", "file"}

VARIABLES
  arg,         \* DEVICE_PATH, as the user gave it
  use, force,  \* EMMC_USE and FORCE
  used,        \* something on the target is mounted
  memory, size,
  pc, trap, status,
  disk,        \* the last step the target's contents went through
  swap,        \* mem: the size of the swap volume, in GiB
  empty,       \* the passphrase is the empty one
  open,        \* what is open: the mount, the volume group, reform_crypt
  open0,       \* history: what was open at the start
  agreed,      \* history: the questions answered with y, or by --force, and
               \* "declined" if reform-boot-config got another answer
  terms,       \* history: signals so far
  stuck,       \* history: an umount, vgchange or luksClose did not work
  failedAt,    \* history: the command the script ended at
  spilled      \* history: the copy went to the bare temporary directory

startVars == <<arg, use, force, used, memory, size, empty, open0>>
histVars == <<terms, stuck, failedAt, spilled>>
vars == <<startVars, pc, trap, status, disk, swap, open, agreed, histVars>>

ToEmmc == arg \in {"emmc", "/dev/emmc", "/dev/emmcp2"}
Whole == arg \in {"emmc", "/dev/emmc", "sd"}
Limited == ~ToEmmc /\ arg # "sd"   \* swap is limited to 5% of the disk

-----------------------------------------------------------------------------
\* printf "%.f" of a number of quarters: to the nearest, a half to the even.
Rounded(q) ==
  IF q % 4 = 2 THEN (q \div 4) + ((q \div 4) % 2)
  ELSE IF q % 4 = 3 THEN (q \div 4) + 1 ELSE q \div 4

\* Mutant of SwapFor: the limit of 5% is not applied.
SwapUnlimited(q, gib) == IF Rounded(q + 2) < 4 THEN 4 ELSE Rounded(q + 2)

\* The memory plus one half, rounded; 4 at least; 5% of an SSD at most.
SwapFor(q, gib) ==
  LET mem == IF Rounded(q + 2) < 4 THEN 4 ELSE Rounded(q + 2)
      limit == (gib * 5) \div 100
  IN  IF Limited /\ mem > limit THEN limit ELSE mem

-----------------------------------------------------------------------------
\* What the commands of the traps need in order to work, and what they do.
Works(command, o) ==
  \/ command = "umount" /\ o.mnt
  \/ command = "vg" /\ o.vg # "none" /\ ~o.mnt
  \/ command = "luks" /\ \/ o.crypt = "ours" /\ o.vg # "on"
                         \/ o.crypt = "other" /\ o.vg # "other"

\* Mutant of Closed: the volumes of the closed device remain.
ClosedOnly(o, command) ==
  IF command = "umount" THEN [o EXCEPT !.mnt = FALSE]
  ELSE IF command = "vg" THEN [o EXCEPT !.vg = "off"]
  ELSE [o EXCEPT !.crypt = "closed"]

Closed(o, command) ==
  IF command = "umount" THEN [o EXCEPT !.mnt = FALSE]
  ELSE IF command = "vg" THEN [o EXCEPT !.vg = "off"]
  ELSE [o EXCEPT !.crypt = "closed", !.vg = IF @ = "other" THEN @ ELSE "none"]

\* cleanupvg and cleanupluks, as the traps call them.
Commands(t) ==
  IF t = "mount" THEN <<"umount", "vg", "luks">>
  ELSE IF t = "vg" THEN <<"vg", "luks">>
  ELSE IF t = "luks" THEN <<"luks">> ELSE <<>>

\* What is open after the first k of at most three commands.
After(o, cs, k) ==
  LET one == Closed(o, cs[1])
      two == Closed(one, cs[2])
  IN  IF k = 0 THEN o ELSE IF k = 1 THEN one
      ELSE IF k = 2 THEN two ELSE Closed(two, cs[3])

Runs(o, cs, k) ==   \* the first k commands work
  \A i \in 1..k : Works(cs[i], After(o, cs, i - 1))

\* How the trap t may go: its first k commands work, and the next one fails:
\* it has to, or it is stuck.
Outcomes(t, o) ==
  LET cs == Commands(t)
  IN  {[open |-> After(o, cs, k), whole |-> k = Len(cs),
        stuck |-> k < Len(cs) /\ Works(cs[k + 1], After(o, cs, k))] :
         k \in {n \in 0..Len(cs) : Runs(o, cs, n)}}

Go(from, to) == pc = from /\ pc' = to /\ UNCHANGED status
Quiet == UNCHANGED <<startVars, histVars>>

-----------------------------------------------------------------------------
Init ==
  /\ arg \in Arguments /\ use \in {"true", "warn", "false"}
  /\ force \in BOOLEAN /\ used \in BOOLEAN /\ empty \in BOOLEAN
  /\ memory \in Memories /\ size \in Disks
  /\ pc = "policy" /\ trap = "none" /\ status = -1
  /\ disk = "own" /\ swap = 0
  /\ open \in [mnt : {FALSE}, vg : {"none", "other"}, crypt : {"closed", "other"}]
  /\ open0 = open
  /\ agreed = {} /\ terms = 0 /\ stuck = FALSE
  /\ failedAt = "" /\ spilled = FALSE

\* A question: y, by --force or by the user.
Answer(yes, question) ==
  /\ yes \in BOOLEAN /\ (force => yes)
  /\ agreed' = IF yes THEN agreed \cup {question} ELSE agreed

\* The script ends before anything is set up.
Quit(s) == pc' = "done" /\ status' = s

\* Mutant of Policy: EMMC_USE=warn is taken for true.
PolicyLenient ==
  /\ pc = "policy"
  /\ IF arg \in {"/dev/emmc", "/dev/emmcp2"} /\ use = "false"
     THEN Quit(1) ELSE pc' = "erase" /\ UNCHANGED status
  /\ UNCHANGED <<trap, disk, swap, open, agreed>> /\ Quiet

\* EMMC_USE, for a path on the eMMC: the shorthand is not expanded yet.
Policy ==
  /\ pc = "policy"
  /\ IF arg \notin {"/dev/emmc", "/dev/emmcp2"} \/ use = "true"
     THEN pc' = "erase" /\ UNCHANGED <<status, agreed>>
     ELSE IF use = "false" THEN Quit(1) /\ UNCHANGED agreed
     ELSE \E yes \in BOOLEAN :
            /\ Answer(yes, "emmc")
            /\ IF yes THEN pc' = "erase" /\ UNCHANGED status ELSE Quit(0)
  /\ UNCHANGED <<trap, disk, swap, open>> /\ Quiet

\* "This will ERASE ALL DATA": for block devices only.  Then the first trap.
Erase ==
  /\ pc = "erase"
  /\ IF arg = "file"
     THEN pc' = "used" /\ trap' = "error" /\ UNCHANGED <<status, agreed>>
     ELSE \E yes \in BOOLEAN :
            /\ Answer(yes, "erase")
            /\ IF yes THEN pc' = "used" /\ trap' = "error" /\ UNCHANGED status
               ELSE Quit(0) /\ UNCHANGED trap
  /\ UNCHANGED <<disk, swap, open>> /\ Quiet

\* A block device with something mounted from it is refused (see Fail).
InUse ==
  /\ Go("used", "part")
  /\ arg = "file" \/ ~used
  /\ UNCHANGED <<trap, disk, swap, open, agreed>> /\ Quiet

\* The whole eMMC or SD-card gets a partition for /boot and one for LUKS.
Partition ==
  /\ Go("part", "size")
  /\ disk' = IF Whole THEN "table" ELSE disk
  /\ UNCHANGED <<trap, swap, open, agreed>> /\ Quiet

\* How large the swap is to be; a disk too small for it is an error.
SwapSize ==
  /\ Go("size", "format")
  /\ swap' = SwapFor(memory, size)
  /\ swap' > 1
  /\ UNCHANGED <<trap, disk, open, agreed>> /\ Quiet

Format ==
  /\ Go("format", "empty")
  /\ disk' = "luks"
  /\ UNCHANGED <<trap, swap, open, agreed>> /\ Quiet

\* Mutant of CheckEmpty: the trap is not set.
CheckEmptyTrapless ==
  /\ Go("empty", "open")
  /\ ~empty
  /\ UNCHANGED <<trap, disk, swap, open, agreed>> /\ Quiet

\* An empty passphrase is refused after the fact; then the second trap.
CheckEmpty ==
  /\ Go("empty", "open")
  /\ ~empty
  /\ trap' = "luks"
  /\ UNCHANGED <<disk, swap, open, agreed>> /\ Quiet

\* Mutant of LuksOpen: cleanupvg is in the trap before reformvg is ours.
LuksOpenEager ==
  /\ Go("open", "vgcreate")
  /\ open.crypt = "closed"
  /\ open' = [open EXCEPT !.crypt = "ours"]
  /\ trap' = "vg"
  /\ UNCHANGED <<disk, swap, agreed>> /\ Quiet

\* A reform_crypt that is open already is an error.
LuksOpen ==
  /\ Go("open", "vgcreate")
  /\ open.crypt = "closed"
  /\ open' = [open EXCEPT !.crypt = "ours"]
  /\ UNCHANGED <<trap, disk, swap, agreed>> /\ Quiet

\* pvcreate and vgcreate, for which there must be no reformvg; the third trap.
VgCreate ==
  /\ Go("vgcreate", "volumes")
  /\ open.crypt = "ours" /\ open.vg = "none"
  /\ open' = [open EXCEPT !.vg = "off"]
  /\ disk' = "vg" /\ trap' = "vg"
  /\ UNCHANGED <<swap, agreed>> /\ Quiet

\* The volumes, mkswap and mkfs.
Volumes ==
  /\ Go("volumes", "ask")
  /\ open.vg = "off"
  /\ open' = [open EXCEPT !.vg = "on"]
  /\ disk' = "volumes"
  /\ UNCHANGED <<trap, swap, agreed>> /\ Quiet

\* reform-migrate?  The fourth trap, before the mount it is for.
AskMigrate ==
  /\ pc = "ask" /\ UNCHANGED status
  /\ open.crypt = "ours" /\ open.vg = "on"   \* lsblk and luksUUID
  /\ \E yes \in BOOLEAN :
       /\ Answer(yes, "migrate")
       /\ IF yes THEN pc' = "mount" /\ trap' = "mount"
          ELSE pc' = "vgaway" /\ trap' = "luks"
  /\ UNCHANGED <<disk, swap, open>> /\ Quiet

Mount ==
  /\ Go("mount", "rsync")
  /\ open.vg = "on"
  /\ open' = [open EXCEPT !.mnt = TRUE]
  /\ UNCHANGED <<trap, disk, swap, agreed>> /\ Quiet

\* rsync to the directory, whatever is mounted there.
Rsync ==
  /\ Go("rsync", "files")
  /\ disk' = IF open.mnt THEN "copied" ELSE disk
  /\ spilled' = (spilled \/ ~open.mnt)
  /\ UNCHANGED <<startVars, terms, stuck, failedAt, trap, swap, open, agreed>>

\* resume, crypttab and fstab of the copy; the trap is set back.
WriteFiles ==
  /\ Go("files", "umount")
  /\ disk' = IF open.mnt THEN "files" ELSE disk
  /\ trap' = "vg"
  /\ UNCHANGED <<swap, open, agreed>> /\ Quiet

Umount ==
  /\ Go("umount", "boot")
  /\ open.mnt
  /\ open' = [open EXCEPT !.mnt = FALSE]
  /\ UNCHANGED <<trap, disk, swap, agreed>> /\ Quiet

\* Mutant of RunBootConfig: its status is forgotten.
RunBootConfigCareless ==
  /\ Go("boot", "vgaway")
  /\ trap' = "luks"
  /\ UNCHANGED <<open, disk, swap, agreed>> /\ Quiet

\* reform-boot-config on /dev/reformvg/root (see BootConfig); its first questions
\* end it with status 0 if they are not answered with y (Decline there).
RunBootConfig ==
  /\ Go("boot", "vgaway")
  /\ open.vg = "on"
  /\ \/ disk' = "bootable" /\ UNCHANGED agreed
     \/ ~force /\ agreed' = agreed \cup {"declined"} /\ UNCHANGED disk
  /\ trap' = "luks"
  /\ UNCHANGED <<open, swap>> /\ Quiet

\* cleanupvg, and the second trap set back.
VgAway ==
  /\ Go("vgaway", "luksaway")
  /\ Works("vg", open)
  /\ open' = Closed(open, "vg")
  /\ trap' = "error"
  /\ UNCHANGED <<disk, swap, agreed>> /\ Quiet

\* cleanupluks, and the end.
LuksAway ==
  /\ pc = "luksaway"
  /\ Works("luks", open)
  /\ open' = Closed(open, "luks")
  /\ trap' = "none"
  /\ Quit(0)
  /\ UNCHANGED <<disk, swap, agreed>> /\ Quiet

-----------------------------------------------------------------------------
Dirty ==   \* what the target is left with by a command that fails half way
  [part |-> "table", format |-> "luks", volumes |-> "volumes",
   rsync |-> "copied", files |-> "files"]

\* A command fails: set -e, and the trap of EXIT.
Fail ==
  /\ pc # "done"
  /\ \E r \in Outcomes(trap, open) :
       /\ open' = r.open
       /\ stuck' = \/ stuck \/ r.stuck
                   \/ pc = "umount" /\ open.mnt
                   \/ pc = "vgaway" /\ Works("vg", open)
                   \/ pc = "luksaway" /\ Works("luks", open)
  /\ Quit(1) /\ failedAt' = pc
  /\ disk' \in {disk} \cup
       (IF pc \in DOMAIN Dirty /\ (pc = "part" => Whole)
           /\ (pc \in {"rsync", "files"} => open.mnt) /\ (pc = "volumes" => open.vg = "off")
        THEN {Dirty[pc]} ELSE {})
  /\ UNCHANGED <<startVars, trap, swap, agreed, terms, spilled>>

\* A TERM: without a trap the script dies.  With one, the trap runs; if all of
\* it worked the script goes on, otherwise the trap of EXIT runs as well.
Term ==
  /\ pc # "done" /\ terms < MaxTerms
  /\ terms' = terms + 1
  /\ IF trap = "none"
     THEN Quit(1) /\ failedAt' = pc /\ UNCHANGED <<open, stuck>>
     ELSE \E r \in Outcomes(trap, open) :
            IF r.whole
            THEN /\ open' = r.open
                 /\ UNCHANGED <<pc, status, stuck, failedAt>>
            ELSE /\ \E e \in Outcomes(trap, r.open) :
                      open' = e.open /\ stuck' = (stuck \/ r.stuck \/ e.stuck)
                 /\ Quit(1) /\ failedAt' = pc
  /\ UNCHANGED <<startVars, trap, disk, swap, agreed, spilled>>

Step ==
  \/ Policy \/ Erase \/ InUse \/ Partition \/ SwapSize \/ Format \/ CheckEmpty
  \/ LuksOpen \/ VgCreate \/ Volumes \/ AskMigrate \/ Mount \/ Rsync
  \/ WriteFiles \/ Umount \/ RunBootConfig \/ VgAway \/ LuksAway

Next == Step \/ Fail \/ Term

Spec == Init /\ [][Next]_vars

-----------------------------------------------------------------------------
\* Types of the variables that change; volumes of ours are seen only through
\* our reform_crypt.
TypeOK ==
  /\ trap \in {"none", "error", "luks", "vg", "mount"}
  /\ status \in {-1, 0, 1}
  /\ disk \in {"own", "table", "luks", "vg", "volumes", "copied", "files", "bootable"}
  /\ swap \in Nat
  /\ open \in [mnt : BOOLEAN, vg : {"none", "off", "on", "other"},
               crypt : {"closed", "ours", "other"}]
  /\ open.vg \in {"on", "off"} => open.crypt = "ours"
  /\ agreed \subseteq {"emmc", "erase", "migrate", "declined"}
  /\ terms \in 0..MaxTerms /\ stuck \in BOOLEAN /\ spilled \in BOOLEAN

\* A block device loses its data only after a y (or --force), never while
\* something on it is mounted, and, named by its path, an eMMC only as EMMC_USE
\* allows.
EraseAgreed ==
  disk # "own" /\ arg # "file" =>
    /\ "erase" \in agreed /\ ~used
    /\ arg \in {"/dev/emmc", "/dev/emmcp2"} =>
         use = "true" \/ (use = "warn" /\ "emmc" \in agreed)

\* EMMC_USE is honoured, however the eMMC is named.
EmmcPolicy ==
  disk # "own" /\ ToEmmc => use = "true" \/ (use = "warn" /\ "emmc" \in agreed)

\* The swap volume holds the memory, unless that is over 5% of an SSD, of which
\* it never takes more; a disk with too little room for swap keeps its data.
SwapFits ==
  disk \notin {"own", "table"} =>
    /\ swap > 1
    /\ Limited => 20 * swap <= size
    /\ ~Limited \/ 20 * (swap + 1) <= size => 4 * swap >= memory

\* However the script ends, the target is closed again, unless an umount,
\* vgchange or luksClose got stuck, the mount of the new root failed (its trap
\* starts with an umount that then fails), or a TERM came.
ClosedAtEnd ==
  pc = "done" /\ open.crypt = "ours" => stuck \/ terms > 0 \/ failedAt = "mount"

\* The running system is left as it was: a volume group reformvg that was there
\* before (of an encrypted system that runs, say) stays active and its
\* reform_crypt open, and the copy goes to the new disk, never into a directory
\* of the old one, unless the script went on after a TERM.
RunningSystemKept ==
  /\ open0.vg = "other" =>
       open.vg = "other" /\ (open0.crypt = "other" => open.crypt = "other")
  /\ spilled => terms > 0

\* Status 0 means that nothing happened because the user did not want it, or
\* that the disk is complete and closed, with a passphrase that can be typed
\* at boot (and can be booted from, unless reform-boot-config was declined);
\* signals do not make a failure look like a success.
SuccessIsComplete ==
  status = 0 =>
    \/ /\ disk = "own" /\ agreed \subseteq {"emmc"} /\ open = open0
    \/ /\ open = [mnt |-> FALSE, vg |-> "none", crypt |-> "closed"]
       /\ disk = IF "migrate" \notin agreed THEN "volumes"
                 ELSE IF "declined" \in agreed THEN "files" ELSE "bootable"
       /\ ~empty
=============================================================================
