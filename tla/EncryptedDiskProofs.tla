------------------------ MODULE EncryptedDiskProofs ------------------------
(***************************************************************************)
(* Theorems about EncryptedDisk, for all memories, disks and numbers of    *)
(* signals.  The inductive invariant says of every step which trap is set  *)
(* (TrapInv), what was asked before it (AskInv), what is open as long as   *)
(* no signal has come (OpenInv), how far the disk has come (DiskInv) and   *)
(* that a reformvg of the running system is never taken for ours           *)
(* (OtherInv).  What the traps leave open is worked out once, for every    *)
(* trap and every way it may go, in TrapLeaves.                            *)
(***************************************************************************)
EXTENDS EncryptedDisk, TLAPS

\* What may be open: volumes of ours only through our reform_crypt, and only
\* an active volume is mounted.
Opens ==
  {o \in [mnt : BOOLEAN, vg : {"none", "off", "on", "other"},
          crypt : {"closed", "ours", "other"}] :
     /\ o.vg \in {"on", "off"} => o.crypt = "ours"
     /\ o.mnt => o.vg = "on"}

Begins == {"policy", "erase"}
Prepares == {"used", "part", "size", "format", "empty"}
Makes == {"open", "vgcreate", "volumes", "ask"}
Copies == {"mount", "rsync", "files", "umount", "boot"}
Closes == {"vgaway", "luksaway"}

\* Types, with those of what the start decides.
TypeInv ==
  /\ TypeOK
  /\ arg \in Arguments /\ use \in {"true", "warn", "false"}
  /\ {force, used, empty} \subseteq BOOLEAN
  /\ memory \in Nat /\ size \in Nat
  /\ pc \in Begins \cup Prepares \cup Makes \cup Copies \cup Closes \cup {"done"}
  /\ open \in Opens
  /\ pc # "done" => status = -1

\* The trap of every step.
TrapInv ==
  /\ pc \in Begins => trap = "none"
  /\ pc \in Prepares \cup {"luksaway"} => trap = "error"
  /\ pc \in {"open", "vgcreate", "vgaway"} => trap = "luks"
  /\ pc \in {"volumes", "ask", "umount", "boot"} => trap = "vg"
  /\ pc \in {"mount", "rsync", "files"} => trap = "mount"

\* What was asked before the disk is touched.
Allowed ==
  arg \in {"/dev/emmc", "/dev/emmcp2"} =>
    use = "true" \/ (use = "warn" /\ "emmc" \in agreed)
Sized == swap = SwapFor(memory, size) /\ swap > 1

AskInv ==
  /\ pc \in Begins \cup {"used", "part"} => disk = "own"
  /\ pc \in Begins => agreed \subseteq {"emmc"}
  /\ pc \notin {"policy", "done"} \/ disk # "own" => Allowed
  /\ pc \notin Begins \cup {"done"} \/ disk # "own" => arg = "file" \/ "erase" \in agreed
  /\ pc \notin Begins \cup {"used", "done"} \/ disk # "own" => arg = "file" \/ ~used
  /\ pc = "size" => disk \in {"own", "table"}
  /\ pc \notin Begins \cup {"used", "part", "size", "done"} \/ disk \notin {"own", "table"}
       => Sized
  /\ pc \in Makes \cup Copies \cup Closes => ~empty

\* A reformvg that was there before is never taken for ours.
OtherInv ==
  /\ open0 \in [mnt : {FALSE}, vg : {"none", "other"}, crypt : {"closed", "other"}]
  /\ trap \in {"vg", "mount"} \/ pc \in {"vgaway", "luksaway"} => open0.vg = "none"
  /\ open0.vg = "none" => open.vg # "other"
  /\ open0.vg = "other" =>
       open.vg = "other" /\ (open0.crypt = "other" => open.crypt = "other")
  /\ pc \in Begins => open = open0

\* What is open while no signal has come, and at the end in any case.
OpenInv ==
  /\ terms = 0 =>
       /\ pc \in Begins \cup Prepares \cup {"open"} => open.crypt # "ours"
       /\ pc = "vgcreate" => open.vg \in {"none", "other"}
       /\ pc = "volumes" => open.vg = "off"
       /\ pc \in {"ask", "mount", "boot"} => open.vg = "on"
       /\ pc \in {"rsync", "files", "umount"} => open.mnt
  /\ pc \notin {"rsync", "files", "umount", "done"} => ~open.mnt
  /\ pc = "vgaway" => open.vg = "on"
  /\ pc = "luksaway" => open.vg = "off"

\* How far the disk has come.
Complete ==
  disk = IF "migrate" \notin agreed THEN "volumes"
         ELSE IF "declined" \in agreed THEN "files" ELSE "bootable"

DiskInv ==
  /\ pc \in Prepares \cup Makes => "migrate" \notin agreed
  /\ pc \in Prepares \cup Makes \cup Copies => "declined" \notin agreed
  /\ pc \in Copies => "migrate" \in agreed
  /\ pc = "ask" => disk = "volumes"
  /\ pc = "umount" /\ open.mnt => disk = "files"
  /\ pc = "boot" => disk = "files"
  /\ pc \in Closes => Complete

IInv ==
  /\ TypeInv /\ TrapInv /\ AskInv /\ OtherInv /\ OpenInv /\ DiskInv
  /\ ClosedAtEnd /\ (spilled => terms > 0) /\ SuccessIsComplete

-----------------------------------------------------------------------------
\* An outcome of a trap, by the number of commands that worked.
LEMMA OutcomeFacts ==
  ASSUME NEW t, NEW o, NEW r \in Outcomes(t, o)
  PROVE  \E k \in 0..Len(Commands(t)) :
           /\ Runs(o, Commands(t), k)
           /\ r.open = After(o, Commands(t), k)
           /\ r.whole \in BOOLEAN /\ (r.whole <=> k = Len(Commands(t)))
           /\ r.stuck \in BOOLEAN
           /\ r.stuck <=> /\ k < Len(Commands(t))
                          /\ Works(Commands(t)[k + 1], After(o, Commands(t), k))
<1> DEFINE cs == Commands(t)
           Done(k) == k = Len(cs)
           Hung(k) == k < Len(cs) /\ Works(cs[k + 1], After(o, cs, k))
<1>1. ASSUME NEW x, NEW w \in BOOLEAN, NEW s \in BOOLEAN,
             r = [open |-> x, whole |-> w, stuck |-> s]
      PROVE  r.open = x /\ (r.whole <=> w) /\ (r.stuck <=> s) /\ r.whole = w /\ r.stuck = s
  BY <1>1, Zenon
<1>2. PICK k \in 0..Len(cs) :
        /\ Runs(o, cs, k)
        /\ r = [open |-> After(o, cs, k), whole |-> Done(k), stuck |-> Hung(k)]
  BY Zenon DEF Outcomes
<1>3. Done(k) \in BOOLEAN /\ Hung(k) \in BOOLEAN
  BY Zenon
<1> HIDE DEF cs, Done, Hung
<1>4. /\ r.open = After(o, cs, k)
      /\ r.whole \in BOOLEAN /\ (r.whole <=> Done(k))
      /\ r.stuck \in BOOLEAN /\ (r.stuck <=> Hung(k))
  BY <1>1, <1>2, <1>3, Zenon
<1> QED BY <1>2, <1>4, Zenon DEF cs, Done, Hung

\* The commands of the traps.
LEMMA CommandsFacts ==
  /\ \A t : t \notin {"luks", "vg", "mount"} => Commands(t) = <<>>
  /\ Commands("luks") = <<"luks">>
  /\ Commands("vg") = <<"vg", "luks">>
  /\ Commands("mount") = <<"umount", "vg", "luks">>
BY DEF Commands

\* What a trap leaves open.
LEMMA TrapLeaves ==
  ASSUME NEW t \in {"none", "error", "luks", "vg", "mount"}, NEW o \in Opens,
         t \in {"vg", "mount"} => o.vg # "other", NEW r \in Outcomes(t, o)
  PROVE  /\ r.open \in Opens /\ r.whole \in BOOLEAN /\ r.stuck \in BOOLEAN
         /\ r.open.mnt => o.mnt
         /\ r.open.crypt = "ours" => o.crypt = "ours"
         /\ t \in {"none", "error"} => r.open = o /\ r.whole
         /\ o.vg # "other" => r.open.vg # "other"
         /\ t \notin {"vg", "mount"} /\ o.vg = "other" =>
              r.open.vg = "other" /\ (o.crypt = "other" => r.open.crypt = "other")
         /\ t = "luks" /\ o.vg = "on" => ~r.whole
         /\ t = "luks" /\ o.vg # "on" /\ r.open.crypt = "ours" => r.stuck
         /\ t = "vg" /\ ~o.mnt /\ o.vg \in {"on", "off"} /\ r.open.crypt = "ours" => r.stuck
         /\ t = "mount" /\ o.mnt /\ r.open.crypt = "ours" => r.stuck
<1> DEFINE cs == Commands(t)
<1>1. PICK k \in 0..Len(cs) :
        /\ \A i \in 1..k : Works(cs[i], After(o, cs, i - 1))
        /\ r.open = After(o, cs, k)
        /\ r.whole \in BOOLEAN /\ (r.whole <=> k = Len(cs))
        /\ r.stuck \in BOOLEAN
        /\ r.stuck <=> k < Len(cs) /\ Works(cs[k + 1], After(o, cs, k))
  BY OutcomeFacts, Zenon DEF Runs
<1>2. CASE t \in {"none", "error"}
  <2>1. Len(cs) = 0
    BY <1>2, CommandsFacts
  <2> HIDE DEF cs
  <2> QED BY <1>1, <1>2, <2>1 DEF After
<1>3. CASE t = "luks"
  <2>1. Len(cs) = 1 /\ cs[1] = "luks"
    BY <1>3, CommandsFacts
  <2> HIDE DEF cs
  <2>2. CASE k = 0
    BY <1>1, <1>3, <2>1, <2>2 DEF After, Works, Opens
  <2>3. CASE k = 1
    <3>1. Works("luks", o) /\ r.open = Closed(o, "luks") /\ r.whole /\ ~r.stuck
      BY <1>1, <2>1, <2>3 DEF After
    <3> QED BY <1>1, <1>3, <3>1 DEF Works, Closed, Opens
  <2> QED BY <1>1, <2>1, <2>2, <2>3
<1>4. CASE t = "vg"
  <2>1. Len(cs) = 2 /\ cs[1] = "vg" /\ cs[2] = "luks"
    BY <1>4, CommandsFacts
  <2> HIDE DEF cs
  <2> DEFINE one == Closed(o, "vg")
             two == Closed(one, "luks")
  <2>2. Works("vg", o) => one \in Opens /\ one.vg = "off" /\ ~one.mnt /\ one.crypt = o.crypt
    BY <1>4 DEF Works, Closed, Opens
  <2>3. one \in Opens /\ one.vg = "off" =>
          two \in Opens /\ two.vg = "none" /\ two.crypt = "closed" /\ (two.mnt <=> one.mnt)
    BY DEF Closed, Opens
  <2>4. CASE k = 0
    BY <1>1, <1>4, <2>1, <2>4 DEF After, Works, Opens
  <2> HIDE DEF two
  <2>5. CASE k = 1
    <3>1. /\ Works("vg", o) /\ r.open = one /\ ~r.whole
          /\ r.stuck <=> Works("luks", one)
      BY <1>1, <2>1, <2>5 DEF After
    <3> HIDE DEF one
    <3> QED BY <1>1, <1>4, <2>2, <3>1 DEF Works, Opens
  <2>6. CASE k = 2
    <3>1. Works("vg", o) /\ r.open = two
      <4>1. 1 \in 1..k /\ 1 - 1 = 0 /\ k # 0 /\ k # 1
        BY <2>6
      <4>2. Works(cs[1], After(o, cs, 0)) /\ After(o, cs, 0) = o
        BY <1>1, <4>1 DEF After
      <4> QED BY <1>1, <2>1, <2>6, <4>1, <4>2 DEF After, two
    <3> HIDE DEF one
    <3> QED BY <1>1, <1>4, <2>2, <2>3, <3>1
  <2> QED BY <1>1, <2>1, <2>4, <2>5, <2>6
<1>5. CASE t = "mount"
  <2>1. Len(cs) = 3 /\ cs[1] = "umount" /\ cs[2] = "vg" /\ cs[3] = "luks"
    BY <1>5, CommandsFacts
  <2> HIDE DEF cs
  <2> DEFINE one == Closed(o, "umount")
             two == Closed(one, "vg")
             three == Closed(two, "luks")
  <2>2. Works("umount", o) =>
          one \in Opens /\ o.mnt /\ one.vg = "on" /\ ~one.mnt /\ one.crypt = "ours"
    BY <1>5 DEF Works, Closed, Opens
  <2>3. one \in Opens /\ one.vg = "on" /\ ~one.mnt =>
          two \in Opens /\ two.vg = "off" /\ ~two.mnt /\ two.crypt = one.crypt
    BY DEF Closed, Opens
  <2>4. two \in Opens /\ two.vg = "off" /\ ~two.mnt =>
          three \in Opens /\ three.vg = "none" /\ three.crypt = "closed" /\ ~three.mnt
    BY DEF Closed, Opens
  <2>5. CASE k = 0
    BY <1>1, <1>5, <2>1, <2>5 DEF After, Works, Opens
  <2>6. ASSUME k # 0
        PROVE  Works("umount", o)
    <3>1. 1 \in 1..k /\ 1 - 1 = 0
      BY <2>6
    <3>2. Works(cs[1], After(o, cs, 0)) /\ After(o, cs, 0) = o
      BY <1>1, <3>1 DEF After
    <3> QED BY <2>1, <3>2
  <2> HIDE DEF two, three
  <2>7. CASE k = 1
    <3>1. r.open = one /\ (r.stuck <=> Works("vg", one)) /\ ~r.whole
      BY <1>1, <2>1, <2>7 DEF After
    <3> HIDE DEF one
    <3>2. one \in Opens /\ o.mnt /\ one.vg = "on" /\ ~one.mnt
      BY <2>2, <2>6, <2>7
    <3>3. r.stuck
      BY <3>1, <3>2 DEF Works
    <3> QED BY <1>1, <1>5, <3>1, <3>2, <3>3 DEF Opens
  <2>8. CASE k = 2
    <3>1. r.open = two /\ (r.stuck <=> Works("luks", two)) /\ ~r.whole
      BY <1>1, <2>1, <2>8 DEF After, two
    <3> HIDE DEF one
    <3>2. two \in Opens /\ o.mnt /\ two.vg = "off" /\ ~two.mnt
      BY <2>2, <2>3, <2>6, <2>8
    <3>3. r.stuck
      BY <3>1, <3>2 DEF Works, Opens
    <3> QED BY <1>1, <1>5, <3>1, <3>2, <3>3 DEF Opens
  <2>9. CASE k = 3
    <3>1. r.open = three
      BY <1>1, <2>1, <2>9 DEF After, two, three
    <3> HIDE DEF one
    <3> QED BY <1>1, <1>5, <2>2, <2>3, <2>4, <2>6, <2>9, <3>1
  <2> QED BY <1>1, <2>1, <2>5, <2>7, <2>8, <2>9
<1> QED BY <1>2, <1>3, <1>4, <1>5

\* What a failing command leaves.
LEMMA FailLeaves ==
  ASSUME Fail
  PROVE  /\ pc # "done" /\ pc' = "done" /\ status' = 1 /\ failedAt' = pc
         /\ UNCHANGED <<startVars, trap, swap, agreed, terms, spilled>>
         /\ \/ disk' = disk
            \/ <<pc, disk'>> \in {<<"part", "table">>, <<"format", "luks">>, <<"volumes", "volumes">>,
                                  <<"rsync", "copied">>, <<"files", "files">>}
<1>1. /\ Dirty["part"] = "table" /\ Dirty["format"] = "luks" /\ Dirty["volumes"] = "volumes"
      /\ Dirty["rsync"] = "copied" /\ Dirty["files"] = "files"
      /\ DOMAIN Dirty = {"part", "format", "volumes", "rsync", "files"}
  BY DEF Dirty
<1>2. disk' = disk \/ (pc \in DOMAIN Dirty /\ disk' = Dirty[pc])
  BY DEF Fail
<1>3. /\ pc # "done" /\ pc' = "done" /\ status' = 1 /\ failedAt' = pc
      /\ UNCHANGED <<startVars, trap, swap, agreed, terms, spilled>>
  BY DEF Fail, Quit
<1>4. \/ disk' = disk
      \/ <<pc, disk'>> \in {<<"part", "table">>, <<"format", "luks">>, <<"volumes", "volumes">>,
                            <<"rsync", "copied">>, <<"files", "files">>}
  BY <1>1, <1>2
<1> QED BY <1>3, <1>4, Zenon

\* What a signal leaves.
LEMMA TermLeaves ==
  ASSUME Term
  PROVE  /\ pc # "done" /\ terms' = terms + 1
         /\ UNCHANGED <<startVars, trap, disk, swap, agreed, spilled>>
         /\ \/ pc' = pc /\ UNCHANGED <<status, stuck, failedAt>>
            \/ pc' = "done" /\ status' = 1
BY DEF Term, Quit

\* Every step has its trap.
LEMMA StepTrap ==
  ASSUME TypeInv, TrapInv, Next
  PROVE  TrapInv'
<1> USE DEF Go, Quit, Quiet, startVars, histVars, Begins, Prepares, Makes, Copies, Closes, TrapInv
<1>1. CASE Policy
  BY <1>1 DEF Policy
<1>2. CASE Erase
  BY <1>2 DEF Erase
<1>3. CASE InUse
  BY <1>3 DEF InUse
<1>4. CASE Partition
  BY <1>4 DEF Partition
<1>5. CASE SwapSize
  BY <1>5 DEF SwapSize, Sized, SwapFor, Limited, ToEmmc
<1>6. CASE Format
  BY <1>6 DEF Format
<1>7. CASE CheckEmpty
  BY <1>7 DEF CheckEmpty
<1>8. CASE LuksOpen
  BY <1>8 DEF LuksOpen
<1>9. CASE VgCreate
  BY <1>9 DEF VgCreate
<1>10. CASE Volumes
  BY <1>10 DEF Volumes
<1>11. CASE AskMigrate
  BY <1>11 DEF AskMigrate
<1>12. CASE Mount
  BY <1>12 DEF Mount
<1>13. CASE Rsync
  BY <1>13 DEF Rsync
<1>14. CASE WriteFiles
  BY <1>14 DEF WriteFiles
<1>15. CASE Umount
  BY <1>15 DEF Umount
<1>16. CASE RunBootConfig
  BY <1>16 DEF RunBootConfig
<1>17. CASE VgAway
  BY <1>17 DEF VgAway
<1>18. CASE LuksAway
  BY <1>18 DEF LuksAway
<1>19. CASE Fail
  BY <1>19 DEF Fail
<1>20. CASE Term
  BY <1>20 DEF Term
<1> QED
  BY <1>1, <1>2, <1>3, <1>4, <1>5, <1>6, <1>7, <1>8, <1>9, <1>10,
     <1>11, <1>12, <1>13, <1>14, <1>15, <1>16, <1>17, <1>18, <1>19, <1>20 DEF Next, Step

\* The swap is not sized twice.
LEMMA SizedKept ==
  ASSUME UNCHANGED <<arg, memory, size, swap>>
  PROVE  Sized' <=> Sized
BY DEF Sized, SwapFor, Limited, ToEmmc

\* The disk is touched after the questions, and with the swap that fits.
LEMMA StepAsk ==
  ASSUME TypeInv, AskInv, Next
  PROVE  AskInv'
<1>0. pc \in Begins \cup Prepares \cup Makes \cup Copies \cup Closes \cup {"done"}
  BY DEF TypeInv
<1> USE <1>0, SizedKept DEF Go, Quit, Quiet, startVars, histVars, Begins, Prepares, Makes, Copies, Closes, AskInv, Allowed
<1>1. CASE Policy
  <2>1. pc' = "erase" =>
          arg \notin {"/dev/emmc", "/dev/emmcp2"} \/ use = "true" \/ "emmc" \in agreed'
    BY <1>1 DEF Policy, Answer
  <2>2. /\ pc' \in {"erase", "done"} /\ agreed' \in {agreed, agreed \cup {"emmc"}}
        /\ UNCHANGED <<startVars, disk, swap>>
    BY <1>1 DEF Policy, Answer
  <2>3. use \in {"true", "warn", "false"} /\ (pc' = "erase" => arg \notin {"/dev/emmc", "/dev/emmcp2"} \/ use # "false")
    BY <1>1 DEF Policy, Answer, TypeInv
  <2> QED BY <1>1, <2>1, <2>2, <2>3 DEF Policy
<1>2. CASE Erase
  BY <1>2 DEF Erase, Answer
<1>3. CASE InUse
  BY <1>3 DEF InUse
<1>4. CASE Partition
  BY <1>4 DEF Partition
<1>5. CASE SwapSize
  BY <1>5 DEF SwapSize, Sized, SwapFor, Limited, ToEmmc
<1>6. CASE Format
  BY <1>6 DEF Format
<1>7. CASE CheckEmpty
  BY <1>7 DEF CheckEmpty
<1>8. CASE LuksOpen
  BY <1>8 DEF LuksOpen
<1>9. CASE VgCreate
  BY <1>9 DEF VgCreate
<1>10. CASE Volumes
  BY <1>10 DEF Volumes
<1>11. CASE AskMigrate
  BY <1>11 DEF AskMigrate, Answer
<1>12. CASE Mount
  BY <1>12 DEF Mount
<1>13. CASE Rsync
  BY <1>13 DEF Rsync
<1>14. CASE WriteFiles
  BY <1>14 DEF WriteFiles
<1>15. CASE Umount
  BY <1>15 DEF Umount
<1>16. CASE RunBootConfig
  BY <1>16 DEF RunBootConfig
<1>17. CASE VgAway
  BY <1>17 DEF VgAway
<1>18. CASE LuksAway
  BY <1>18 DEF LuksAway
<1>19. CASE Fail
  BY <1>19, FailLeaves DEF startVars
<1>20. CASE Term
  BY <1>20, TermLeaves DEF startVars
<1> QED
  BY <1>1, <1>2, <1>3, <1>4, <1>5, <1>6, <1>7, <1>8, <1>9, <1>10,
     <1>11, <1>12, <1>13, <1>14, <1>15, <1>16, <1>17, <1>18, <1>19, <1>20 DEF Next, Step

\* The trap of a command that fails, and of a signal, starts from what may be open.
LEMMA TrapStarts ==
  ASSUME TypeInv, OtherInv
  PROVE  /\ trap \in {"none", "error", "luks", "vg", "mount"} /\ open \in Opens
         /\ trap \in {"vg", "mount"} => open.vg # "other"
BY DEF TypeInv, TypeOK, OtherInv

\* No step takes a volume group for ours that was there before.
LEMMA StepOther ==
  ASSUME TypeInv, TrapInv, OtherInv, OpenInv, Next
  PROVE  OtherInv'
<1> USE DEF Go, Quit, Quiet, startVars, histVars, Begins, Prepares, Makes, Copies, Closes, OtherInv, TrapInv, OpenInv, TypeInv, Opens
<1>1. CASE Policy
  BY <1>1 DEF Policy, Answer
<1>2. CASE Erase
  BY <1>2 DEF Erase, Answer
<1>3. CASE InUse
  BY <1>3 DEF InUse
<1>4. CASE Partition
  BY <1>4 DEF Partition
<1>5. CASE SwapSize
  BY <1>5 DEF SwapSize
<1>6. CASE Format
  BY <1>6 DEF Format
<1>7. CASE CheckEmpty
  BY <1>7 DEF CheckEmpty
<1>8. CASE LuksOpen
  BY <1>8 DEF LuksOpen
<1>9. CASE VgCreate
  BY <1>9 DEF VgCreate
<1>10. CASE Volumes
  BY <1>10 DEF Volumes
<1>11. CASE AskMigrate
  BY <1>11 DEF AskMigrate, Answer
<1>12. CASE Mount
  BY <1>12 DEF Mount
<1>13. CASE Rsync
  BY <1>13 DEF Rsync
<1>14. CASE WriteFiles
  BY <1>14 DEF WriteFiles
<1>15. CASE Umount
  BY <1>15 DEF Umount
<1>16. CASE RunBootConfig
  BY <1>16 DEF RunBootConfig
<1>17. CASE VgAway
  BY <1>17 DEF VgAway, Works, Closed
<1>18. CASE LuksAway
  BY <1>18 DEF LuksAway, Works, Closed
<1>19. CASE Fail
  <2>1. PICK r \in Outcomes(trap, open) : open' = r.open
    BY <1>19 DEF Fail
  <2> HIDE DEF Opens, TypeInv, OtherInv
  <2>2. /\ open.vg # "other" => r.open.vg # "other"
        /\ trap \notin {"vg", "mount"} /\ open.vg = "other" =>
             r.open.vg = "other" /\ (open.crypt = "other" => r.open.crypt = "other")
    BY TrapStarts, TrapLeaves
  <2> QED BY <1>19, <2>1, <2>2, FailLeaves DEF OtherInv
<1>20. CASE Term
  <2> HIDE DEF Opens, TypeInv, OtherInv
  <2>1. CASE trap = "none"
    BY <1>20, <2>1, TermLeaves DEF Term, OtherInv
  <2>2. CASE trap # "none"
    <3>1. PICK r \in Outcomes(trap, open) :
            \/ open' = r.open
            \/ \E e \in Outcomes(trap, r.open) : open' = e.open /\ pc' = "done"
      BY <1>20, <2>2 DEF Term, Quit
    <3>2. CASE open' = r.open
      <4>1. /\ open.vg # "other" => r.open.vg # "other"
            /\ trap \notin {"vg", "mount"} /\ open.vg = "other" =>
                 r.open.vg = "other" /\ (open.crypt = "other" => r.open.crypt = "other")
            /\ trap = "error" => r.open = open
        BY <3>1, TrapStarts, TrapLeaves
      <4> QED BY <1>20, <2>2, <3>2, <4>1, TermLeaves DEF OtherInv
    <3>3. ASSUME NEW e \in Outcomes(trap, r.open), open' = e.open, pc' = "done"
          PROVE  OtherInv'
      <4>1. /\ r.open \in Opens /\ (open.vg # "other" => r.open.vg # "other")
            /\ trap \notin {"vg", "mount"} /\ open.vg = "other" =>
                 r.open.vg = "other" /\ (open.crypt = "other" => r.open.crypt = "other")
        BY <3>1, TrapStarts, TrapLeaves
      <4>2. trap \in {"vg", "mount"} => r.open.vg # "other"
        BY <4>1, TrapStarts
      <4>3. /\ (r.open.vg # "other" => e.open.vg # "other")
            /\ trap \notin {"vg", "mount"} /\ r.open.vg = "other" =>
                 e.open.vg = "other" /\ (r.open.crypt = "other" => e.open.crypt = "other")
        BY <3>3, <4>1, <4>2, TrapStarts, TrapLeaves
      <4> QED BY <1>20, <3>3, <4>1, <4>3, TermLeaves DEF OtherInv
    <3> QED BY <3>1, <3>2, <3>3
  <2> QED BY <2>1, <2>2
<1> QED
  BY <1>1, <1>2, <1>3, <1>4, <1>5, <1>6, <1>7, <1>8, <1>9, <1>10,
     <1>11, <1>12, <1>13, <1>14, <1>15, <1>16, <1>17, <1>18, <1>19, <1>20 DEF Next, Step

\* What is open at every step, and at the end.
LEMMA StepOpen ==
  ASSUME TypeInv, TrapInv, OtherInv, OpenInv, ClosedAtEnd, spilled => terms > 0, Next
  PROVE  (OpenInv /\ ClosedAtEnd /\ (spilled => terms > 0))'
<1> USE DEF Go, Quit, Quiet, startVars, histVars, Begins, Prepares, Makes, Copies, Closes, OtherInv, TrapInv, OpenInv, TypeInv, TypeOK, Opens, ClosedAtEnd
<1>1. CASE Policy
  BY <1>1 DEF Policy, Answer
<1>2. CASE Erase
  BY <1>2 DEF Erase, Answer
<1>3. CASE InUse
  BY <1>3 DEF InUse
<1>4. CASE Partition
  BY <1>4 DEF Partition
<1>5. CASE SwapSize
  BY <1>5 DEF SwapSize
<1>6. CASE Format
  BY <1>6 DEF Format
<1>7. CASE CheckEmpty
  BY <1>7 DEF CheckEmpty
<1>8. CASE LuksOpen
  BY <1>8 DEF LuksOpen
<1>9. CASE VgCreate
  BY <1>9 DEF VgCreate
<1>10. CASE Volumes
  BY <1>10 DEF Volumes
<1>11. CASE AskMigrate
  BY <1>11 DEF AskMigrate, Answer
<1>12. CASE Mount
  BY <1>12 DEF Mount
<1>13. CASE Rsync
  BY <1>13 DEF Rsync
<1>14. CASE WriteFiles
  BY <1>14 DEF WriteFiles
<1>15. CASE Umount
  BY <1>15 DEF Umount
<1>16. CASE RunBootConfig
  BY <1>16 DEF RunBootConfig
<1>17. CASE VgAway
  BY <1>17 DEF VgAway, Works, Closed
<1>18. CASE LuksAway
  BY <1>18 DEF LuksAway, Works, Closed
<1>19. CASE Fail
  <2> HIDE DEF Opens, TypeInv
  <2>1. PICK r \in Outcomes(trap, open) :
          /\ open' = r.open
          /\ stuck' <=> \/ stuck \/ r.stuck
                        \/ pc = "umount" /\ open.mnt
                        \/ pc = "vgaway" /\ Works("vg", open)
                        \/ pc = "luksaway" /\ Works("luks", open)
    BY <1>19 DEF Fail
  <2>2. /\ r.open.crypt = "ours" => open.crypt = "ours"
        /\ trap \in {"none", "error"} => r.open = open
        /\ trap = "luks" /\ open.vg # "on" /\ r.open.crypt = "ours" => r.stuck
        /\ trap = "vg" /\ ~open.mnt /\ open.vg \in {"on", "off"} /\ r.open.crypt = "ours"
             => r.stuck
        /\ trap = "mount" /\ open.mnt /\ r.open.crypt = "ours" => r.stuck
    <3> HIDE DEF OtherInv, OpenInv, TrapInv
    <3> QED BY TrapStarts, TrapLeaves
  <2>3. pc = "luksaway" => open.crypt = "ours" /\ open.vg = "off"
    BY TrapStarts DEF OpenInv, Opens
  <2>4. pc \in Begins \cup Prepares \cup Makes \cup Copies \cup Closes
    BY <1>19 DEF TypeInv, Fail
  <2>5. ASSUME terms = 0, open'.crypt = "ours"
        PROVE  stuck' \/ pc = "mount"
    <3>1. CASE pc \in Begins \cup Prepares \cup {"open"}
      BY <2>1, <2>2, <2>5, <3>1 DEF OpenInv
    <3>2. CASE pc = "vgcreate"
      BY <2>1, <2>2, <2>5, <3>2 DEF OpenInv, TrapInv
    <3>3. CASE pc \in {"volumes", "ask", "boot"}
      BY <2>1, <2>2, <2>5, <3>3 DEF OpenInv, TrapInv
    <3>4. CASE pc \in {"rsync", "files"}
      BY <2>1, <2>2, <2>5, <3>4 DEF OpenInv, TrapInv
    <3>5. CASE pc \in {"umount", "vgaway", "luksaway"}
      BY <2>1, <2>3, <2>5, <3>5 DEF OpenInv, Works
    <3> QED BY <2>4, <3>1, <3>2, <3>3, <3>4, <3>5
  <2>6. terms \in Nat
    BY DEF TypeInv, TypeOK
  <2> QED BY <1>19, <2>5, <2>6, FailLeaves DEF OpenInv
<1>20. CASE Term
  <2>1. terms \in Nat
    BY DEF TypeOK
  <2> HIDE DEF Opens, TypeInv, TypeOK
  <2>2. CASE pc' = "done"
    BY <1>20, <2>1, <2>2, TermLeaves
  <2>3. CASE pc' # "done"
    <3>1. PICK r \in Outcomes(trap, open) : r.whole /\ open' = r.open
      BY <1>20, <2>3 DEF Term, Quit
    <3>2. /\ trap = "error" => r.open = open
          /\ trap = "luks" /\ open.vg = "on" => ~r.whole
          /\ r.open.mnt => open.mnt
      <4> HIDE DEF OtherInv, OpenInv, TrapInv
      <4> QED BY TrapStarts, TrapLeaves
    <3> QED BY <1>20, <2>1, <2>3, <3>1, <3>2, TermLeaves DEF OpenInv, TrapInv
  <2> QED BY <2>2, <2>3
<1> QED
  BY <1>1, <1>2, <1>3, <1>4, <1>5, <1>6, <1>7, <1>8, <1>9, <1>10,
     <1>11, <1>12, <1>13, <1>14, <1>15, <1>16, <1>17, <1>18, <1>19, <1>20 DEF Next, Step

\* How far the disk has come, at every step and at the end.
LEMMA StepDisk ==
  ASSUME TypeInv, AskInv, OtherInv, OpenInv, DiskInv, Next
  PROVE  (DiskInv /\ SuccessIsComplete)'
<1>0. pc # "done" => status = -1
  BY DEF TypeInv
<1> USE <1>0 DEF Go, Quit, Quiet, startVars, histVars, Begins, Prepares, Makes, Copies, Closes, DiskInv, Complete, OpenInv, SuccessIsComplete
<1>1. CASE Policy
  BY <1>1 DEF Policy, Answer, AskInv, OtherInv, TypeInv
<1>2. CASE Erase
  BY <1>2 DEF Erase, Answer, AskInv, OtherInv, TypeInv
<1>3. CASE InUse
  BY <1>3 DEF InUse
<1>4. CASE Partition
  BY <1>4 DEF Partition
<1>5. CASE SwapSize
  BY <1>5 DEF SwapSize
<1>6. CASE Format
  BY <1>6 DEF Format
<1>7. CASE CheckEmpty
  BY <1>7 DEF CheckEmpty
<1>8. CASE LuksOpen
  BY <1>8 DEF LuksOpen
<1>9. CASE VgCreate
  BY <1>9 DEF VgCreate
<1>10. CASE Volumes
  BY <1>10 DEF Volumes
<1>11. CASE AskMigrate
  BY <1>11 DEF AskMigrate, Answer
<1>12. CASE Mount
  BY <1>12 DEF Mount
<1>13. CASE Rsync
  BY <1>13 DEF Rsync
<1>14. CASE WriteFiles
  BY <1>14 DEF WriteFiles
<1>15. CASE Umount
  BY <1>15 DEF Umount
<1>16. CASE RunBootConfig
  BY <1>16 DEF RunBootConfig
<1>17. CASE VgAway
  BY <1>17 DEF VgAway
<1>18. CASE LuksAway
  BY <1>18 DEF LuksAway, Works, Closed, AskInv, TypeInv, Opens
<1>19. CASE Fail
  BY <1>19, FailLeaves DEF startVars
<1>20. CASE Term
  <2>1. CASE pc' = "done"
    BY <1>20, <2>1, TermLeaves DEF startVars
  <2>2. CASE pc' # "done"
    <3> HIDE DEF TypeInv, DiskInv, Complete, OpenInv, SuccessIsComplete
    <3>1. PICK r \in Outcomes(trap, open) : open' = r.open
      BY <1>20, <2>2 DEF Term, Quit
    <3>2. open'.mnt => open.mnt
      BY <3>1, TrapStarts, TrapLeaves
    <3>3. pc' = pc /\ status' = -1 /\ agreed' = agreed /\ disk' = disk
      BY <1>20, <2>2, TermLeaves DEF TypeInv
    <3>4. DiskInv'
      BY <3>2, <3>3 DEF DiskInv, Complete
    <3> QED BY <3>3, <3>4 DEF SuccessIsComplete
  <2> QED BY <2>1, <2>2
<1> QED
  BY <1>1, <1>2, <1>3, <1>4, <1>5, <1>6, <1>7, <1>8, <1>9, <1>10,
     <1>11, <1>12, <1>13, <1>14, <1>15, <1>16, <1>17, <1>18, <1>19, <1>20 DEF Next, Step

\* The swap of SwapSize: at most 5% of an SSD, and otherwise room for the memory.
LEMMA SwapForFacts ==
  ASSUME NEW q \in Nat, NEW gib \in Nat
  PROVE  /\ SwapFor(q, gib) \in Nat
         /\ Limited => 20 * SwapFor(q, gib) <= gib
         /\ ~Limited \/ 20 * (SwapFor(q, gib) + 1) <= gib => 4 * SwapFor(q, gib) >= q
<1>1. ASSUME NEW n \in Nat
      PROVE  Rounded(n) \in Nat /\ 4 * Rounded(n) + 2 >= n
  <2> DEFINE d == n \div 4
             m == n % 4
             e == d % 2
  <2>1. d \in Nat /\ m \in 0..3 /\ n = 4 * d + m
    OBVIOUS
  <2>2. e \in 0..1
    OBVIOUS
  <2>3. Rounded(n) = IF m = 2 THEN d + e ELSE IF m = 3 THEN d + 1 ELSE d
    BY Zenon DEF Rounded
  <2> HIDE DEF d, m, e
  <2>4. Rounded(n) \in {d, d + e, d + 1} /\ (m = 3 => Rounded(n) = d + 1)
    BY <2>1, <2>3
  <2> QED BY <2>1, <2>2, <2>4
<1> DEFINE mem == IF Rounded(q + 2) < 4 THEN 4 ELSE Rounded(q + 2)
           limit == (gib * 5) \div 100
<1>2. mem \in Nat /\ 4 * mem >= q
  <2>1. q + 2 \in Nat
    OBVIOUS
  <2>2. Rounded(q + 2) \in Nat /\ 4 * Rounded(q + 2) + 2 >= q + 2
    BY <1>1, <2>1
  <2> QED BY <2>2
<1>3. limit \in Nat /\ 20 * limit <= gib /\ gib < 20 * (limit + 1)
  OBVIOUS
<1>4. SwapFor(q, gib) = IF Limited /\ mem > limit THEN limit ELSE mem
  BY DEF SwapFor
<1> HIDE DEF mem, limit
<1> QED BY <1>2, <1>3, <1>4

\* The types of what no operation but a trap changes.
LEMMA SameTypes ==
  ASSUME TypeInv, open' \in Opens, terms' \in 0..MaxTerms,
         UNCHANGED <<arg, use, force, used, memory, size, empty>>,
         stuck' \in BOOLEAN, spilled' \in BOOLEAN,
         pc' \in Begins \cup Prepares \cup Makes \cup Copies \cup Closes \cup {"done"},
         trap' \in {"none", "error", "luks", "vg", "mount"},
         status' \in {-1, 0, 1}, pc' # "done" => status' = -1,
         disk' \in {"own", "table", "luks", "vg", "volumes", "copied", "files", "bootable"},
         swap' \in Nat, agreed' \subseteq {"emmc", "erase", "migrate", "declined"}
  PROVE  TypeInv'
<1>1. {force, used, empty}' \subseteq BOOLEAN
  BY Zenon DEF TypeInv
<1>2. open' \in [mnt : BOOLEAN, vg : {"none", "off", "on", "other"},
                 crypt : {"closed", "ours", "other"}]
      /\ (open'.vg \in {"on", "off"} => open'.crypt = "ours")
  BY Zenon DEF Opens
<1> QED BY <1>1, <1>2 DEF TypeInv, TypeOK

\* Every step keeps the types.
LEMMA StepType ==
  ASSUME TypeInv, OtherInv, OpenInv, Next
  PROVE  TypeInv'
<1> USE DEF Go, Quit, Quiet, startVars, histVars, Begins, Prepares, Makes, Copies, Closes, TypeInv, TypeOK, Opens
<1>1. CASE Policy
  <2>1. /\ pc' \in {"erase", "done"} /\ (pc' # "done" => status' = -1)
        /\ status' \in {-1, 0, 1} /\ agreed' \in {agreed, agreed \cup {"emmc"}}
    BY <1>1 DEF Policy, Answer
  <2>2. /\ UNCHANGED <<arg, use, force, used, memory, size, empty, trap, disk, swap, open>>
        /\ UNCHANGED <<terms, stuck, spilled>>
    BY <1>1 DEF Policy
  <2> QED BY <2>1, <2>2, SameTypes
<1>2. CASE Erase
  <2>1. /\ pc' \in {"used", "done"} /\ (pc' # "done" => status' = -1)
        /\ status' \in {-1, 0, 1} /\ agreed' \in {agreed, agreed \cup {"erase"}}
        /\ trap' \in {trap, "error"}
    BY <1>2 DEF Erase, Answer
  <2>2. /\ UNCHANGED <<arg, use, force, used, memory, size, empty, disk, swap, open>>
        /\ UNCHANGED <<terms, stuck, spilled>>
    BY <1>2 DEF Erase
  <2> QED BY <2>1, <2>2, SameTypes
<1>3. CASE InUse
  BY <1>3 DEF InUse
<1>4. CASE Partition
  BY <1>4 DEF Partition
<1>5. CASE SwapSize
  <2>1. swap' \in Nat
    BY <1>5, SwapForFacts DEF SwapSize
  <2> QED BY <1>5, <2>1 DEF SwapSize
<1>6. CASE Format
  BY <1>6 DEF Format
<1>7. CASE CheckEmpty
  BY <1>7 DEF CheckEmpty
<1>8. CASE LuksOpen
  BY <1>8 DEF LuksOpen
<1>9. CASE VgCreate
  BY <1>9 DEF VgCreate
<1>10. CASE Volumes
  BY <1>10 DEF Volumes
<1>11. CASE AskMigrate
  BY <1>11 DEF AskMigrate, Answer
<1>12. CASE Mount
  BY <1>12 DEF Mount
<1>13. CASE Rsync
  BY <1>13 DEF Rsync
<1>14. CASE WriteFiles
  BY <1>14 DEF WriteFiles
<1>15. CASE Umount
  BY <1>15 DEF Umount
<1>16. CASE RunBootConfig
  BY <1>16 DEF RunBootConfig
<1>17. CASE VgAway
  <2>1. open' \in Opens
    BY <1>17 DEF VgAway, Works, Closed, OpenInv, OtherInv
  <2>2. /\ pc' = "luksaway" /\ trap' = "error" /\ status' = -1
        /\ UNCHANGED <<arg, use, force, used, memory, size, empty, disk, swap, agreed>>
        /\ UNCHANGED <<terms, stuck, spilled>>
    BY <1>17 DEF VgAway
  <2> QED BY <2>1, <2>2, SameTypes
<1>18. CASE LuksAway
  BY <1>18 DEF LuksAway, Works, Closed
<1>19. CASE Fail
  <2>1. PICK r \in Outcomes(trap, open) :
          /\ open' = r.open
          /\ stuck' = \/ stuck \/ r.stuck
                      \/ pc = "umount" /\ open.mnt
                      \/ pc = "vgaway" /\ Works("vg", open)
                      \/ pc = "luksaway" /\ Works("luks", open)
    BY <1>19, Zenon DEF Fail
  <2>2. stuck' \in BOOLEAN
    BY <2>1, Zenon
  <2>3. r.open \in Opens
    <3> HIDE DEF TypeInv, TypeOK, Opens
    <3> QED BY TrapStarts, TrapLeaves
  <2>4. /\ pc' = "done" /\ status' = 1 /\ terms' = terms /\ spilled' = spilled
        /\ UNCHANGED <<arg, use, force, used, memory, size, empty, trap, swap, agreed>>
        /\ disk' \in {disk, "table", "luks", "volumes", "copied", "files"}
    BY <1>19, FailLeaves
  <2> QED BY <2>1, <2>2, <2>3, <2>4, SameTypes
<1>20. CASE Term
  <2>1. terms' \in 0..MaxTerms
    BY <1>20, MaxTermsAssumption DEF Term
  <2>2. CASE trap = "none"
    BY <1>20, <2>1, <2>2 DEF Term
  <2>3. CASE trap # "none"
    <3> HIDE DEF TypeInv, TypeOK, Opens
    <3>1. PICK r \in Outcomes(trap, open) :
            IF r.whole
            THEN /\ open' = r.open
                 /\ UNCHANGED <<pc, status, stuck, failedAt>>
            ELSE /\ \E e \in Outcomes(trap, r.open) :
                      open' = e.open /\ stuck' = (stuck \/ r.stuck \/ e.stuck)
                 /\ Quit(1) /\ failedAt' = pc
      BY <1>20, <2>3 DEF Term
    <3>2. /\ r.open \in Opens /\ r.whole \in BOOLEAN
          /\ trap \in {"vg", "mount"} => r.open.vg # "other"
      BY TrapStarts, TrapLeaves
    <3>3. CASE r.whole
      <4>1. open' \in Opens /\ pc' = pc /\ status' = status /\ stuck' = stuck
        BY <3>1, <3>2, <3>3, Zenon
      <4>2. /\ UNCHANGED <<arg, use, force, used, memory, size, empty, spilled>>
            /\ UNCHANGED <<trap, disk, swap, agreed>>
        BY <1>20, TermLeaves
      <4>3. /\ stuck' \in BOOLEAN /\ spilled' \in BOOLEAN
            /\ pc' \in Begins \cup Prepares \cup Makes \cup Copies \cup Closes \cup {"done"}
            /\ status' \in {-1, 0, 1} /\ (pc' # "done" => status' = -1)
        BY <4>1, <4>2, Zenon DEF TypeInv, TypeOK
      <4> QED BY <2>1, <4>1, <4>2, <4>3, SameTypes DEF TypeInv, TypeOK
    <3>4. CASE ~r.whole
      <4>1. PICK e \in Outcomes(trap, r.open) :
              open' = e.open /\ stuck' = (stuck \/ r.stuck \/ e.stuck)
        BY <3>1, <3>4, Zenon
      <4>2. e.open \in Opens
        BY <3>2, TrapStarts, TrapLeaves
      <4>3. stuck' \in BOOLEAN
        BY <4>1, Zenon
      <4>4. pc' = "done" /\ status' = 1
        BY <3>1, <3>4 DEF Quit
      <4> QED BY <1>20, <2>1, <4>1, <4>2, <4>3, <4>4, TermLeaves, SameTypes DEF TypeInv, TypeOK
    <3> QED BY <3>2, <3>3, <3>4
  <2> QED BY <2>2, <2>3
<1> QED
  BY <1>1, <1>2, <1>3, <1>4, <1>5, <1>6, <1>7, <1>8, <1>9, <1>10,
     <1>11, <1>12, <1>13, <1>14, <1>15, <1>16, <1>17, <1>18, <1>19, <1>20 DEF Next, Step

-----------------------------------------------------------------------------
\* The invariant holds when the script starts.
LEMMA InitIInv == Init => IInv
<1> SUFFICES ASSUME Init PROVE IInv
  OBVIOUS
<1>1. {force, used, empty} \subseteq BOOLEAN
  BY Zenon DEF Init
<1>2. open \in Opens /\ open = open0
  BY DEF Init, Opens
<1>3. memory \in Nat /\ size \in Nat /\ terms \in 0..MaxTerms
  <2>1. memory \in Memories /\ size \in Disks /\ terms = 0
    BY Zenon DEF Init
  <2> QED BY <2>1, SizesAssumption, MaxTermsAssumption DEF SizesAssumption, MaxTermsAssumption
<1>4. stuck \in BOOLEAN /\ spilled \in BOOLEAN /\ ~spilled
  BY Zenon DEF Init
<1>5. TypeInv
  <2>1. open \in [mnt : BOOLEAN, vg : {"none", "off", "on", "other"},
                  crypt : {"closed", "ours", "other"}]
        /\ (open.vg \in {"on", "off"} => open.crypt = "ours")
    BY <1>2, Zenon DEF Opens
  <2>2. TypeOK
    BY <1>3, <1>4, <2>1 DEF Init, TypeOK
  <2> QED BY <1>1, <1>2, <1>3, <2>2 DEF Init, TypeInv, Begins
<1>6. TrapInv
  BY DEF Init, TrapInv, Begins, Prepares
<1>7. AskInv
  BY DEF Init, AskInv, Begins, Makes, Copies, Closes
<1>8. OtherInv
  BY <1>2 DEF Init, OtherInv
<1>9. OpenInv
  BY DEF Init, OpenInv
<1>10. DiskInv
  BY DEF Init, DiskInv, Prepares, Makes, Copies, Closes
<1> QED
  BY <1>4, <1>5, <1>6, <1>7, <1>8, <1>9, <1>10
  DEF IInv, Init, ClosedAtEnd, SuccessIsComplete

\* Every step keeps the invariant.
LEMMA StepIInv == IInv /\ [Next]_vars => IInv'
<1>1. ASSUME IInv, Next
      PROVE  IInv'
  BY <1>1, StepType, StepTrap, StepAsk, StepOther, StepOpen, StepDisk DEF IInv
<1>2. ASSUME IInv, UNCHANGED vars
      PROVE  IInv'
  <2>1. UNCHANGED <<arg, use, force, used, memory, size, empty, open0, pc, trap, status>>
    BY <1>2 DEF vars, startVars
  <2>2. UNCHANGED <<disk, swap, open, agreed, terms, stuck, failedAt, spilled>>
    BY <1>2 DEF vars, histVars
  <2>3. TypeInv'
    <3>1. /\ stuck' \in BOOLEAN /\ spilled' \in BOOLEAN /\ open' \in Opens
      BY <1>2, <2>2, Zenon DEF IInv, TypeInv, TypeOK
    <3> QED BY <1>2, <2>1, <2>2, <3>1, SameTypes DEF IInv, TypeInv, TypeOK
  <2>4. TrapInv' /\ OtherInv' /\ OpenInv'
    BY <1>2, <2>1, <2>2 DEF IInv, TrapInv, OtherInv, OpenInv
  <2>5. AskInv'
    BY <1>2, <2>1, <2>2, SizedKept DEF IInv, AskInv, Allowed
  <2>6. DiskInv' /\ ClosedAtEnd' /\ (spilled => terms > 0)' /\ SuccessIsComplete'
    BY <1>2, <2>1, <2>2 DEF IInv, DiskInv, Complete, ClosedAtEnd, SuccessIsComplete
  <2> QED BY <2>3, <2>4, <2>5, <2>6 DEF IInv
<1> QED BY <1>1, <1>2

\* The invariant holds in every state of the script.
THEOREM Invariant == Spec => []IInv
<1> QED BY InitIInv, StepIInv, PTL DEF Spec

\* Every variable has its type, and volumes of ours are open only through our
\* reform_crypt.
THEOREM TypeCorrect == Spec => []TypeOK
<1>1. IInv => TypeOK
  BY DEF IInv, TypeInv
<1> QED BY <1>1, Invariant, PTL

\* No block device loses its data without a y or --force, nor while it is used,
\* and none of the eMMC's paths against EMMC_USE.
THEOREM EraseIsAgreed == Spec => []EraseAgreed
<1>1. IInv => EraseAgreed
  BY DEF IInv, AskInv, Allowed, EraseAgreed
<1> QED BY <1>1, Invariant, PTL

\* For all memories and disks the swap holds the memory or takes its 5%.
THEOREM SwapAlwaysFits == Spec => []SwapFits
<1>1. IInv => SwapFits
  BY SwapForFacts DEF IInv, TypeInv, AskInv, Sized, SwapFits
<1> QED BY <1>1, Invariant, PTL

\* However the script ends, the target is closed, but for what ClosedAtEnd lists.
THEOREM TargetClosed == Spec => []ClosedAtEnd
<1>1. IInv => ClosedAtEnd
  BY DEF IInv
<1> QED BY <1>1, Invariant, PTL

\* A volume group reformvg that was there before stays as it was, and without a
\* signal the copy never goes to a directory of the running system.
THEOREM OldSystemKept == Spec => []RunningSystemKept
<1>1. IInv => RunningSystemKept
  BY DEF IInv, OtherInv, RunningSystemKept
<1> QED BY <1>1, Invariant, PTL

\* Status 0 means that nothing was done, or that the disk is complete and closed.
THEOREM StatusIsTrue == Spec => []SuccessIsComplete
<1>1. IInv => SuccessIsComplete
  BY DEF IInv
<1> QED BY <1>1, Invariant, PTL
=============================================================================
