-------------------------- MODULE BootConfigProofs --------------------------
(***************************************************************************)
(* Theorems about BootConfig, for every number of signals: types, and that *)
(* the list covers the mounts, that nothing is left behind at the end, that*)
(* status 0 tells the truth, and that the fstab is changed after the copy. *)
(* The inductive invariant says, for every place of the script, which list *)
(* it has (StackInv), what may be mounted (MountInv), who opened the       *)
(* encrypted disk (CryptInv), how far the fstab and the partition have     *)
(* come (FstabInv), and where the copied files and the initramfs are       *)
(* (MoveInv).                                                              *)
(***************************************************************************)
EXTENDS BootConfig, SequenceTheorems, TLAPS

\* The places of the script.
Early == {"ask", "mkfs", "unmount", "luks", "root"}
Roots == {"free", "boot"}
Moves == {"old", "rsync", "oldaway", "fstab", "append", "bind", "initramfs", "unbind",
          "bootaway"}
Late == {"close", "label", "again"}
Steps == Early \cup Roots \cup Moves \cup {"rootaway", "done"} \cup Late

\* The types, the places of the script, and when the status is known.
TypeInv ==
  TypeOK /\ pc \in Steps /\ (pc # "done" => status = -1 /\ ~declined /\ ~torn)

\* What the list holds at every step.
RootList == IF running THEN <<>> ELSE <<"root">>
BootList == IF running THEN <<"boot">> ELSE <<"boot", "root">>
OldList == IF running THEN <<"old", "boot">> ELSE <<"old", "boot", "root">>
BindList == IF running THEN <<"boot">> ELSE <<"binds", "boot", "root">>

StackInv ==
  /\ pc \in Early \cup Late => stack = <<>>
  /\ pc \in Roots \cup {"rootaway"} => stack = RootList
  /\ pc \in {"old", "fstab", "append", "bind", "bootaway"} => stack = BootList
  /\ pc \in {"rsync", "oldaway"} => stack \in {BootList, OldList}
  /\ pc \in {"initramfs", "unbind"} => stack = BindList

\* What may be mounted at every step.
MountInv == pc # "done" =>
  /\ at["root"] \in {"", "root"} /\ at["root/boot"] \in {"", "newboot"}
  /\ at["old"] \in {"", "oldboot"} /\ at["binds"] \in {"", "binds"}
  /\ at["/mnt"] \in {"", "root"}
  /\ at["/boot"] \in Boots \cup {""} /\ at["/media"] \in Boots \cup {""}
  /\ running => at["root"] = "" /\ at["root/boot"] = "" /\ at["binds"] = ""
  /\ at["root/boot"] # "" \/ at["binds"] # "" => at["root"] # ""
  /\ pc \in Early \cup Late => at["root"] = ""
  /\ pc \notin Moves => at["root/boot"] = ""
  /\ at["old"] # "" => pc \in {"rsync", "oldaway"} /\ stack = OldList
  /\ pc \notin {"initramfs", "unbind"} => at["binds"] = ""
  /\ at["/mnt"] # "" => pc \in {"ask", "mkfs", "unmount"}
  /\ pc \in Moves \cup {"boot"} =>
       \A p \in Points : at[p] = "newboot" => p = BootDir

\* The encrypted disk.
CryptInv ==
  /\ crypt = "open" => ~running /\ luks
  /\ pc \in {"ask", "mkfs", "unmount", "luks"} /\ crypt = "open" => crypt0 = "open"
  /\ pc \in {"label", "again"} => crypt = "closed"

\* How far the fstab, and the partition, have come.
FstabInv ==
  /\ pc \in Early \cup Roots \cup {"old", "rsync", "oldaway", "fstab"} => fstab = fstab0
  /\ pc = "append" => fstab = "none"
  /\ pc \in {"bind", "initramfs", "unbind", "bootaway", "rootaway"} \cup Late =>
       fstab = "newboot"
  /\ pc \in {"rsync", "oldaway"} => copy /\ fstab0 = "oldboot"
  /\ pc \in Moves \cup {"rootaway"} \cup Late => part = "ready"
  /\ pc = "again" => ~label
  /\ pc \in Early \cup Roots \cup {"old", "rsync", "oldaway", "fstab", "append", "bind",
                                "initramfs"} => initrd = {}

\* The new partition is mounted where the script writes.
NewMounted == \E p \in Points : at[p] = "newboot"
Copied ==
  copy /\ fstab0 = "oldboot" /\ pc \notin {"old", "rsync"} => has["newboot"] = "copied"
WithInitrd == pc \in {"unbind", "bootaway"} => "newboot" \in initrd

\* Before the second signal the files are where they belong, unless the new
\* partition is not mounted any more, which UmountBoot notices.
MoveInv ==
  /\ pc \in Moves /\ terms = 0 => NewMounted
  /\ pc \in Moves /\ terms < 2 /\ NewMounted => Copied /\ WithInitrd
  /\ pc \in {"rootaway"} \cup Late /\ terms < 2 => Copied /\ "newboot" \in initrd

\* The inductive invariant.
IInv ==
  /\ TypeInv /\ StackInv /\ MountInv /\ CryptInv /\ FstabInv /\ MoveInv
  /\ ClosedAtEnd /\ SuccessIsComplete /\ FstabAfterCopy

-----------------------------------------------------------------------------
Ats == [Points -> Boots \cup {"", "root", "binds"}]
Entries == {"root", "boot", "old", "binds"}

\* What one umount of cleanup does.
LEMMA UmountFacts ==
  ASSUME NEW m \in Ats
  PROVE  /\ \A e \in Entries : Umount(m, e) \in Ats
         /\ \A p \in Points : Umount(m, "boot")[p] = IF m[p] = "newboot" THEN "" ELSE m[p]
         /\ \A e \in {"old", "binds"} : Umount(m, e) = [m EXCEPT ![e] = ""]
         /\ m["root/boot"] = "" /\ m["binds"] = "" =>
              Umount(m, "root") = [m EXCEPT !["root"] = ""]
BY DEF Ats, Umount, Busy, Points, Boots, Entries

\* mount /boot, as the running system's fstab says.
LEMMA MountBootFacts ==
  ASSUME NEW m \in Ats
  PROVE  /\ MountBoot(m) \in Ats
         /\ \A p \in Points \ {"/boot"} : MountBoot(m)[p] = m[p]
         /\ MountBoot(m)["/boot"] \in {m["/boot"], fstab}
         /\ fstab \in Boots /\ part = "ready" => MountBoot(m)["/boot"] = fstab
         /\ fstab \notin Boots => MountBoot(m) = m
BY DEF Ats, MountBoot, Points, Boots

\* cleanup leaves a table of mounts, whatever is on its list.
LEMMA UnmountedType ==
  ASSUME NEW m \in Ats, NEW s \in Seq(Entries)
  PROVE  Unmounted(m, s) \in Ats
<1>1. /\ Len(s) > 0 => s[1] \in Entries
      /\ Len(s) > 1 => s[2] \in Entries
      /\ Len(s) > 2 => s[3] \in Entries
  OBVIOUS
<1> DEFINE one == IF Len(s) > 0 THEN Umount(m, s[1]) ELSE m
           two == IF Len(s) > 1 THEN Umount(one, s[2]) ELSE one
<1>2. one \in Ats
  BY <1>1, UmountFacts
<1> HIDE DEF one
<1>3. two \in Ats
  BY <1>1, <1>2, UmountFacts
<1> HIDE DEF two
<1>4. Len(s) > 2 => Umount(two, s[3]) \in Ats
  BY <1>1, <1>3, UmountFacts
<1> QED BY <1>3, <1>4 DEF Unmounted, one, two

\* cleanup of an empty list, and of lists of one, two and three entries.
LEMMA UnmountedNone ==
  ASSUME NEW m
  PROVE  Unmounted(m, <<>>) = m
BY DEF Unmounted

\* One entry.
LEMMA UnmountedOne ==
  ASSUME NEW m, NEW d
  PROVE  Unmounted(m, <<d>>) = Umount(m, d)
<1>1. Len(<<d>>) = 1 /\ <<d>>[1] = d
  OBVIOUS
<1> QED BY <1>1 DEF Unmounted

\* Two entries, one after the other.
LEMMA UnmountedTwo ==
  ASSUME NEW m, NEW d, NEW e
  PROVE  Unmounted(m, <<d, e>>) = Umount(Umount(m, d), e)
<1>1. Len(<<d, e>>) = 2 /\ <<d, e>>[1] = d /\ <<d, e>>[2] = e
  OBVIOUS
<1> QED BY <1>1 DEF Unmounted

\* Three entries.
LEMMA UnmountedThree ==
  ASSUME NEW m, NEW d, NEW e, NEW f
  PROVE  Unmounted(m, <<d, e, f>>) = Umount(Umount(Umount(m, d), e), f)
<1>1. /\ Len(<<d, e, f>>) = 3 /\ <<d, e, f>>[1] = d
      /\ <<d, e, f>>[2] = e /\ <<d, e, f>>[3] = f
  OBVIOUS
<1> QED BY <1>1 DEF Unmounted

\* What may be left of the mounts m where cleanup went through the lists of the
\* script, in terms of what was there.
LEMMA UnmountedFacts ==
  ASSUME TypeInv, StackInv, MountInv, Trapped
  PROVE  LET m == Unmounted(at, stack)
         IN  /\ m \in Ats
             /\ \A p \in {"root", "root/boot", "old", "binds"} : m[p] = ""
             /\ m["/mnt"] = at["/mnt"]
             /\ m["/boot"] \in {at["/boot"], ""} /\ m["/media"] \in {at["/media"], ""}
<1>1. at \in Ats /\ running \in BOOLEAN
  BY DEF TypeInv, TypeOK, Ats
<1>2. CASE pc \in {"unmount", "luks", "root"}
  <2>1. Unmounted(at, stack) = at
    BY <1>2, UnmountedNone DEF StackInv, Early
  <2> QED BY <1>1, <1>2, <2>1 DEF MountInv, Early, Late, Moves
<1>3. ASSUME NEW x \in Ats, x["root"] \in {"", "root"}, x["root/boot"] \in {"", "newboot"},
             x["old"] = "", x["binds"] = "",
             x["/boot"] \in Boots \cup {""}, x["/media"] \in Boots \cup {""},
             x["/mnt"] \in {"", "root"}
      PROVE  LET b == Umount(x, "boot")
                 m == Umount(b, "root")
             IN  /\ b \in Ats /\ b["root/boot"] = "" /\ b["old"] = "" /\ b["binds"] = ""
                 /\ b["root"] = x["root"] /\ b["/mnt"] = x["/mnt"]
                 /\ b["/boot"] \in {x["/boot"], ""} /\ b["/media"] \in {x["/media"], ""}
                 /\ m = [b EXCEPT !["root"] = ""]
  <2> DEFINE b == Umount(x, "boot")
  <2>1. b \in Ats /\ \A p \in Points : b[p] = IF x[p] = "newboot" THEN "" ELSE x[p]
    BY UmountFacts DEF Entries
  <2> HIDE DEF b
  <2>2. /\ b["root/boot"] = "" /\ b["old"] = "" /\ b["binds"] = ""
        /\ b["root"] = x["root"] /\ b["/mnt"] = x["/mnt"]
        /\ b["/boot"] \in {x["/boot"], ""} /\ b["/media"] \in {x["/media"], ""}
    BY <1>3, <2>1 DEF Points, Boots
  <2>3. Umount(b, "root") = [b EXCEPT !["root"] = ""]
    BY <2>1, <2>2, UmountFacts
  <2> QED BY <2>1, <2>2, <2>3 DEF b
<1>4. /\ at["root"] \in {"", "root"} /\ at["root/boot"] \in {"", "newboot"}
      /\ at["/boot"] \in Boots \cup {""} /\ at["/media"] \in Boots \cup {""}
      /\ at["/mnt"] \in {"", "root"}
      /\ running => at["root"] = "" /\ at["root/boot"] = "" /\ at["binds"] = ""
      /\ at["old"] # "" => stack = OldList
      /\ at["binds"] # "" => pc \in {"initramfs", "unbind"}
  BY DEF MountInv, Trapped
<1> DEFINE x == [at EXCEPT !["old"] = "", !["binds"] = ""]
           b == Umount(x, "boot")
           Fine(m) == /\ m \in Ats
                      /\ \A p \in {"root", "root/boot", "old", "binds"} : m[p] = ""
                      /\ m["/mnt"] = at["/mnt"]
                      /\ m["/boot"] \in {at["/boot"], ""}
                      /\ m["/media"] \in {at["/media"], ""}
<1>5. /\ x \in Ats /\ x["old"] = "" /\ x["binds"] = ""
      /\ \A p \in Points \ {"old", "binds"} : x[p] = at[p]
  BY <1>1 DEF Ats, Points
<1> HIDE DEF x
<1>6. Fine(Umount(b, "root")) /\ (running => Fine(b))
  <2>1. x["root"] = at["root"] /\ x["root/boot"] = at["root/boot"] /\ x["/boot"] = at["/boot"]
        /\ x["/media"] = at["/media"] /\ x["/mnt"] = at["/mnt"]
    BY <1>5 DEF Points
  <2>2. /\ b \in Ats /\ b["root/boot"] = "" /\ b["old"] = "" /\ b["binds"] = ""
        /\ b["root"] = at["root"] /\ b["/mnt"] = at["/mnt"]
        /\ b["/boot"] \in {at["/boot"], ""} /\ b["/media"] \in {at["/media"], ""}
        /\ Umount(b, "root") = [b EXCEPT !["root"] = ""]
    BY <1>3, <1>4, <1>5, <2>1
  <2> HIDE DEF b
  <2>3. [b EXCEPT !["root"] = ""] \in Ats
    BY <2>2 DEF Ats
  <2>4. \A p \in Points \ {"root"} : [b EXCEPT !["root"] = ""][p] = b[p]
    BY <2>2 DEF Ats
  <2>5. [b EXCEPT !["root"] = ""]["root"] = ""
    BY <2>2 DEF Ats, Points
  <2>6. Fine(Umount(b, "root"))
    BY <2>2, <2>3, <2>4, <2>5 DEF Points
  <2> QED BY <1>4, <2>2, <2>6
<1>7. Fine(Unmounted(at, stack)) \/ pc \in {"unmount", "luks", "root"}
  <2>1. CASE pc \in {"free", "boot", "rootaway"}
    <3>1. at["root/boot"] = "" /\ at["binds"] = "" /\ at["old"] = ""
      BY <2>1 DEF MountInv, Moves
    <3>2. Unmounted(at, stack) = IF running THEN at ELSE Umount(at, "root")
      <4>1. stack = IF running THEN <<>> ELSE <<"root">>
        BY <2>1 DEF StackInv, RootList, Roots
      <4>2. Unmounted(at, <<>>) = at /\ Unmounted(at, <<"root">>) = Umount(at, "root")
        BY UnmountedNone, UnmountedOne, Zenon
      <4> QED BY <4>1, <4>2, Zenon
    <3>3. Umount(at, "root") = [at EXCEPT !["root"] = ""]
      BY <1>1, <3>1, UmountFacts
    <3> QED BY <1>1, <1>4, <3>1, <3>2, <3>3 DEF Ats, Points
  <2>2. ASSUME stack = BootList, at["old"] = "", at["binds"] = ""
        PROVE  Fine(Unmounted(at, stack))
    <3>1. x = at
      BY <1>1, <2>2 DEF x, Ats, Points
    <3>2. Unmounted(at, stack) = IF running THEN b ELSE Umount(b, "root")
      <4>1. stack = IF running THEN <<"boot">> ELSE <<"boot", "root">>
        BY <2>2 DEF BootList
      <4>2. /\ Unmounted(at, <<"boot">>) = Umount(at, "boot")
            /\ Unmounted(at, <<"boot", "root">>) = Umount(Umount(at, "boot"), "root")
        BY UnmountedOne, UnmountedTwo
      <4> QED BY <3>1, <4>1, <4>2, Zenon DEF b
    <3> QED BY <1>1, <1>6, <3>2
  <2>3. ASSUME stack = OldList, at["binds"] = ""
        PROVE  Fine(Unmounted(at, stack))
    <3>1. Umount(at, "old") = x
      <4>1. Umount(at, "old") = [at EXCEPT !["old"] = ""]
        BY <1>1, UmountFacts
      <4> QED BY <1>1, <2>3, <4>1 DEF x, Ats, Points
    <3>2. Unmounted(at, stack) = IF running THEN b ELSE Umount(b, "root")
      <4>1. stack = IF running THEN <<"old", "boot">> ELSE <<"old", "boot", "root">>
        BY <2>3 DEF OldList
      <4>2. /\ Unmounted(at, <<"old", "boot">>) = Umount(Umount(at, "old"), "boot")
            /\ Unmounted(at, <<"old", "boot", "root">>) = Umount(Umount(Umount(at, "old"), "boot"), "root")
        BY UnmountedTwo, UnmountedThree
      <4> QED BY <3>1, <4>1, <4>2, Zenon DEF b
    <3> QED BY <1>1, <1>6, <3>2
  <2>4. ASSUME ~running, stack = BindList, at["old"] = ""
        PROVE  Fine(Unmounted(at, stack))
    <3>1. Umount(at, "binds") = x
      <4>1. Umount(at, "binds") = [at EXCEPT !["binds"] = ""]
        BY <1>1, UmountFacts
      <4> QED BY <1>1, <2>4, <4>1 DEF x, Ats, Points
    <3>2. Unmounted(at, stack) = Umount(b, "root")
      <4>1. stack = <<"binds", "boot", "root">>
        BY <2>4 DEF BindList
      <4>2. Unmounted(at, <<"binds", "boot", "root">>) =
              Umount(Umount(Umount(at, "binds"), "boot"), "root")
        BY UnmountedThree
      <4> QED BY <3>1, <4>1, <4>2, Zenon DEF b
    <3> QED BY <1>1, <1>6, <3>2
  <2>5. BootList # OldList /\ BindList # OldList
    BY DEF BootList, OldList, BindList
  <2>6. CASE pc \in {"old", "fstab", "append", "bind", "bootaway"}
    BY <1>4, <2>2, <2>5, <2>6 DEF StackInv
  <2>7. CASE pc \in {"rsync", "oldaway"}
    BY <1>4, <2>2, <2>3, <2>5, <2>7 DEF StackInv
  <2>8. CASE pc \in {"initramfs", "unbind"}
    <3>1. stack = BindList /\ at["old"] = ""
      BY <1>4, <2>5, <2>8 DEF StackInv
    <3>2. CASE running
      BY <1>4, <2>2, <3>1, <3>2 DEF BindList, BootList
    <3> QED BY <2>4, <3>1, <3>2
  <2> QED
    BY <2>1, <2>6, <2>7, <2>8
    DEF TypeInv, Steps, Trapped, Early, Roots, Moves, Late
<1> QED BY <1>2, <1>7

\* What is mounted, and whether the encrypted disk is open, after cleanup.
LEMMA CleanedFacts ==
  ASSUME TypeInv, StackInv, MountInv, Trapped
  PROVE  /\ Cleaned \in Ats
         /\ \A p \in {"root", "root/boot", "old", "binds"} : Cleaned[p] = ""
         /\ Cleaned["/mnt"] = at["/mnt"] /\ Cleaned["/media"] \in {at["/media"], ""}
         /\ Cleaned["/boot"] \in Boots \cup {""}
         /\ ~running => Cleaned["/boot"] \in {at["/boot"], ""}
         /\ CleanedCrypt \in {"closed", crypt}
         /\ ~running /\ luks /\ pc # "unmount" => CleanedCrypt = "closed"
<1> DEFINE m == Unmounted(at, stack)
<1>1. /\ m \in Ats
      /\ \A p \in {"root", "root/boot", "old", "binds"} : m[p] = ""
      /\ m["/mnt"] = at["/mnt"]
      /\ m["/boot"] \in {at["/boot"], ""} /\ m["/media"] \in {at["/media"], ""}
  BY UnmountedFacts
<1>2. Cleaned = IF running THEN MountBoot(m) ELSE m
  BY DEF Cleaned
<1> HIDE DEF m
<1>3. at["/boot"] \in Boots \cup {""} /\ at["/media"] \in Boots \cup {""}
  BY DEF MountInv, Trapped
<1>4. /\ MountBoot(m) \in Ats
      /\ \A p \in Points \ {"/boot"} : MountBoot(m)[p] = m[p]
      /\ MountBoot(m)["/boot"] \in Boots \cup {""}
  BY <1>1, <1>3, MountBootFacts
<1>5. /\ Cleaned \in Ats
      /\ \A p \in {"root", "root/boot", "old", "binds"} : Cleaned[p] = ""
      /\ Cleaned["/mnt"] = at["/mnt"] /\ Cleaned["/media"] \in {at["/media"], ""}
      /\ Cleaned["/boot"] \in Boots \cup {""}
      /\ ~running => Cleaned["/boot"] \in {at["/boot"], ""}
  BY <1>1, <1>2, <1>3, <1>4 DEF Points
<1>6. CleanedCrypt \in {"closed", crypt}
  BY DEF CleanedCrypt, CryptAfter
<1>7. ASSUME ~running, luks, pc # "unmount" PROVE CleanedCrypt = "closed"
  <2>1. at["/mnt"] = ""
    BY <1>7 DEF MountInv, Trapped
  <2>2. \A p \in Points : Cleaned[p] # "root"
    BY <1>3, <1>5, <2>1 DEF Points, Boots
  <2> QED BY <1>7, <2>2 DEF CleanedCrypt, CryptAfter
<1> QED BY <1>5, <1>6, <1>7

\* What a failure, a signal and a power loss leave alone.
LEMMA FailLeaves ==
  ASSUME Fail \/ PowerLoss
  PROVE  /\ pc # "done" /\ pc' = "done" /\ status' = 1
         /\ startVars' = startVars /\ terms' = terms /\ declined' = declined
         /\ fstab' \in {fstab, fstab0, "none"} /\ initrd' \subseteq initrd
         /\ torn' \in {torn, TRUE, FALSE}
         /\ \/ Halfway
            \/ /\ torn' /\ has["newboot"] = "copied"
               /\ has' = [has EXCEPT !["newboot"] = "partial"]
               /\ UNCHANGED medium
<1>1. CASE Fail
  BY <1>1 DEF Fail
<1>2. CASE PowerLoss
  <2>1. /\ pc # "done" /\ pc' = "done" /\ status' = 1
        /\ startVars' = startVars /\ terms' = terms /\ declined' = declined
    BY <1>2 DEF PowerLoss
  <2>2. fstab' \in {fstab, fstab0, "none"}
    BY <1>2 DEF PowerLoss
  <2>3. initrd' \subseteq initrd
    BY <1>2 DEF PowerLoss
  <2>4. \/ Halfway
        \/ /\ torn' /\ has["newboot"] = "copied"
           /\ has' = [has EXCEPT !["newboot"] = "partial"]
           /\ UNCHANGED medium
    BY <1>2 DEF PowerLoss
  <2>5. torn' \in {torn, TRUE, FALSE}
    BY <1>2 DEF PowerLoss
  <2> QED BY <2>1, <2>2, <2>3, <2>4, <2>5
<1> QED BY <1>1, <1>2

\* What a signal changes: the mounts, the encrypted disk, and the count.
LEMMA TermLeaves ==
  ASSUME Term
  PROVE  /\ Trapped /\ terms < MaxTerms /\ terms' = terms + 1
         /\ at' = Cleaned /\ crypt' = CleanedCrypt
         /\ pc' = pc /\ status' = status /\ stack' = stack /\ startVars' = startVars
         /\ fstab' = fstab /\ has' = has /\ initrd' = initrd
         /\ part' = part /\ label' = label
         /\ stuck' = stuck /\ torn' = torn /\ declined' = declined
BY DEF Term, Cleanup, diskVars, medium

\* What every operation of the script leaves alone, and where it stands.
LEMMA StepLeaves ==
  ASSUME Step
  PROVE  /\ pc # "done" /\ startVars' = startVars
         /\ terms' = terms /\ stuck' = stuck /\ torn' = torn
         /\ declined' = declined \/ Decline
         /\ status' = status \/ Decline \/ MountAgain
         /\ pc' # "done" \/ Decline \/ MountAgain
<1>1. CASE Decline
  BY <1>1 DEF Decline
<1>2. CASE NewTable
  BY <1>2 DEF NewTable, Go, Script
<1>3. CASE Mkfs
  BY <1>3 DEF Mkfs, Go, Script
<1>4. CASE FreeRoot
  BY <1>4 DEF FreeRoot, Go, Script
<1>5. CASE OpenRoot
  BY <1>5 DEF OpenRoot, Go, Script
<1>6. CASE MountRoot
  BY <1>6 DEF MountRoot, Go, Script
<1>7. CASE FreeBoot
  BY <1>7 DEF FreeBoot, Go, Script
<1>8. CASE MountNewBoot
  BY <1>8 DEF MountNewBoot, Go, Script
<1>9. CASE MountOld
  BY <1>9 DEF MountOld, Go, Script
<1>10. CASE Rsync
  BY <1>10 DEF Rsync, Go, Script
<1>11. CASE UmountOld
  BY <1>11 DEF UmountOld, Go, Script
<1>12. CASE CommentFstab
  BY <1>12 DEF CommentFstab, Go, Script
<1>13. CASE AppendFstab
  BY <1>13 DEF AppendFstab, Go, Script
<1>14. CASE BindMounts
  BY <1>14 DEF BindMounts, Go, Script
<1>15. CASE Initramfs
  BY <1>15 DEF Initramfs, Go, Script
<1>16. CASE Unbind
  BY <1>16 DEF Unbind, Go, Script
<1>17. CASE UmountBoot
  BY <1>17 DEF UmountBoot, Go, Script
<1>18. CASE UmountRoot
  BY <1>18 DEF UmountRoot, Go, Script
<1>19. CASE CloseRoot
  BY <1>19 DEF CloseRoot, Go, Script
<1>20. CASE ClearLabel
  BY <1>20 DEF ClearLabel, Go, Script
<1>21. CASE MountAgain
  BY <1>21 DEF MountAgain, Go, Script
<1> QED
  BY <1>1, <1>2, <1>3, <1>4, <1>5, <1>6, <1>7, <1>8, <1>9, <1>10, <1>11,
      <1>12, <1>13, <1>14, <1>15, <1>16, <1>17, <1>18, <1>19, <1>20, <1>21
  DEF Step

-----------------------------------------------------------------------------
\* An entry pushed on a list of one.
LEMMA PushOnOne ==
  ASSUME NEW S, NEW a \in S, NEW b \in S
  PROVE  <<a>> \o <<b>> = <<a, b>>
<1>1. <<a>> \in Seq(S) /\ <<b>> \in Seq(S) /\ <<a, b>> \in Seq(S)
  OBVIOUS
<1> DEFINE s == <<a>> \o <<b>>
<1>2. s \in Seq(S) /\ Len(s) = 2
  BY <1>1, ConcatProperties
<1>3. s[1] = a /\ s[2] = b
  BY <1>1
<1> DEFINE t == <<a, b>>
<1>4. t \in Seq(S) /\ Len(t) = 2 /\ t[1] = a /\ t[2] = b
  BY <1>1
<1> HIDE DEF s, t
<1>5. \A i \in 1..2 : s[i] = t[i]
  BY <1>3, <1>4
<1>6. s = t
  BY <1>2, <1>4, <1>5, SeqEqual
<1> QED BY <1>6 DEF s, t

\* An entry pushed on a list of two.
LEMMA PushOnTwo ==
  ASSUME NEW S, NEW a \in S, NEW b \in S, NEW c \in S
  PROVE  <<a>> \o <<b, c>> = <<a, b, c>>
<1>1. <<a>> \in Seq(S) /\ <<b, c>> \in Seq(S) /\ <<a, b, c>> \in Seq(S)
  OBVIOUS
<1> DEFINE s == <<a>> \o <<b, c>>
<1>2. s \in Seq(S) /\ Len(s) = 3
  BY <1>1, ConcatProperties
<1>3. s[1] = a /\ s[2] = b /\ s[3] = c
  BY <1>1
<1> DEFINE t == <<a, b, c>>
<1>4. t \in Seq(S) /\ Len(t) = 3 /\ t[1] = a /\ t[2] = b /\ t[3] = c
  BY <1>1
<1> HIDE DEF s, t
<1>5. \A i \in 1..3 : s[i] = t[i]
  BY <1>3, <1>4
<1>6. s = t
  BY <1>2, <1>4, <1>5, SeqEqual
<1> QED BY <1>6 DEF s, t

\* The lists of the script: what is pushed, and what is shifted off.
LEMMA ListFacts ==
  /\ <<"boot">> \o RootList = BootList /\ <<"old">> \o BootList = OldList
  /\ BootList # <<>> /\ Head(BootList) = "boot" /\ Tail(BootList) = RootList
  /\ OldList # <<>> /\ Head(OldList) = "old" /\ Tail(OldList) = BootList
  /\ "old" \in ToSet(OldList) /\ "old" \notin ToSet(BootList)
  /\ ~running => /\ <<"root">> \o <<>> = RootList /\ <<"binds">> \o BootList = BindList
                 /\ RootList # <<>> /\ Head(RootList) = "root" /\ Tail(RootList) = <<>>
                 /\ BindList # <<>> /\ Head(BindList) = "binds"
                 /\ Tail(BindList) = BootList
  /\ running => RootList = <<>> /\ BindList = BootList
<1>0. /\ "root" \in Entries /\ "boot" \in Entries /\ "old" \in Entries
      /\ "binds" \in Entries
  BY DEF Entries
<1>1. CASE running
  <2>1. RootList = <<>> /\ BootList = <<"boot">> /\ OldList = <<"old", "boot">>
        /\ BindList = <<"boot">>
    BY <1>1 DEF RootList, BootList, OldList, BindList
  <2>2. "old" \in ToSet(<<"old", "boot">>) /\ "old" \notin ToSet(<<"boot">>)
    <3>1. DOMAIN <<"old", "boot">> = {1, 2} /\ DOMAIN <<"boot">> = {1}
      OBVIOUS
    <3> QED BY <3>1 DEF ToSet
  <2>3. <<"boot">> \o <<>> = <<"boot">> /\ <<"old">> \o <<"boot">> = <<"old", "boot">>
    BY <1>0, PushOnOne
  <2>4. /\ Tail(<<"boot">>) = <<>> /\ Tail(<<"old", "boot">>) = <<"boot">>
        /\ Head(<<"boot">>) = "boot" /\ Head(<<"old", "boot">>) = "old"
        /\ <<"boot">> # <<>> /\ <<"old", "boot">> # <<>>
    OBVIOUS
  <2> QED BY <1>1, <2>1, <2>2, <2>3, <2>4
<1>2. CASE ~running
  <2>1. RootList = <<"root">> /\ BootList = <<"boot", "root">>
        /\ OldList = <<"old", "boot", "root">> /\ BindList = <<"binds", "boot", "root">>
    BY <1>2 DEF RootList, BootList, OldList, BindList
  <2>2. /\ "old" \in ToSet(<<"old", "boot", "root">>)
        /\ "old" \notin ToSet(<<"boot", "root">>)
    <3>1. DOMAIN <<"old", "boot", "root">> = 1..3 /\ DOMAIN <<"boot", "root">> = {1, 2}
      OBVIOUS
    <3> QED BY <3>1 DEF ToSet
  <2>3. /\ <<"boot">> \o <<"root">> = <<"boot", "root">>
        /\ <<"old">> \o <<"boot", "root">> = <<"old", "boot", "root">>
        /\ <<"binds">> \o <<"boot", "root">> = <<"binds", "boot", "root">>
        /\ <<"root">> \o <<>> = <<"root">>
    BY <1>0, PushOnOne, PushOnTwo
  <2>4. /\ Tail(<<"boot", "root">>) = <<"root">> /\ Tail(<<"root">>) = <<>>
        /\ Tail(<<"old", "boot", "root">>) = <<"boot", "root">>
        /\ Tail(<<"binds", "boot", "root">>) = <<"boot", "root">>
    OBVIOUS
  <2> QED BY <1>2, <2>1, <2>2, <2>3, <2>4
<1> QED BY <1>1, <1>2

\* The lists only depend on the root that was chosen.
LEMMA ListsStay ==
  ASSUME startVars' = startVars
  PROVE  /\ RootList' = RootList /\ BootList' = BootList
         /\ OldList' = OldList /\ BindList' = BindList
BY DEF startVars, RootList, BootList, OldList, BindList

\* Every step keeps the list that belongs to it.
LEMMA StackStep ==
  ASSUME TypeInv, StackInv, Next
  PROVE  StackInv'
<1>1. CASE Fail \/ PowerLoss
  <2>1. pc' = "done"
    BY <1>1, FailLeaves
  <2> QED BY <2>1 DEF StackInv, Early, Late, Roots
<1>2. CASE Term
  <2>1. pc' = pc /\ stack' = stack /\ startVars' = startVars
    BY <1>2, TermLeaves
  <2> QED BY <2>1, ListsStay DEF StackInv
<1>3. CASE Step
  <2>0. startVars' = startVars
    BY <1>3, StepLeaves
  <2>1. CASE Decline \/ MountAgain
    BY <2>1 DEF Decline, MountAgain, StackInv, Early, Late, Roots
  <2>2. CASE NewTable
    BY <2>0, <2>2, ListsStay DEF NewTable, Go, StackInv, Early, Late, Roots
  <2>3. CASE Mkfs
    BY <2>0, <2>3, ListsStay DEF Mkfs, Go, StackInv, Early, Late, Roots
  <2>4. CASE FreeRoot
    BY <2>0, <2>4, ListsStay DEF FreeRoot, Go, StackInv, Early, Late, Roots
  <2>5. CASE OpenRoot
    BY <2>0, <2>5, ListsStay DEF OpenRoot, Go, StackInv, Early, Late, Roots
  <2>6. CASE MountRoot
    BY <2>0, <2>6, ListsStay, ListFacts DEF MountRoot, Go, StackInv, Early, Late, Roots
  <2>7. CASE FreeBoot
    BY <2>0, <2>7, ListsStay DEF FreeBoot, Go, StackInv, Early, Late, Roots
  <2>8. CASE MountNewBoot
    BY <2>0, <2>8, ListsStay, ListFacts DEF MountNewBoot, Go, StackInv, Early, Late, Roots
  <2>9. CASE MountOld
    BY <2>0, <2>9, ListsStay, ListFacts DEF MountOld, Go, StackInv, Early, Late, Roots
  <2>10. CASE Rsync
    BY <2>0, <2>10, ListsStay DEF Rsync, Go, StackInv, Early, Late, Roots
  <2>11. CASE UmountOld
    BY <2>0, <2>11, ListsStay, ListFacts
    DEF UmountOld, Go, StackInv, Early, Late, Roots, Pop
  <2>12. CASE CommentFstab
    BY <2>0, <2>12, ListsStay DEF CommentFstab, Go, StackInv, Early, Late, Roots
  <2>13. CASE AppendFstab
    BY <2>0, <2>13, ListsStay DEF AppendFstab, Go, StackInv, Early, Late, Roots
  <2>14. CASE BindMounts
    BY <2>0, <2>14, ListsStay, ListFacts DEF BindMounts, Go, StackInv, Early, Late, Roots
  <2>15. CASE Initramfs
    BY <2>0, <2>15, ListsStay DEF Initramfs, Go, StackInv, Early, Late, Roots
  <2>16. CASE Unbind
    BY <2>0, <2>16, ListsStay, ListFacts DEF Unbind, Go, StackInv, Early, Late, Roots, Pop
  <2>17. CASE UmountBoot
    BY <2>0, <2>17, ListsStay, ListFacts
    DEF UmountBoot, Go, StackInv, Early, Late, Roots, Pop
  <2>18. CASE UmountRoot
    BY <2>0, <2>18, ListsStay DEF UmountRoot, Go, StackInv, Early, Late, Roots
  <2>19. CASE CloseRoot
    BY <2>0, <2>19, ListsStay DEF CloseRoot, Go, StackInv, Early, Late, Roots
  <2>20. CASE ClearLabel
    BY <2>0, <2>20, ListsStay DEF ClearLabel, Go, StackInv, Early, Late, Roots
  <2> QED
    BY <1>3, <2>1, <2>2, <2>3, <2>4, <2>5, <2>6, <2>7, <2>8, <2>9, <2>10, <2>11,
        <2>12, <2>13, <2>14, <2>15, <2>16, <2>17, <2>18, <2>19, <2>20
    DEF Step
<1> QED BY <1>1, <1>2, <1>3 DEF Next

-----------------------------------------------------------------------------
\* The list is one of the script's after every step but the last.
LEMMA StackTypeNext ==
  ASSUME StackInv', pc' \in Steps, pc' # "done", startVars' = startVars
  PROVE  stack' \in Seq(Entries) /\ Len(stack') <= 3
<1>1. stack' \in {<<>>, RootList, BootList, OldList, BindList}
  BY ListsStay DEF StackInv, Steps, Early, Roots, Moves, Late
<1>2. \A s \in {<<>>, RootList, BootList, OldList, BindList} :
        s \in Seq(Entries) /\ Len(s) <= 3
  <2>0. /\ "root" \in Entries /\ "boot" \in Entries /\ "old" \in Entries
        /\ "binds" \in Entries
    BY DEF Entries
  <2>1. /\ <<>> \in Seq(Entries) /\ Len(<<>>) <= 3
        /\ <<"root">> \in Seq(Entries) /\ Len(<<"root">>) <= 3
        /\ <<"boot">> \in Seq(Entries) /\ Len(<<"boot">>) <= 3
        /\ <<"boot", "root">> \in Seq(Entries) /\ Len(<<"boot", "root">>) <= 3
        /\ <<"old", "boot">> \in Seq(Entries) /\ Len(<<"old", "boot">>) <= 3
    BY <2>0
  <2>2. /\ <<"old", "boot", "root">> \in Seq(Entries)
        /\ Len(<<"old", "boot", "root">>) <= 3
        /\ <<"binds", "boot", "root">> \in Seq(Entries)
        /\ Len(<<"binds", "boot", "root">>) <= 3
    BY <2>0
  <2> QED BY <2>1, <2>2 DEF RootList, BootList, OldList, BindList
<1> QED BY <1>1, <1>2

\* No step leaves the table of mounts, the encrypted disk or the list undefined.
LEMMA MountsType ==
  ASSUME TypeInv, StackInv, MountInv, Next
  PROVE  at' \in Ats /\ crypt' \in {"open", "closed"} /\ stack' \in Seq(Entries)
         /\ Len(stack') <= 3
<1>1. /\ at \in Ats /\ crypt \in {"open", "closed"} /\ stack \in Seq(Entries)
      /\ Len(stack) <= 3 /\ pc \in Steps
  BY DEF TypeInv, TypeOK, Ats, Entries
<1>2. \A m \in Ats : MountBoot(m) \in Ats
  BY MountBootFacts
<1>3. \A m : CryptAfter(m) \in {"open", "closed"}
  BY <1>1 DEF CryptAfter
<1>4. CASE Fail
  <2>1. CASE stack' = stack /\ IF Trapped THEN Cleanup ELSE UNCHANGED <<at, crypt>>
    <3>1. CASE Trapped
      BY <1>1, <2>1, <3>1, CleanedFacts DEF Cleanup
    <3> QED BY <1>1, <2>1, <3>1
  <2>2. CASE /\ stack # <<>> /\ stack' = Tail(stack)
             /\ at' = LET m == Unmounted(at, stack')
                      IN  IF running THEN MountBoot(m) ELSE m
             /\ crypt' = CryptAfter(at')
    <3>1. stack' \in Seq(Entries) /\ Len(stack') <= 3
      BY <1>1, <2>2
    <3>2. Unmounted(at, stack') \in Ats
      BY <1>1, <3>1, UnmountedType
    <3>3. MountBoot(Unmounted(at, stack')) \in Ats
      BY <1>2, <3>2
    <3>4. at' \in Ats
      BY <2>2, <3>2, <3>3
    <3> QED BY <1>3, <2>2, <3>1, <3>4
  <2> QED BY <1>4, <2>1, <2>2 DEF Fail
<1>5. CASE PowerLoss
  <2>1. [p \in Points |-> ""] \in Ats
    BY DEF Ats
  <2>2. <<>> \in Seq(Entries) /\ Len(<<>>) = 0
    OBVIOUS
  <2>3. at' = [p \in Points |-> ""] /\ crypt' = "closed"
    BY <1>5 DEF PowerLoss
  <2>4. stack' = <<>>
    BY <1>5 DEF PowerLoss
  <2>5. 0 <= 3
    OBVIOUS
  <2>6. Len(stack') <= 3 /\ stack' \in Seq(Entries)
    BY <2>2, <2>4, <2>5, Zenon
  <2> QED BY <2>1, <2>3, <2>6, Zenon
<1>6. CASE Term
  BY <1>1, <1>6, CleanedFacts, TermLeaves
<1>7. CASE Step
  <2>0. \A p \in Points, v \in Boots \cup {"", "root", "binds"} :
          [at EXCEPT ![p] = v] \in Ats
    BY <1>1 DEF Ats
  <2>1. BootDir \in Points /\ \A p \in {"root", "old", "binds", "/mnt"} : p \in Points
    BY DEF BootDir, Points
  <2>2. \A e \in Entries : Umount(at, e) \in Ats
    BY <1>1, UmountFacts
  <2>3. [Umount(at, "boot") EXCEPT ![BootDir] = ""] \in Ats
    BY <2>1, <2>2 DEF Ats, Entries
  <2>4. stack' \in Seq(Entries) /\ Len(stack') <= 3
    <3>1. CASE pc' # "done"
      <4>1. StackInv'
        BY StackStep
      <4>2. pc' \in Steps
        BY <1>1, <1>7, <3>1
        DEF Step, Decline, NewTable, Mkfs, FreeRoot, OpenRoot, MountRoot, FreeBoot,
            MountNewBoot, MountOld, Rsync, UmountOld, CommentFstab, AppendFstab,
            BindMounts, Initramfs, Unbind, UmountBoot, UmountRoot, CloseRoot, ClearLabel,
            MountAgain, Go, Steps, Early, Roots, Moves, Late
      <4>3. stack' \in Seq(Entries) /\ Len(stack') <= 3
        BY <1>7, <3>1, <4>1, <4>2, StackTypeNext, StepLeaves
      <4> QED BY <4>3
    <3>2. CASE pc' = "done"
      <4>1. stack' = stack
        BY <1>7, <3>2, StepLeaves DEF Decline, MountAgain
      <4> QED BY <1>1, <4>1
    <3> QED BY <3>1, <3>2
  <2>5. at' \in Ats /\ crypt' \in {"open", "closed"}
    <3>1. CASE Decline
      BY <1>1, <3>1 DEF Decline
    <3>2. CASE NewTable
      BY <3>2, <1>1, <2>0, <2>1, <2>2, <2>3 DEF NewTable, Go, Boots, Entries, Pop
    <3>3. CASE Mkfs
      BY <3>3, <1>1, <2>0, <2>1, <2>2, <2>3 DEF Mkfs, Go, Boots, Entries, Pop
    <3>4. CASE FreeRoot
      BY <3>4, <1>1, <2>0, <2>1, <2>2, <2>3 DEF FreeRoot, Go, Boots, Entries, Pop
    <3>5. CASE OpenRoot
      BY <3>5, <1>1, <2>0, <2>1, <2>2, <2>3 DEF OpenRoot, Go, Boots, Entries, Pop
    <3>6. CASE MountRoot
      BY <3>6, <1>1, <2>0, <2>1, <2>2, <2>3 DEF MountRoot, Go, Boots, Entries, Pop
    <3>7. CASE FreeBoot
      BY <3>7, <1>1, <2>0, <2>1, <2>2, <2>3 DEF FreeBoot, Go, Boots, Entries, Pop
    <3>8. CASE MountNewBoot
      BY <3>8, <1>1, <2>0, <2>1, <2>2, <2>3 DEF MountNewBoot, Go, Boots, Entries, Pop
    <3>9. CASE MountOld
      <4>1. /\ at' = at \/ at' = [at EXCEPT !["old"] = "oldboot"]
            /\ crypt' = crypt
        BY <3>9 DEF MountOld
      <4>2. [at EXCEPT !["old"] = "oldboot"] \in Ats
        BY <1>1 DEF Ats, Boots
      <4> QED BY <1>1, <4>1, <4>2, Zenon
    <3>10. CASE Rsync
      BY <3>10, <1>1, <2>0, <2>1, <2>2, <2>3 DEF Rsync, Go, Boots, Entries, Pop
    <3>11. CASE UmountOld
      BY <3>11, <1>1, <2>0, <2>1, <2>2, <2>3 DEF UmountOld, Go, Boots, Entries, Pop
    <3>12. CASE CommentFstab
      BY <3>12, <1>1, <2>0, <2>1, <2>2, <2>3 DEF CommentFstab, Go, Boots, Entries, Pop
    <3>13. CASE AppendFstab
      BY <3>13, <1>1, <2>0, <2>1, <2>2, <2>3 DEF AppendFstab, Go, Boots, Entries, Pop
    <3>14. CASE BindMounts
      BY <3>14, <1>1, <2>0, <2>1, <2>2, <2>3 DEF BindMounts, Go, Boots, Entries, Pop
    <3>15. CASE Initramfs
      BY <3>15, <1>1, <2>0, <2>1, <2>2, <2>3 DEF Initramfs, Go, Boots, Entries, Pop
    <3>16. CASE Unbind
      BY <3>16, <1>1, <2>0, <2>1, <2>2, <2>3 DEF Unbind, Go, Boots, Entries, Pop
    <3>17. CASE UmountBoot
      BY <3>17, <1>1, <2>0, <2>1, <2>2, <2>3 DEF UmountBoot, Go, Boots, Entries, Pop
    <3>18. CASE UmountRoot
      BY <3>18, <1>1, <2>0, <2>1, <2>2, <2>3 DEF UmountRoot, Go, Boots, Entries, Pop
    <3>19. CASE CloseRoot
      BY <3>19, <1>1, <2>0, <2>1, <2>2, <2>3 DEF CloseRoot, Go, Boots, Entries, Pop
    <3>20. CASE ClearLabel
      BY <3>20, <1>1, <2>0, <2>1, <2>2, <2>3 DEF ClearLabel, Go, Boots, Entries, Pop
    <3>21. CASE MountAgain
      BY <1>1, <1>2, <3>21 DEF MountAgain
    <3> QED
      BY <1>7,
         <3>1, <3>2, <3>3, <3>4, <3>5, <3>6, <3>7, <3>8, <3>9, <3>10, <3>11, <3>12,
         <3>13, <3>14, <3>15, <3>16, <3>17, <3>18, <3>19, <3>20, <3>21
      DEF Step
  <2> QED BY <2>4, <2>5
<1> QED BY <1>4, <1>5, <1>6, <1>7 DEF Next

\* The fstab, the partitions and the program counter keep their types.
LEMMA DiskType ==
  ASSUME TypeInv, MountInv, Next
  PROVE  /\ fstab' \in Boots \cup {"none"}
         /\ has' \in [Boots -> {"own", "blank", "copied", "partial"}]
         /\ part' \in {"absent", "raw", "ready"} /\ label' \in {label, FALSE}
         /\ initrd' \subseteq Boots \cup {"root"} /\ pc' \in Steps
<1>1. /\ fstab \in Boots \cup {"none"}
      /\ has \in [Boots -> {"own", "blank", "copied", "partial"}]
      /\ part \in {"absent", "raw", "ready"}
      /\ initrd \subseteq Boots \cup {"root"} /\ pc \in Steps
  BY DEF TypeInv, TypeOK
<1>2. CASE Fail \/ PowerLoss
  <2>1. /\ pc' = "done" /\ fstab' \in {fstab, fstab0, "none"} /\ initrd' \subseteq initrd
        /\ \/ Halfway
           \/ has' = [has EXCEPT !["newboot"] = "partial"] /\ UNCHANGED medium
    BY <1>2, FailLeaves
  <2>3. fstab' \in Boots \cup {"none"}
    BY <2>1 DEF TypeInv, TypeOK
  <2>2. /\ has' \in [Boots -> {"own", "blank", "copied", "partial"}]
        /\ part' \in {"absent", "raw", "ready"} /\ label' = label
    BY <1>1, <2>1 DEF Halfway, medium
  <2> QED BY <1>1, <2>1, <2>2, <2>3 DEF Steps
<1>3. CASE Term
  BY <1>1, <1>3, TermLeaves
<1>4. CASE Step
  <2>1. pc # "done" => at[BootDir] \in Boots \cup {""}
    BY DEF MountInv, BootDir, Boots
  <2>2. CASE Decline
    BY <1>1, <2>2 DEF Decline, diskVars, medium, Steps
  <2>3. CASE NewTable
    BY <2>3, <1>1 DEF NewTable, Go, diskVars, medium, Steps, Early, Roots, Moves, Late
  <2>4. CASE Mkfs
    BY <2>4, <1>1 DEF Mkfs, Go, diskVars, medium, Steps, Early, Roots, Moves, Late, Boots
  <2>5. CASE FreeRoot
    BY <2>5, <1>1 DEF FreeRoot, Go, diskVars, medium, Steps, Early, Roots, Moves, Late
  <2>6. CASE OpenRoot
    BY <2>6, <1>1 DEF OpenRoot, Go, diskVars, medium, Steps, Early, Roots, Moves, Late
  <2>7. CASE MountRoot
    BY <2>7, <1>1 DEF MountRoot, Go, diskVars, medium, Steps, Early, Roots, Moves, Late
  <2>8. CASE FreeBoot
    BY <2>8, <1>1 DEF FreeBoot, Go, diskVars, medium, Steps, Early, Roots, Moves, Late
  <2>9. CASE MountNewBoot
    BY <2>9, <1>1 DEF MountNewBoot, Go, diskVars, medium, Steps, Early, Roots, Moves, Late
  <2>10. CASE MountOld
    BY <2>10, <1>1 DEF MountOld, Go, diskVars, medium, Steps, Early, Roots, Moves, Late
  <2>11. CASE Rsync
    BY <2>11, <1>1
    DEF Rsync, Go, diskVars, medium, Steps, Early, Roots, Moves, Late, Boots
  <2>12. CASE UmountOld
    BY <2>12, <1>1 DEF UmountOld, Go, diskVars, medium, Steps, Early, Roots, Moves, Late
  <2>13. CASE CommentFstab
    BY <2>13, <1>1
    DEF CommentFstab, Go, diskVars, medium, Steps, Early, Roots, Moves, Late, Boots
  <2>14. CASE AppendFstab
    BY <2>14, <1>1
    DEF AppendFstab, Go, diskVars, medium, Steps, Early, Roots, Moves, Late, Boots
  <2>15. CASE BindMounts
    BY <2>15, <1>1 DEF BindMounts, Go, diskVars, medium, Steps, Early, Roots, Moves, Late
  <2>16. CASE Initramfs
    BY <2>16, <1>1, <2>1
    DEF Initramfs, Go, diskVars, medium, Steps, Early, Roots, Moves, Late
  <2>17. CASE Unbind
    BY <2>17, <1>1 DEF Unbind, Go, diskVars, medium, Steps, Early, Roots, Moves, Late
  <2>18. CASE UmountBoot
    BY <2>18, <1>1 DEF UmountBoot, Go, diskVars, medium, Steps, Early, Roots, Moves, Late
  <2>19. CASE UmountRoot
    BY <2>19, <1>1 DEF UmountRoot, Go, diskVars, medium, Steps, Early, Roots, Moves, Late
  <2>20. CASE CloseRoot
    BY <2>20, <1>1 DEF CloseRoot, Go, diskVars, medium, Steps, Early, Roots, Moves, Late
  <2>21. CASE ClearLabel
    BY <2>21, <1>1 DEF ClearLabel, Go, diskVars, medium, Steps, Early, Roots, Moves, Late
  <2>22. CASE MountAgain
    BY <1>1, <2>22 DEF MountAgain, diskVars, medium, Steps
  <2> QED
    BY <1>4,
       <2>2, <2>3, <2>4, <2>5, <2>6, <2>7, <2>8, <2>9, <2>10, <2>11, <2>12, <2>13, <2>14,
       <2>15, <2>16, <2>17, <2>18, <2>19, <2>20, <2>21, <2>22
    DEF Step
<1> QED BY <1>2, <1>3, <1>4 DEF Next

\* Every step keeps the types.
LEMMA StepType ==
  ASSUME TypeInv, StackInv, MountInv, Next
  PROVE  TypeInv'
<1>1. startVars' = startVars
  <2>1. CASE Step
    BY <2>1, StepLeaves
  <2>2. CASE Term
    BY <2>2, TermLeaves
  <2>3. CASE Fail \/ PowerLoss
    BY <2>3, FailLeaves
  <2> QED BY <2>1, <2>2, <2>3 DEF Next
<1>2. stuck' \in BOOLEAN /\ torn' \in BOOLEAN /\ declined' \in BOOLEAN
  <2>1. stuck \in BOOLEAN /\ torn \in BOOLEAN /\ declined \in BOOLEAN
    BY DEF TypeInv, TypeOK
  <2>2. stuck' \in {stuck, TRUE, stuck \/ pc = "close"}
    BY TermLeaves, StepLeaves DEF Next, Fail, PowerLoss
  <2>3. torn' \in {torn, TRUE, FALSE} /\ declined' \in {declined, TRUE}
    BY TermLeaves, StepLeaves, FailLeaves DEF Next, Decline
  <2> QED BY <2>1, <2>2, <2>3, Zenon
<1>3. terms' \in 0..MaxTerms /\ status' \in {-1, 0, 1}
  <2>1. terms \in 0..MaxTerms /\ status \in {-1, 0, 1}
    BY DEF TypeInv, TypeOK
  <2>2. CASE Step
    BY <2>1, <2>2, StepLeaves DEF Decline, MountAgain
  <2>3. CASE Term
    BY <2>1, <2>3, MaxTermsAssumption, TermLeaves DEF MaxTermsAssumption
  <2>4. CASE Fail \/ PowerLoss
    BY <2>1, <2>4, FailLeaves
  <2> QED BY <2>2, <2>3, <2>4 DEF Next
<1>4. pc' # "done" => status' = -1 /\ ~declined' /\ ~torn'
  <2>1. pc # "done" => status = -1 /\ ~declined /\ ~torn
    BY DEF TypeInv
  <2>2. CASE Step
    BY <2>1, <2>2, StepLeaves
    DEF Decline, MountAgain
  <2>3. CASE Term
    BY <2>1, <2>3, TermLeaves DEF Trapped
  <2>4. CASE Fail \/ PowerLoss
    BY <2>4, FailLeaves
  <2> QED BY <2>2, <2>3, <2>4 DEF Next
<1>5. /\ running' \in BOOLEAN /\ luks' \in BOOLEAN /\ copy' \in BOOLEAN
      /\ fstab0' \in Boots \cup {"none"} /\ crypt0' \in {"open", "closed"}
  BY <1>1, Zenon DEF TypeInv, TypeOK, startVars
<1>6. label' \in BOOLEAN
  BY DiskType, Zenon DEF TypeInv, TypeOK
<1> QED
  BY <1>2, <1>3, <1>4, <1>5, <1>6, DiskType, MountsType, Zenon
  DEF TypeInv, TypeOK, Ats, Entries

-----------------------------------------------------------------------------
\* Every step keeps what may be mounted.
LEMMA MountStep ==
  ASSUME TypeInv, StackInv, MountInv, Next
  PROVE  MountInv'
<1>1. CASE Fail \/ PowerLoss
  <2>1. pc' = "done"
    BY <1>1, FailLeaves
  <2> QED BY <2>1 DEF MountInv
<1>2. CASE Term
  <2>1. /\ pc' = pc /\ stack' = stack /\ startVars' = startVars /\ at' = Cleaned /\ Trapped
    BY <1>2, TermLeaves
  <2>2. OldList' = OldList /\ running' = running
    BY <2>1, ListsStay DEF startVars
  <2>3. /\ \A p \in {"root", "root/boot", "old", "binds"} : at'[p] = ""
        /\ at'["/mnt"] = at["/mnt"] /\ at'["/media"] \in {at["/media"], ""}
        /\ at'["/boot"] \in Boots \cup {""}
        /\ ~running => at'["/boot"] \in {at["/boot"], ""}
    BY <2>1, CleanedFacts
  <2>4. at'["/media"] \in Boots \cup {""} /\ at'["/mnt"] \in {"", "root"}
    BY <2>1, <2>3 DEF MountInv, Trapped
  <2>5. ASSUME pc \in Moves \cup {"boot"}, NEW p \in Points, at'[p] = "newboot"
        PROVE  p = BootDir
    <3>1. pc # "done" /\ \A q \in Points : at[q] = "newboot" => q = BootDir
      BY <2>5 DEF MountInv, Moves
    <3>2. at["/media"] # "newboot" /\ at["/mnt"] # "newboot"
      BY <3>1 DEF BootDir, Points
    <3>3. p = "/boot"
      BY <2>3, <2>5, <3>2 DEF Points
    <3>4. ~running => at["/boot"] = "newboot"
      BY <2>3, <2>5, <3>3
    <3> QED BY <3>1, <3>3, <3>4 DEF BootDir, Points
  <2>6. BootDir' = BootDir
    BY <2>2 DEF BootDir
  <2> QED BY <2>1, <2>2, <2>3, <2>4, <2>5, <2>6 DEF MountInv, Trapped
<1>3. CASE Step
  <2>1. /\ pc # "done" /\ running' = running /\ OldList' = OldList /\ BootDir' = BootDir
        /\ at \in Ats
    <3>1. pc # "done" /\ startVars' = startVars
      BY <1>3, StepLeaves
    <3>2. running' = running /\ BootDir' = BootDir
      BY <3>1 DEF startVars, BootDir
    <3>3. at \in Ats
      BY DEF TypeInv, TypeOK, Ats
    <3> QED BY <3>1, <3>2, <3>3, ListsStay
  <2>2. CASE Decline \/ MountAgain
    BY <2>2 DEF Decline, MountAgain, MountInv
  <2>3. CASE NewTable
    BY <2>3, <2>1 DEF NewTable, MountInv, Early, Moves, Late, Go
  <2>4. CASE Mkfs
    BY <2>4, <2>1 DEF Mkfs, MountInv, Early, Moves, Late, Go
  <2>5. CASE FreeRoot
    BY <2>5, <2>1
    DEF FreeRoot, MountInv, Early, Moves, Late, Go, Ats, Points, Boots, BootDir,
        RootThere
  <2>6. CASE OpenRoot
    BY <2>6, <2>1 DEF OpenRoot, MountInv, Early, Moves, Late, Go
  <2>7. CASE MountRoot
    BY <2>7, <2>1
    DEF MountRoot, MountInv, Early, Moves, Late, Go, Ats, Points, Boots, BootDir,
        RootThere
  <2>8. CASE FreeBoot
    <3>1. /\ Umount(at, "boot") \in Ats
          /\ \A p \in Points : Umount(at, "boot")[p] = IF at[p] = "newboot" THEN "" ELSE at[p]
      BY <2>1, UmountFacts DEF Entries
    <3>2. /\ at' = [Umount(at, "boot") EXCEPT ![BootDir] = ""]
          /\ pc = "free" /\ pc' = "boot" /\ stack' = stack
      BY <2>8 DEF FreeBoot, Go
    <3>3. /\ \A p \in Points : at'[p] # "newboot"
          /\ \A p \in Points : at'[p] \in {at[p], ""}
          /\ \A p \in Points \ {BootDir} : at[p] # "newboot" => at'[p] = at[p]
      BY <3>1, <3>2 DEF Ats, Points
    <3>4. at["root"] \in {"", "root"}
      BY <2>1 DEF MountInv
    <3>5. at'["root"] = at["root"]
      BY <3>3, <3>4 DEF BootDir, Points
    <3> QED BY <2>1, <3>2, <3>3, <3>5 DEF MountInv, Early, Late, Moves, Points, Boots
  <2>9. CASE MountNewBoot
    BY <2>9, <2>1
    DEF MountNewBoot, MountInv, Early, Moves, Late, Go, Ats, Points, Boots, BootDir,
        RootThere
  <2>10. CASE MountOld
    <3>1. /\ pc = "old" /\ pc' \in {"fstab", "rsync"}
          /\ \/ at' = at /\ stack' = stack
             \/ /\ at' = [at EXCEPT !["old"] = "oldboot"] /\ stack' = <<"old">> \o stack
                /\ pc' = "rsync"
      BY <2>10 DEF MountOld
    <3>2. <<"old">> \o stack = OldList
      BY <3>1, ListFacts DEF StackInv
    <3>3. /\ at'["old"] # "" => pc' = "rsync" /\ stack' = OldList
          /\ at'["old"] \in {"", "oldboot"}
          /\ \A p \in Points \ {"old"} : at'[p] = at[p]
      BY <2>1, <3>1, <3>2 DEF MountInv, Ats, Points
    <3> QED BY <2>1, <3>1, <3>3 DEF MountInv, Early, Late, Moves, Points, Boots
  <2>11. CASE Rsync
    BY <2>11, <2>1 DEF Rsync, MountInv, Early, Moves, Late, Go
  <2>12. CASE UmountOld
    <3>1. pc = "oldaway" /\ pc' = "fstab" /\ stack \in {BootList, OldList}
      BY <2>12 DEF UmountOld, Go, StackInv
    <3>2. at'["old"] = "" /\ \A p \in Points \ {"old"} : at'[p] = at[p]
      <4>1. CASE stack = OldList
        <5>1. at' = Umount(at, "old")
          BY <2>12, <4>1, ListFacts DEF UmountOld, Pop
        <5>2. at' = [at EXCEPT !["old"] = ""]
          BY <2>1, <5>1, UmountFacts
        <5> QED BY <2>1, <5>2 DEF Ats, Points
      <4>2. CASE stack # OldList
        <5>1. at' = at
          BY <2>12, <3>1, <4>2, ListFacts DEF UmountOld
        <5>2. at["old"] = ""
          BY <2>1, <4>2 DEF MountInv
        <5> QED BY <5>1, <5>2
      <4> QED BY <4>1, <4>2
    <3> QED BY <2>1, <3>1, <3>2 DEF MountInv, Early, Late, Moves, Points, Boots
  <2>13. CASE CommentFstab
    BY <2>13, <2>1 DEF CommentFstab, MountInv, Early, Moves, Late, Go
  <2>14. CASE AppendFstab
    BY <2>14, <2>1 DEF AppendFstab, MountInv, Early, Moves, Late, Go
  <2>15. CASE BindMounts
    BY <2>15, <2>1
    DEF BindMounts, MountInv, Early, Moves, Late, Go, Ats, Points, Boots, BootDir,
        RootThere
  <2>16. CASE Initramfs
    BY <2>16, <2>1 DEF Initramfs, MountInv, Early, Moves, Late, Go
  <2>17. CASE Unbind
    <3>1. pc = "unbind" /\ pc' = "bootaway" /\ stack = BindList
      BY <2>17 DEF Unbind, Go, StackInv
    <3>2. at'["binds"] = "" /\ \A p \in Points \ {"binds"} : at'[p] = at[p]
      <4>1. CASE ~running
        <5>1. at' = Umount(at, "binds")
          BY <2>17, <3>1, <4>1, ListFacts DEF Unbind, Pop
        <5>2. at' = [at EXCEPT !["binds"] = ""]
          BY <2>1, <5>1, UmountFacts
        <5> QED BY <2>1, <5>2 DEF Ats, Points
      <4>2. CASE running
        BY <2>17, <2>1, <4>2 DEF Unbind, MountInv
      <4> QED BY <4>1, <4>2
    <3>3. at["old"] = "" /\ at["/mnt"] = "" /\ \A p \in Points : at[p] = "newboot" => p = BootDir
      BY <2>1, <3>1 DEF MountInv, Moves
    <3>4. \A p \in Points : at'[p] = "newboot" => p = BootDir
      BY <3>2, <3>3 DEF Points
    <3>5. at'["old"] = "" /\ at'["/mnt"] = ""
      BY <3>2, <3>3 DEF Points
    <3> QED BY <2>1, <3>1, <3>2, <3>4, <3>5
      DEF MountInv, Early, Late, Moves, Points, Boots
  <2>18. CASE UmountBoot
    <3>1. /\ pc = "bootaway" /\ pc' = "rootaway" /\ stack = BootList
      BY <2>18 DEF UmountBoot, Go, StackInv
    <3>2. at' = Umount(at, "boot")
      BY <2>18, <3>1, ListFacts DEF UmountBoot, Pop
    <3>3. \A p \in Points : at'[p] = IF at[p] = "newboot" THEN "" ELSE at[p]
      BY <2>1, <3>2, UmountFacts
    <3> QED BY <2>1, <3>1, <3>3 DEF MountInv, Early, Late, Moves, Points, Boots
  <2>19. CASE UmountRoot
    <3>1. pc = "rootaway" /\ pc' = "close" /\ stack = RootList
      BY <2>19 DEF UmountRoot, Go, StackInv
    <3>2. at["root/boot"] = "" /\ at["binds"] = ""
      BY <2>1, <3>1 DEF MountInv, Moves
    <3>3. at'["root"] = "" /\ \A p \in Points \ {"root"} : at'[p] = at[p]
      <4>1. CASE ~running
        <5>1. at' = Umount(at, "root")
          BY <2>19, <3>1, <4>1, ListFacts DEF UmountRoot, Pop
        <5>2. at' = [at EXCEPT !["root"] = ""]
          BY <2>1, <3>2, <5>1, UmountFacts
        <5> QED BY <2>1, <5>2 DEF Ats, Points
      <4>2. CASE running
        BY <2>19, <2>1, <4>2 DEF UmountRoot, MountInv
      <4> QED BY <4>1, <4>2
    <3> QED BY <2>1, <3>1, <3>2, <3>3 DEF MountInv, Early, Late, Moves, Points, Boots
  <2>20. CASE CloseRoot
    BY <2>20, <2>1 DEF CloseRoot, MountInv, Early, Moves, Late, Go
  <2>21. CASE ClearLabel
    BY <2>21, <2>1 DEF ClearLabel, MountInv, Early, Moves, Late, Go
  <2> QED
    BY <1>3,
       <2>2, <2>3, <2>4, <2>5, <2>6, <2>7, <2>8, <2>9, <2>10, <2>11, <2>12, <2>13, <2>14,
       <2>15, <2>16, <2>17, <2>18, <2>19, <2>20, <2>21
    DEF Step
<1> QED BY <1>1, <1>2, <1>3 DEF Next

-----------------------------------------------------------------------------
\* Every step keeps what is known of the encrypted disk.
LEMMA CryptStep ==
  ASSUME TypeInv, StackInv, MountInv, CryptInv, Next
  PROVE  CryptInv'
<1>1. CASE Fail \/ PowerLoss
  <2>1. pc' = "done" /\ startVars' = startVars /\ pc # "done"
    BY <1>1, FailLeaves
  <2>2. crypt' \in {crypt, "closed"}
    <3>1. \A m : CryptAfter(m) \in {crypt, "closed"}
      BY DEF CryptAfter
    <3> QED BY <1>1, <3>1 DEF Fail, PowerLoss, Cleanup, CleanedCrypt
  <2> QED BY <2>1, <2>2 DEF CryptInv, startVars
<1>2. CASE Term
  <2>1. pc' = pc /\ startVars' = startVars /\ crypt' \in {crypt, "closed"}
    BY <1>2, CleanedFacts, TermLeaves
  <2> QED BY <2>1 DEF CryptInv, startVars
<1>3. CASE Step
  <2>1. CASE Decline
    BY <2>1 DEF Decline, CryptInv, startVars
  <2>2. CASE NewTable
    BY <2>2 DEF NewTable, CryptInv, startVars, Script, Go
  <2>3. CASE Mkfs
    BY <2>3 DEF Mkfs, CryptInv, startVars, Script, Go
  <2>4. CASE FreeRoot
    BY <2>4 DEF FreeRoot, CryptInv, startVars, Script, Go
  <2>5. CASE OpenRoot
    BY <2>5 DEF OpenRoot, CryptInv, startVars, Script, Go
  <2>6. CASE MountRoot
    BY <2>6 DEF MountRoot, CryptInv, startVars, Script, Go
  <2>7. CASE FreeBoot
    BY <2>7 DEF FreeBoot, CryptInv, startVars, Script, Go
  <2>8. CASE MountNewBoot
    BY <2>8 DEF MountNewBoot, CryptInv, startVars, Script, Go
  <2>9. CASE MountOld
    BY <2>9 DEF MountOld, CryptInv, startVars, Script, Go
  <2>10. CASE Rsync
    BY <2>10 DEF Rsync, CryptInv, startVars, Script, Go
  <2>11. CASE UmountOld
    BY <2>11 DEF UmountOld, CryptInv, startVars, Script, Go
  <2>12. CASE CommentFstab
    BY <2>12 DEF CommentFstab, CryptInv, startVars, Script, Go
  <2>13. CASE AppendFstab
    BY <2>13 DEF AppendFstab, CryptInv, startVars, Script, Go
  <2>14. CASE BindMounts
    BY <2>14 DEF BindMounts, CryptInv, startVars, Script, Go
  <2>15. CASE Initramfs
    BY <2>15 DEF Initramfs, CryptInv, startVars, Script, Go
  <2>16. CASE Unbind
    BY <2>16 DEF Unbind, CryptInv, startVars, Script, Go
  <2>17. CASE UmountBoot
    BY <2>17 DEF UmountBoot, CryptInv, startVars, Script, Go
  <2>18. CASE UmountRoot
    BY <2>18 DEF UmountRoot, CryptInv, startVars, Script, Go
  <2>19. CASE CloseRoot
    <3>1. crypt' = "closed"
      BY <2>19 DEF CloseRoot, CryptInv, TypeInv, TypeOK
    <3> QED BY <2>19, <3>1 DEF CloseRoot, CryptInv, Go
  <2>20. CASE ClearLabel
    BY <2>20 DEF ClearLabel, CryptInv, startVars, Script, Go
  <2>21. CASE MountAgain
    BY <2>21 DEF MountAgain, CryptInv, startVars, Script, Go
  <2> QED
    BY <1>3,
       <2>1, <2>2, <2>3, <2>4, <2>5, <2>6, <2>7, <2>8, <2>9, <2>10, <2>11, <2>12, <2>13,
       <2>14, <2>15, <2>16, <2>17, <2>18, <2>19, <2>20, <2>21
    DEF Step
<1> QED BY <1>1, <1>2, <1>3 DEF Next

\* Every step keeps how far the fstab and the partition have come.
LEMMA FstabStep ==
  ASSUME TypeInv, FstabInv, Next
  PROVE  FstabInv'
<1>1. CASE Fail \/ PowerLoss
  <2>1. pc' = "done"
    BY <1>1, FailLeaves
  <2> QED BY <2>1 DEF FstabInv, Early, Roots, Moves, Late
<1>2. CASE Term
  <2>1. /\ pc' = pc /\ startVars' = startVars /\ fstab' = fstab /\ initrd' = initrd
        /\ part' = part /\ label' = label
    BY <1>2, TermLeaves
  <2> QED BY <2>1 DEF FstabInv, startVars
<1>3. CASE Step
  <2>1. CASE Decline
    BY <2>1 DEF Decline, FstabInv, Early, Roots, Moves, Late
  <2>2. CASE NewTable
    BY <2>2
    DEF NewTable, FstabInv, Early, Roots, Moves, Late, startVars, diskVars, medium,
        Script, Go
  <2>3. CASE Mkfs
    BY <2>3
    DEF Mkfs, FstabInv, Early, Roots, Moves, Late, startVars, diskVars, medium, Script,
        Go
  <2>4. CASE FreeRoot
    BY <2>4
    DEF FreeRoot, FstabInv, Early, Roots, Moves, Late, startVars, diskVars, medium,
        Script, Go
  <2>5. CASE OpenRoot
    BY <2>5
    DEF OpenRoot, FstabInv, Early, Roots, Moves, Late, startVars, diskVars, medium,
        Script, Go
  <2>6. CASE MountRoot
    BY <2>6
    DEF MountRoot, FstabInv, Early, Roots, Moves, Late, startVars, diskVars, medium,
        Script, Go
  <2>7. CASE FreeBoot
    BY <2>7
    DEF FreeBoot, FstabInv, Early, Roots, Moves, Late, startVars, diskVars, medium,
        Script, Go
  <2>8. CASE MountNewBoot
    BY <2>8
    DEF MountNewBoot, FstabInv, Early, Roots, Moves, Late, startVars, diskVars, medium,
        Script, Go
  <2>9. CASE MountOld
    BY <2>9
    DEF MountOld, FstabInv, Early, Roots, Moves, Late, startVars, diskVars, medium,
        Script, Go, OldBoot
  <2>10. CASE Rsync
    BY <2>10
    DEF Rsync, FstabInv, Early, Roots, Moves, Late, startVars, diskVars, medium, Script,
        Go
  <2>11. CASE UmountOld
    BY <2>11
    DEF UmountOld, FstabInv, Early, Roots, Moves, Late, startVars, diskVars, medium,
        Script, Go
  <2>12. CASE CommentFstab
    BY <2>12
    DEF CommentFstab, FstabInv, Early, Roots, Moves, Late, startVars, diskVars, medium,
        Script, Go
  <2>13. CASE AppendFstab
    BY <2>13
    DEF AppendFstab, FstabInv, Early, Roots, Moves, Late, startVars, diskVars, medium,
        Script, Go
  <2>14. CASE BindMounts
    BY <2>14
    DEF BindMounts, FstabInv, Early, Roots, Moves, Late, startVars, diskVars, medium,
        Script, Go
  <2>15. CASE Initramfs
    BY <2>15
    DEF Initramfs, FstabInv, Early, Roots, Moves, Late, startVars, diskVars, medium,
        Script, Go
  <2>16. CASE Unbind
    BY <2>16
    DEF Unbind, FstabInv, Early, Roots, Moves, Late, startVars, diskVars, medium, Script,
        Go
  <2>17. CASE UmountBoot
    BY <2>17
    DEF UmountBoot, FstabInv, Early, Roots, Moves, Late, startVars, diskVars, medium,
        Script, Go
  <2>18. CASE UmountRoot
    BY <2>18
    DEF UmountRoot, FstabInv, Early, Roots, Moves, Late, startVars, diskVars, medium,
        Script, Go
  <2>19. CASE CloseRoot
    BY <2>19
    DEF CloseRoot, FstabInv, Early, Roots, Moves, Late, startVars, diskVars, medium,
        Script, Go
  <2>20. CASE ClearLabel
    BY <2>20
    DEF ClearLabel, FstabInv, Early, Roots, Moves, Late, startVars, diskVars, medium,
        Script, Go
  <2>21. CASE MountAgain
    BY <2>21
    DEF MountAgain, FstabInv, Early, Roots, Moves, Late, startVars, diskVars, medium,
        Script, Go
  <2> QED
    BY <1>3,
       <2>1, <2>2, <2>3, <2>4, <2>5, <2>6, <2>7, <2>8, <2>9, <2>10, <2>11, <2>12, <2>13,
       <2>14, <2>15, <2>16, <2>17, <2>18, <2>19, <2>20, <2>21
    DEF Step
<1> QED BY <1>1, <1>2, <1>3 DEF Next

\* Every step keeps the copied files and the initramfs where they belong.
LEMMA MoveStep ==
  ASSUME TypeInv, StackInv, MountInv, FstabInv, MoveInv, Next
  PROVE  MoveInv'
<1>0. terms \in Nat
  <2>1. terms \in 0..MaxTerms
    BY DEF TypeInv, TypeOK
  <2>2. MaxTerms \in Nat
    BY MaxTermsAssumption DEF MaxTermsAssumption
  <2> QED BY <2>1, <2>2
<1>1. CASE Fail \/ PowerLoss
  <2>1. pc' = "done"
    BY <1>1, FailLeaves
  <2> QED BY <2>1 DEF MoveInv, Moves, Late
<1>2. CASE Term
  <2>1. /\ pc' = pc /\ startVars' = startVars /\ fstab' = fstab /\ initrd' = initrd
        /\ has' = has /\ terms' = terms + 1
    BY <1>2, TermLeaves
  <2>2. (Copied => Copied') /\ (WithInitrd => WithInitrd')
    BY <2>1 DEF Copied, WithInitrd, startVars
  <2>3. terms' # 0 /\ (terms' < 2 => terms = 0)
    BY <1>0, <2>1
  <2> QED BY <2>1, <2>2, <2>3 DEF MoveInv
<1>3. CASE Step
  <2>1. CASE Decline
    BY <2>1 DEF Decline, MoveInv, Moves, Late
  <2>0. /\ pc # "done" /\ terms' = terms /\ terms \in Nat /\ at \in Ats
        /\ startVars' = startVars /\ BootDir' = BootDir
    <3>1. pc # "done" /\ terms' = terms /\ startVars' = startVars
      BY <1>3, StepLeaves
    <3>2. BootDir' = BootDir
      BY <3>1 DEF startVars, BootDir
    <3>3. at \in Ats
      BY DEF TypeInv, TypeOK, Ats
    <3> QED BY <1>0, <3>1, <3>2, <3>3
  <2> DEFINE Same == \A p \in Points \ {"old", "binds"} : at'[p] = at[p]
  <2>30. ASSUME pc' # "done", Same
         PROVE  NewMounted' = NewMounted
    <3>1. MountInv'
      BY MountStep
    <3>2. at["old"] # "newboot" /\ at["binds"] # "newboot"
      BY <2>0 DEF MountInv
    <3>3. at'["old"] # "newboot" /\ at'["binds"] # "newboot"
      BY <2>30, <3>1 DEF MountInv
    <3> QED BY <2>30, <3>2, <3>3 DEF NewMounted
  <2>2. CASE NewTable
    BY <2>2 DEF NewTable, MoveInv, Moves, Late, Go
  <2>3. CASE Mkfs
    BY <2>3 DEF Mkfs, MoveInv, Moves, Late, Go
  <2>4. CASE FreeRoot
    BY <2>4 DEF FreeRoot, MoveInv, Moves, Late, Go
  <2>5. CASE OpenRoot
    BY <2>5 DEF OpenRoot, MoveInv, Moves, Late, Go
  <2>6. CASE MountRoot
    BY <2>6 DEF MountRoot, MoveInv, Moves, Late, Go
  <2>7. CASE FreeBoot
    BY <2>7 DEF FreeBoot, MoveInv, Moves, Late, Go
  <2>8. CASE MountNewBoot
    <3>1. at'[BootDir] = "newboot" /\ BootDir \in Points
      BY <2>8, <2>0 DEF MountNewBoot, Ats, BootDir, Points
    <3> QED BY <2>8, <3>1
      DEF MountNewBoot, NewMounted, MoveInv, Copied, WithInitrd, Moves, Late, Go
  <2>9. CASE MountOld
    <3>1. Same
      BY <2>9, <2>0 DEF MountOld, Ats, Points
    <3>2. NewMounted' = NewMounted
      BY <2>9, <2>30, <3>1 DEF MountOld, Go
    <3> QED BY <2>9, <2>0, <3>2
      DEF MountOld, MoveInv, Copied, WithInitrd, Moves, Late, Go, startVars, diskVars,
          medium, FstabInv, OldBoot
  <2>10. CASE Rsync
    <3>1. NewMounted' = NewMounted
      BY <2>10, <2>30 DEF Rsync, Go
    <3>2. at[BootDir] = "newboot" => has'["newboot"] = "copied"
      BY <2>10 DEF Rsync, TypeInv, TypeOK, Boots
    <3>3. NewMounted => at[BootDir] = "newboot"
      BY <2>10 DEF Rsync, Go, NewMounted, MountInv, Moves
    <3> QED BY <2>10, <2>0, <3>1, <3>2, <3>3
      DEF Rsync, MoveInv, Copied, WithInitrd, Moves, Late, Go
  <2>11. CASE UmountOld
    <3>1. Same
      <4>1. at' \in {at, Umount(at, "old")}
        BY <2>11 DEF UmountOld, Pop
      <4>2. Umount(at, "old") = [at EXCEPT !["old"] = ""]
        BY <2>0, UmountFacts
      <4> QED BY <2>0, <4>1, <4>2 DEF Ats, Points
    <3>2. NewMounted' = NewMounted
      BY <2>11, <2>30, <3>1 DEF UmountOld, Go
    <3>3. /\ pc = "oldaway" /\ pc' = "fstab"
          /\ has' = has /\ initrd' = initrd /\ fstab' = fstab
      BY <2>11 DEF UmountOld, Go, diskVars
    <3> QED BY <2>0, <3>2, <3>3 DEF MoveInv, Copied, WithInitrd, Moves, Late, startVars
  <2>12. CASE CommentFstab
    <3>1. Same
      BY <2>12 DEF CommentFstab
    <3>2. NewMounted' = NewMounted
      BY <2>12, <2>30, <3>1 DEF CommentFstab, Go
    <3> QED BY <2>12, <2>0, <3>2
      DEF CommentFstab, MoveInv, Copied, WithInitrd, Moves, Late, Go, startVars,
          diskVars, medium
  <2>13. CASE AppendFstab
    <3>1. Same
      BY <2>13 DEF AppendFstab
    <3>2. NewMounted' = NewMounted
      BY <2>13, <2>30, <3>1 DEF AppendFstab, Go
    <3> QED BY <2>13, <2>0, <3>2
      DEF AppendFstab, MoveInv, Copied, WithInitrd, Moves, Late, Go, startVars, diskVars,
          medium
  <2>14. CASE BindMounts
    <3>1. Same
      BY <2>14, <2>0 DEF BindMounts, Ats, Points
    <3>2. NewMounted' = NewMounted
      BY <2>14, <2>30, <3>1 DEF BindMounts, Go
    <3> QED BY <2>14, <2>0, <3>2
      DEF BindMounts, MoveInv, Copied, WithInitrd, Moves, Late, Go, startVars, diskVars,
          medium
  <2>15. CASE Initramfs
    <3>1. NewMounted' = NewMounted
      BY <2>15, <2>30 DEF Initramfs, Go
    <3>2. NewMounted => at[BootDir] = "newboot"
      BY <2>15 DEF Initramfs, Go, NewMounted, MountInv, Moves
    <3>3. at[BootDir] = "newboot" => "newboot" \in initrd'
      BY <2>15 DEF Initramfs
    <3>4. pc = "initramfs" /\ pc' = "unbind" /\ has' = has
      BY <2>15 DEF Initramfs, Go
    <3> QED BY <2>0, <3>1, <3>2, <3>3, <3>4
      DEF MoveInv, Copied, WithInitrd, Moves, Late, startVars
  <2>16. CASE Unbind
    <3>1. Same
      <4>1. at' \in {at, Umount(at, "binds")}
        BY <2>16 DEF Unbind, Pop
      <4>2. Umount(at, "binds") = [at EXCEPT !["binds"] = ""]
        BY <2>0, UmountFacts
      <4> QED BY <2>0, <4>1, <4>2 DEF Ats, Points
    <3>2. NewMounted' = NewMounted
      BY <2>16, <2>30, <3>1 DEF Unbind, Go
    <3>3. /\ pc = "unbind" /\ pc' = "bootaway"
          /\ has' = has /\ initrd' = initrd /\ fstab' = fstab
      BY <2>16 DEF Unbind, Go, diskVars
    <3> QED BY <2>0, <3>2, <3>3 DEF MoveInv, Copied, WithInitrd, Moves, Late, startVars
  <2>17. CASE UmountBoot
    <3>1. NewMounted
      BY <2>17 DEF UmountBoot, NewMounted
    <3> QED BY <2>17, <2>0, <3>1
      DEF UmountBoot, NewMounted, MoveInv, Copied, WithInitrd, Moves, 
        Late, Go, startVars, diskVars, medium
  <2>18. CASE UmountRoot
    <3>1. /\ pc = "rootaway" /\ pc' = "close" /\ has' = has /\ initrd' = initrd
      BY <2>18 DEF UmountRoot, Go, diskVars
    <3> QED BY <2>0, <3>1 DEF MoveInv, Copied, Moves, Late, startVars
  <2>19. CASE CloseRoot
    BY <2>19, <2>0
    DEF CloseRoot, MoveInv, Copied, WithInitrd, Moves, Late, Go, startVars, diskVars,
        medium
  <2>20. CASE ClearLabel
    BY <2>20, <2>0
    DEF ClearLabel, MoveInv, Copied, WithInitrd, Moves, Late, Go, startVars, diskVars,
        medium
  <2>21. CASE MountAgain
    BY <2>21 DEF MountAgain, MoveInv, Moves, Late, Go
  <2> QED
    BY <1>3,
       <2>1, <2>2, <2>3, <2>4, <2>5, <2>6, <2>7, <2>8, <2>9, <2>10, <2>11, <2>12, <2>13,
       <2>14, <2>15, <2>16, <2>17, <2>18, <2>19, <2>20, <2>21
    DEF Step
<1> QED BY <1>1, <1>2, <1>3 DEF Next

-----------------------------------------------------------------------------
\* However the script ends, nothing it mounted or opened is left behind.
LEMMA ClosedStep ==
  ASSUME TypeInv, StackInv, MountInv, CryptInv, FstabInv, ClosedAtEnd, Next
  PROVE  ClosedAtEnd'
<1>0. at \in Ats
  BY DEF TypeInv, TypeOK, Ats
<1>1. CASE Fail
  <2>1. pc # "done" /\ pc' = "done" /\ status' # 0 /\ startVars' = startVars
    BY <1>1, FailLeaves
  <2>2. CASE /\ stuck' = (stuck \/ pc = "close")
             /\ IF Trapped THEN Cleanup ELSE UNCHANGED <<at, crypt>>
    <3>1. CASE Trapped
      <4>1. at' = Cleaned /\ crypt' = CleanedCrypt
        BY <2>2, <3>1 DEF Cleanup
      <4>2. \A p \in {"root", "root/boot", "old", "binds"} : at'[p] = ""
        BY <3>1, <4>1, CleanedFacts
      <4>3. crypt' = "open" => crypt = "open" /\ crypt0 = "open"
        <5>1. /\ CleanedCrypt \in {"closed", crypt}
              /\ ~running /\ luks /\ pc # "unmount" => CleanedCrypt = "closed"
          BY <3>1, CleanedFacts
        <5>2. CASE crypt = "open"
          BY <4>1, <5>1, <5>2 DEF CryptInv
        <5>3. CASE crypt # "open"
          BY <4>1, <5>1, <5>3
        <5> QED BY <5>2, <5>3
      <4> QED BY <2>1, <4>2, <4>3, Zenon DEF ClosedAtEnd, startVars
    <3>2. CASE ~Trapped
      <4>1. pc \in {"ask", "mkfs", "close", "label", "again"}
        BY <2>1, <3>2 DEF Trapped
      <4>2. /\ at["root"] = "" /\ at["root/boot"] = "" /\ at["binds"] = ""
            /\ at["old"] = ""
        BY <4>1 DEF MountInv, Early, Late, Moves
      <4>3. pc # "close" => (crypt = "open" => crypt0 = "open")
        BY <4>1 DEF CryptInv
      <4>4. at' = at /\ crypt' = crypt /\ (pc = "close" => stuck')
        BY <2>2, <3>2
      <4> QED BY <2>1, <4>2, <4>3, <4>4, Zenon DEF ClosedAtEnd, startVars
    <3> QED BY <3>1, <3>2
  <2>3. CASE stuck' = TRUE
    BY <2>3 DEF ClosedAtEnd
  <2> QED BY <1>1, <2>2, <2>3 DEF Fail
<1>2. CASE PowerLoss
  <2>1. pc' = "done" /\ status' # 0
    BY <1>2, FailLeaves
  <2>2. at' = [p \in Points |-> ""] /\ crypt' = "closed"
    BY <1>2 DEF PowerLoss
  <2>3. \A p \in {"root", "root/boot", "old", "binds"} : at'[p] = ""
    BY <2>2 DEF Points
  <2>4. crypt' # "open"
    BY <2>2
  <2> QED BY <2>1, <2>3, <2>4, Zenon DEF ClosedAtEnd
<1>3. CASE Term
  <2>1. pc' = pc /\ pc # "done"
    BY <1>3, TermLeaves DEF Trapped
  <2> QED BY <2>1 DEF ClosedAtEnd
<1>4. CASE Decline
  <2>1. /\ at["root"] = "" /\ at["root/boot"] = "" /\ at["binds"] = ""
        /\ at["old"] = "" /\ (crypt = "open" => crypt0 = "open")
    BY <1>4 DEF Decline, MountInv, CryptInv, Early, Late, Moves
  <2> QED BY <1>4, <2>1 DEF Decline, startVars, ClosedAtEnd
<1>5. CASE MountAgain
  <2>1. /\ at["root"] = "" /\ at["root/boot"] = "" /\ at["binds"] = ""
        /\ at["old"] = "" /\ crypt = "closed" /\ part = "ready" /\ pc = "again"
    <3>1. crypt \in {"open", "closed"}
      BY DEF TypeInv, TypeOK
    <3> QED BY <1>5, <3>1 DEF MountAgain, MountInv, CryptInv, FstabInv, Early, Late, Moves
  <2>2. /\ at' = IF running THEN MountBoot(at) ELSE at
        /\ startVars' = startVars /\ fstab' = fstab /\ crypt' = crypt
    BY <1>5 DEF MountAgain, Script, diskVars
  <2>3. /\ \A p \in Points \ {"/boot"} : at'[p] = at[p]
        /\ running /\ fstab \in Boots => at'["/boot"] = fstab
    <3>1. CASE running
      BY <1>0, <2>1, <2>2, <3>1, MountBootFacts
    <3>2. CASE ~running
      BY <2>2, <3>2
    <3> QED BY <3>1, <3>2
  <2>4. \A p \in {"root", "root/boot", "old", "binds"} : at'[p] = ""
    BY <2>1, <2>3 DEF Points
  <2>5. crypt' # "open"
    BY <2>1, <2>2
  <2>6. running' = running /\ fstab' = fstab
    BY <2>2 DEF startVars
  <2> QED BY <2>3, <2>4, <2>5, <2>6, Zenon DEF ClosedAtEnd
<1>6. CASE Step /\ pc' # "done"
  BY <1>6 DEF ClosedAtEnd
<1> QED BY <1>1, <1>2, <1>3, <1>4, <1>5, <1>6, StepLeaves DEF Next

\* Status 0 is what it says.
LEMMA SuccessStep ==
  ASSUME TypeInv, FstabInv, MoveInv, SuccessIsComplete, Next
  PROVE  SuccessIsComplete'
<1>0. pc # "done" => status = -1
  BY DEF TypeInv
<1>1. CASE Fail \/ PowerLoss
  <2>1. status' = 1
    BY <1>1, FailLeaves
  <2> QED BY <2>1 DEF SuccessIsComplete
<1>2. CASE Term
  <2>1. status' = -1
    BY <1>0, <1>2, TermLeaves DEF Trapped
  <2> QED BY <2>1 DEF SuccessIsComplete
<1>3. CASE Decline
  <2>1. fstab = fstab0 /\ initrd = {}
    BY <1>3 DEF Decline, FstabInv, Early
  <2> QED BY <1>3, <2>1 DEF Decline, SuccessIsComplete, startVars, diskVars
<1>4. CASE MountAgain
  <2>1. /\ pc = "again" /\ fstab = "newboot" /\ part = "ready" /\ ~label
        /\ terms < 2 => Copied /\ "newboot" \in initrd
    BY <1>4 DEF MountAgain, FstabInv, MoveInv, Late
  <2>2. terms < 2 /\ copy /\ fstab0 = "oldboot" => has["newboot"] = "copied"
    BY <2>1 DEF Copied
  <2>3. /\ fstab' = fstab /\ part' = part /\ label' = label /\ initrd' = initrd
        /\ has' = has /\ terms' = terms /\ copy' = copy /\ fstab0' = fstab0
    BY <1>4 DEF MountAgain, Script, diskVars, medium, startVars
  <2> QED BY <2>1, <2>2, <2>3 DEF SuccessIsComplete
<1>5. CASE Step /\ status' = status
  <2>1. status' = -1
    BY <1>0, <1>5, StepLeaves
  <2> QED BY <2>1 DEF SuccessIsComplete
<1> QED BY <1>1, <1>2, <1>3, <1>4, <1>5, StepLeaves DEF Next

\* Before the fstab names the new partition it has the old one's files.
LEMMA AfterCopyStep ==
  ASSUME TypeInv, FstabInv, MoveInv, FstabAfterCopy, Next
  PROVE  FstabAfterCopy'
<1>0. terms \in Nat
  <2>1. terms \in 0..MaxTerms
    BY DEF TypeInv, TypeOK
  <2>2. MaxTerms \in Nat
    BY MaxTermsAssumption DEF MaxTermsAssumption
  <2> QED BY <2>1, <2>2
<1>4. ASSUME Fail \/ PowerLoss, Halfway, pc = "rsync" => fstab' = fstab \/ torn',
             fstab' = "newboot" /\ fstab0 = "oldboot" => fstab = "newboot"
      PROVE  FstabAfterCopy'
  <2>1. startVars' = startVars /\ terms' = terms /\ ~torn
    BY <1>4, FailLeaves DEF TypeInv
  <2>2. CASE pc = "rsync"
    <3>1. fstab = fstab0
      BY <2>2 DEF FstabInv
    <3> QED BY <1>4, <2>1, <3>1 DEF FstabAfterCopy, startVars
  <2>3. CASE pc # "rsync"
    <3>1. has' = has
      BY <1>4, <2>3 DEF Halfway
    <3> QED BY <1>4, <2>1, <3>1 DEF FstabAfterCopy, startVars
  <2> QED BY <2>2, <2>3
<1>1. CASE Fail
  BY <1>1, <1>4 DEF Fail
<1>5. CASE PowerLoss
  <2>1. fstab' = "newboot" /\ fstab0 = "oldboot" => fstab = "newboot"
    BY <1>5, FailLeaves
  <2>2. pc = "rsync" => fstab' = fstab
    BY <1>5 DEF PowerLoss, FstabUnsaved
  <2>3. CASE torn'
    BY <2>3 DEF FstabAfterCopy
  <2>4. CASE ~torn'
    <3>1. Halfway
      BY <1>5, <2>4, FailLeaves
    <3> QED BY <1>4, <1>5, <2>1, <2>2, <3>1
  <2> QED BY <2>3, <2>4
<1>2. CASE Term
  <2>1. terms' = terms + 1
    BY <1>2, TermLeaves
  <2> QED BY <1>0, <2>1 DEF FstabAfterCopy
<1>3. CASE Step
  <2>1. startVars' = startVars /\ terms' = terms /\ torn' = torn
    BY <1>3, StepLeaves
  <2>2. CASE Mkfs
    BY <2>1, <2>2 DEF Mkfs, Go, FstabInv, Early, FstabAfterCopy, startVars
  <2>3. CASE Rsync
    <3>1. has["newboot"] = "copied" => has'["newboot"] = "copied"
      BY <2>3 DEF Rsync, TypeInv, TypeOK, Boots
    <3> QED BY <2>1, <2>3, <3>1 DEF Rsync, FstabAfterCopy, startVars
  <2>4. CASE CommentFstab
    BY <2>1, <2>4 DEF CommentFstab, FstabAfterCopy, startVars
  <2>5. CASE AppendFstab
    <3>1. pc = "append" /\ has' = has
      BY <2>5 DEF AppendFstab, Go
    <3>2. terms = 0 => Copied
      BY <1>0, <3>1 DEF MoveInv, Moves
    <3>3. terms = 0 /\ copy /\ fstab0 = "oldboot" => has["newboot"] = "copied"
      BY <3>1, <3>2 DEF Copied
    <3> QED BY <1>0, <2>1, <3>1, <3>3 DEF FstabAfterCopy, startVars
  <2>6. CASE has' = has /\ fstab' = fstab
    BY <2>1, <2>6 DEF FstabAfterCopy, startVars
  <2>7. (has' = has /\ fstab' = fstab) \/ Mkfs \/ Rsync \/ CommentFstab \/ AppendFstab
    <3>1. CASE Decline
      BY <3>1 DEF Decline, diskVars
    <3>2. CASE NewTable
      BY <3>2 DEF NewTable, diskVars
    <3>3. CASE FreeRoot
      BY <3>3 DEF FreeRoot, diskVars
    <3>4. CASE OpenRoot
      BY <3>4 DEF OpenRoot, diskVars
    <3>5. CASE MountRoot
      BY <3>5 DEF MountRoot, diskVars
    <3>6. CASE FreeBoot
      BY <3>6 DEF FreeBoot, diskVars
    <3>7. CASE MountNewBoot
      BY <3>7 DEF MountNewBoot, diskVars
    <3>8. CASE MountOld
      BY <3>8 DEF MountOld, diskVars
    <3>9. CASE UmountOld
      BY <3>9 DEF UmountOld, diskVars
    <3>10. CASE BindMounts
      BY <3>10 DEF BindMounts, diskVars
    <3>11. CASE Initramfs
      BY <3>11 DEF Initramfs, diskVars
    <3>12. CASE Unbind
      BY <3>12 DEF Unbind, diskVars
    <3>13. CASE UmountBoot
      BY <3>13 DEF UmountBoot, diskVars
    <3>14. CASE UmountRoot
      BY <3>14 DEF UmountRoot, diskVars
    <3>15. CASE CloseRoot
      BY <3>15 DEF CloseRoot, diskVars
    <3>16. CASE ClearLabel
      BY <3>16 DEF ClearLabel, diskVars
    <3>17. CASE MountAgain
      BY <3>17 DEF MountAgain, diskVars
    <3> QED
      BY <1>3,
         <3>1, <3>2, <3>3, <3>4, <3>5, <3>6, <3>7, <3>8, <3>9, <3>10, <3>11, <3>12,
         <3>13, <3>14, <3>15, <3>16, <3>17
      DEF Step
  <2> QED BY <2>2, <2>3, <2>4, <2>5, <2>6, <2>7
<1> QED BY <1>1, <1>2, <1>3, <1>5 DEF Next

-----------------------------------------------------------------------------
\* The script starts in its invariant.
LEMMA InitInv == Init => IInv
<1> SUFFICES ASSUME Init PROVE IInv
  OBVIOUS
<1>2. /\ at \in Ats /\ at["/boot"] \in Boots \cup {""} /\ at["/media"] \in Boots \cup {""}
      /\ at["/mnt"] \in {"", "root"}
      /\ \A p \in {"root", "root/boot", "old", "binds"} : at[p] = ""
  <2>1. PICK b \in Boots \cup {""}, m \in Boots \cup {""}, r \in {"root", ""} :
          at = [p \in Points |-> IF p = "/boot" THEN b ELSE IF p = "/media" THEN m
                                 ELSE IF p = "/mnt" THEN r ELSE ""]
    BY DEF Init
  <2> QED BY <2>1 DEF Ats, Points, Boots
<1>3. pc = "ask" /\ status = -1 /\ stack = <<>> /\ initrd = {} /\ fstab = fstab0
      /\ crypt = crypt0 /\ terms = 0
  BY DEF Init
<1>4. <<>> \in Seq(Entries) /\ Len(<<>>) = 0
  OBVIOUS
<1>5. /\ running \in BOOLEAN /\ luks \in BOOLEAN /\ copy \in BOOLEAN
      /\ label \in BOOLEAN /\ stuck \in BOOLEAN /\ torn \in BOOLEAN
      /\ declined \in BOOLEAN /\ ~declined /\ ~torn
  BY Zenon DEF Init
<1>6. has \in [Boots -> {"own", "blank", "copied", "partial"}]
  BY DEF Init
<1>7. /\ crypt \in {"closed", "open"} /\ crypt0 \in {"closed", "open"}
      /\ fstab \in Boots \cup {"none"} /\ fstab0 \in Boots \cup {"none"}
      /\ part \in {"absent", "raw", "ready"}
  BY DEF Init
<1>8. terms \in 0..MaxTerms
  <2>1. MaxTerms \in Nat
    BY MaxTermsAssumption DEF MaxTermsAssumption
  <2> QED BY <1>3, <2>1
<1>9. /\ initrd \subseteq Boots \cup {"root"} /\ status \in {-1, 0, 1}
      /\ pc \in Steps /\ (pc # "done" => status = -1 /\ ~declined /\ ~torn)
  BY <1>3, <1>5 DEF Steps, Early
<1>10. stack \in Seq(Entries) /\ Len(stack) <= 3
  BY <1>3, <1>4
<1>11. TypeInv
  BY <1>2, <1>5, <1>6, <1>7, <1>8, <1>9, <1>10, Zenon DEF TypeInv, TypeOK, Ats, Entries
<1>12. StackInv
  BY <1>3 DEF StackInv, Roots
<1>13. MountInv
  BY <1>2, <1>3 DEF MountInv, Moves, Boots
<1>14. CryptInv
  BY <1>3 DEF CryptInv, Init
<1>15. FstabInv
  BY <1>3 DEF FstabInv, Moves, Late
<1>16. MoveInv
  BY <1>3 DEF MoveInv, Moves, Late
<1>17. ClosedAtEnd /\ SuccessIsComplete /\ FstabAfterCopy
  <2>1. pc # "done" /\ status # 0 /\ ~(fstab = "newboot" /\ fstab0 = "oldboot")
    BY <1>3
  <2> QED BY <2>1, Zenon DEF ClosedAtEnd, SuccessIsComplete, FstabAfterCopy
<1> QED BY <1>11, <1>12, <1>13, <1>14, <1>15, <1>16, <1>17 DEF IInv

\* Every step keeps the invariant.
LEMMA NextInv == IInv /\ [Next]_vars => IInv'
<1> SUFFICES ASSUME IInv, [Next]_vars PROVE IInv'
  OBVIOUS
<1>1. CASE Next
  <2>1. TypeInv /\ StackInv /\ MountInv /\ CryptInv /\ FstabInv /\ MoveInv
        /\ ClosedAtEnd /\ SuccessIsComplete /\ FstabAfterCopy
    BY DEF IInv
  <2> QED
    BY <1>1, <2>1, StepType, StackStep, MountStep, CryptStep, FstabStep, MoveStep,
       ClosedStep, SuccessStep, AfterCopyStep, Zenon
    DEF IInv
<1>2. CASE UNCHANGED vars
  <2> USE <1>2 DEF vars, startVars, diskVars, medium
  <2>1. TypeInv' = TypeInv
    BY DEF TypeInv, TypeOK
  <2>2. StackInv' = StackInv
    BY ListsStay DEF StackInv
  <2>3. MountInv' = MountInv
    BY ListsStay DEF MountInv, BootDir
  <2>4. CryptInv' = CryptInv /\ FstabInv' = FstabInv
    BY DEF CryptInv, FstabInv
  <2>5. MoveInv' = MoveInv
    BY DEF MoveInv, NewMounted, Copied, WithInitrd
  <2>6. ClosedAtEnd' = ClosedAtEnd
    BY DEF ClosedAtEnd
  <2>7. SuccessIsComplete' = SuccessIsComplete /\ FstabAfterCopy' = FstabAfterCopy
    BY DEF SuccessIsComplete, FstabAfterCopy
  <2> QED BY <2>1, <2>2, <2>3, <2>4, <2>5, <2>6, <2>7, Zenon DEF IInv
<1> QED BY <1>1, <1>2

\* The entries of lists of one, two and three.
LEMMA EntryListed ==
  ASSUME NEW d, NEW e, NEW f
  PROVE  /\ d \in ToSet(<<d>>) /\ e \in ToSet(<<d, e>>)
         /\ d \in ToSet(<<d, e, f>>) /\ f \in ToSet(<<d, e, f>>)
<1>1. d \in ToSet(<<d>>)
  <2>1. DOMAIN <<d>> = {1} /\ <<d>>[1] = d
    OBVIOUS
  <2> QED BY <2>1 DEF ToSet
<1>2. e \in ToSet(<<d, e>>)
  <2>1. DOMAIN <<d, e>> = {1, 2} /\ <<d, e>>[2] = e
    OBVIOUS
  <2> QED BY <2>1 DEF ToSet
<1>3. d \in ToSet(<<d, e, f>>) /\ f \in ToSet(<<d, e, f>>)
  <2>1. DOMAIN <<d, e, f>> = 1..3 /\ <<d, e, f>>[1] = d /\ <<d, e, f>>[3] = f
    OBVIOUS
  <2> QED BY <2>1 DEF ToSet
<1> QED BY <1>1, <1>2, <1>3

\* The inductive invariant holds in every reachable state.
THEOREM Invariant == Spec => []IInv
BY InitInv, NextInv, PTL DEF Spec

\* TypeOK for every bound on the signals: every variable keeps its type, and the
\* list of cleanup never has more than three entries.
THEOREM TypeCorrect == Spec => []TypeOK
<1>1. IInv => TypeOK
  BY DEF IInv, TypeInv
<1> QED BY <1>1, Invariant, PTL

\* ListCoversMounts: wherever the trap is set, what the script has mounted is on
\* the list that the trap unmounts.
THEOREM NothingUnlisted == Spec => []ListCoversMounts
<1>1. IInv => ListCoversMounts
  <2> SUFFICES ASSUME IInv, Trapped, NEW p \in {"root", "old", "binds"}, at[p] # ""
               PROVE  p \in ToSet(stack)
    BY DEF ListCoversMounts
  <2>1. StackInv /\ MountInv /\ pc \in Steps /\ pc # "done"
    BY DEF IInv, TypeInv, Trapped
  <2>2. CASE p = "old"
    BY <2>1, <2>2, ListFacts DEF MountInv
  <2>3. CASE p \in {"root", "binds"}
    <3>1. ~running /\ pc \notin Early \cup Late
      BY <2>1, <2>3 DEF MountInv, Moves
    <3>2. stack \in {<<"root">>, <<"boot", "root">>, <<"old", "boot", "root">>,
                     <<"binds", "boot", "root">>}
      BY <2>1, <3>1
      DEF StackInv, Steps, Roots, Moves, RootList, BootList, OldList, BindList
    <3>3. p = "binds" => stack = <<"binds", "boot", "root">>
      BY <2>1, <2>3, <3>1 DEF MountInv, StackInv, BindList
    <3>4. /\ "root" \in ToSet(<<"root">>) /\ "root" \in ToSet(<<"boot", "root">>)
          /\ "root" \in ToSet(<<"old", "boot", "root">>)
          /\ "root" \in ToSet(<<"binds", "boot", "root">>)
          /\ "binds" \in ToSet(<<"binds", "boot", "root">>)
      BY EntryListed, Zenon
    <3> QED BY <2>3, <3>2, <3>3, <3>4
  <2> QED BY <2>2, <2>3
<1> QED BY <1>1, Invariant, PTL

\* ClosedAtEnd: whatever fails, and whenever the signals come, nothing that the
\* script mounted stays mounted and no encrypted disk that it opened stays open.
THEOREM NothingLeftBehind == Spec => []ClosedAtEnd
<1>1. IInv => ClosedAtEnd
  BY DEF IInv
<1> QED BY <1>1, Invariant, PTL

\* SuccessIsComplete: status 0 means a declined question or a complete move, even
\* with one signal on the way.
THEOREM StatusIsTrue == Spec => []SuccessIsComplete
<1>1. IInv => SuccessIsComplete
  BY DEF IInv
<1> QED BY <1>1, Invariant, PTL

\* FstabAfterCopy: at no moment, so after no failure, does the fstab name a
\* partition without the copied files, unless the script went on after a signal,
\* or power was lost while that partition was mounted.
THEOREM CopiedBeforeNamed == Spec => []FstabAfterCopy
<1>1. IInv => FstabAfterCopy
  BY DEF IInv
<1> QED BY <1>1, Invariant, PTL
=============================================================================
