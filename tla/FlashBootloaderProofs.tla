----------------------- MODULE FlashBootloaderProofs -----------------------
(***************************************************************************)
(* Theorems about FlashBootloader, for all machine settings, command lines,*)
(* partition tables, sizes and bounds that its assumptions allow: types,   *)
(* that no partition is overwritten, that status 0 tells the truth, that   *)
(* boot0 is protected, and that nothing is written that is not allowed.    *)
(* The inductive invariant says, for every part of the script, which of    *)
(* the policies were checked (PolicyInv), which devices have passed the    *)
(* space check, by their tables or because parted failed (SpaceInv), which *)
(* already hold what was asked for (FlashInv), and when boot0 is writable  *)
(* (LockInv).                                                              *)
(***************************************************************************)
EXTENDS FlashBootloader, TLAPS

\* The parts of the script after its checks, and those that touch a device.
Devices == {"compare", "unlock", "write", "lock", "verify"}
Touches == {"unlock", "write", "lock", "verify"}

\* The policies and the image are checked before the devices are looked at.
PolicyInv ==
  /\ pc \notin {"policy", "done"} => ~Refused
  /\ pc = "fetch" /\ inv.check => flashbin = "latest"
  /\ pc \in {"space", "ask"} \cup Devices /\ inv.image = "" => flashbin = "latest"
  /\ pc \in Devices /\ AsksEmmc => agreed \/ inv.dryrun
  /\ pc \in Touches => ~inv.check /\ ~inv.dryrun

\* The space check has come to device i, or to all, and nothing was written
\* where it found too little space.  It finds nothing where parted fails.
Roomy(d) == d = "boot0" \/ ~TooSmall(d, Queries) \/ d \in unread
Passed(k) == Roomy(Real(inv.args[k]))
SpaceInv ==
  /\ pc \in {"policy", "fetch", "image", "ask"} => i = 1
  /\ pc = "ask" => inv.args # <<>>
  /\ pc = "space" => \A k \in 1..(i - 1) : Passed(k)
  /\ pc \in {"ask"} \cup Devices => \A k \in DOMAIN inv.args : Passed(k)
  /\ \A d \in written : Roomy(d)

\* The devices before i hold what was asked for; the one that is being written
\* may be one of them, under another name.
Holds(k) == disk[Real(inv.args[k])].has = Wanted
Rewritten(k) == pc \in {"lock", "verify"} /\ Real(inv.args[k]) = Real(Device)
FlashInv ==
  pc \in Devices /\ ~inv.dryrun =>
    \A k \in 1..(i - 1) : Holds(k) \/ Rewritten(k)

\* boot0 is writable only around a write to it.
LockInv ==
  faults = 0 /\ ~ro => pc \in {"write", "lock"} /\ OnBoot0(Device)

\* The inductive invariant.
IInv ==
  TypeOK /\ PolicyInv /\ SpaceInv /\ FlashInv /\ LockInv /\ SuccessMeansFlashed

-----------------------------------------------------------------------------
\* No step changes the machine's settings or the command line.
LEMMA Static == Next => machine' = machine /\ inv' = inv
<1> SUFFICES ASSUME Next PROVE machine' = machine /\ inv' = inv
  OBVIOUS
<1>1. CASE Policy
  BY <1>1 DEF Policy
<1>2. CASE Fetch
  BY <1>2 DEF Fetch
<1>3. CASE Image
  BY <1>3 DEF Image
<1>4. CASE Space
  BY <1>4 DEF Space
<1>5. CASE Ask
  BY <1>5 DEF Ask
<1>6. CASE Compare
  BY <1>6 DEF Compare
<1>7. CASE Unlock
  BY <1>7 DEF Unlock
<1>8. CASE Write
  BY <1>8 DEF Write
<1>9. CASE Lock
  BY <1>9 DEF Lock
<1>10. CASE Verify
  BY <1>10 DEF Verify
<1>11. CASE Kill
  BY <1>11 DEF Kill
<1>12. CASE Again
  BY <1>12 DEF Again
<1> QED
  BY <1>1, <1>2, <1>3, <1>4, <1>5, <1>6, <1>7, <1>8, <1>9, <1>10, <1>11, <1>12
  DEF Next

\* So what is computed from them stays.
LEMMA StaticOps ==
  ASSUME machine' = machine, inv' = inv
  PROVE  /\ Refused' = Refused /\ Wanted' = Wanted /\ AsksEmmc' = AsksEmmc
         /\ Start' = Start /\ End' = End
         /\ \A a : OnBoot0(a)' = OnBoot0(a) /\ Real(a)' = Real(a)
BY DEF Refused, Wanted, AsksEmmc, Start, End, OnBoot0, Real, NamesEmmc

\* Every device is one of the disks, and boot0 is the one that is protected.
LEMMA RealFacts ==
  ASSUME NEW a
  PROVE  Real(a) \in Disks /\ (OnBoot0(a) <=> Real(a) = "boot0")
BY DEF Real, Disks

\* What is to be written is one of the known contents.
LEMMA WantedFacts == Wanted \in Contents \ {"broken"}
BY DEF Wanted, Contents

Tables == [Disks -> [label : Labels, first : Nat \cup {-1}, has : Contents]]

\* Writing to a disk leaves the tables and the other disks as they were.
LEMMA WrittenFacts ==
  ASSUME disk \in Tables, NEW d \in Disks, NEW c \in Contents,
         disk' = [disk EXCEPT ![d].has = c]
  PROVE  /\ disk' \in Tables /\ disk'[d].has = c
         /\ \A e \in Disks : disk'[e].label = disk[e].label /\ disk'[e].first = disk[e].first
         /\ \A e \in Disks \ {d} : disk'[e] = disk[e]
BY DEF Tables

\* What a step does to the disks: nothing, or it writes to the one of device i.
LEMMA DiskStep ==
  ASSUME TypeOK, Next
  PROVE  \/ disk' = disk /\ written' \in {written, {}}
         \/ /\ pc = "write" /\ written' = written \cup {Real(Device)}
            /\ \E c \in Contents : disk' = [disk EXCEPT ![Real(Device)].has = c]
<1>1. CASE Policy
  BY <1>1, WantedFacts DEF Policy, hist, Contents
<1>2. CASE Fetch
  BY <1>2, WantedFacts DEF Fetch, hist, Contents
<1>3. CASE Image
  BY <1>3, WantedFacts DEF Image, hist, Contents
<1>4. CASE Space
  BY <1>4, WantedFacts DEF Space, NextCheck, hist, Contents
<1>5. CASE Ask
  BY <1>5, WantedFacts DEF Ask, hist, Contents
<1>6. CASE Compare
  BY <1>6, WantedFacts DEF Compare, hist, Contents
<1>7. CASE Unlock
  BY <1>7, WantedFacts DEF Unlock, hist, Contents
<1>8. CASE Write
  <2>1. PICK c \in {Wanted, "broken"} : disk' = [disk EXCEPT ![Real(Device)].has = c]
    BY <1>8 DEF Write
  <2>2. c \in Contents
    BY <2>1, WantedFacts DEF Contents
  <2> QED BY <1>8, <2>1, <2>2 DEF Write
<1>9. CASE Lock
  BY <1>9, WantedFacts DEF Lock, hist, Contents
<1>10. CASE Verify
  BY <1>10, WantedFacts DEF Verify, hist, Contents
<1>11. CASE Kill
  <2>1. \/ disk' = disk /\ written' = written
        \/ /\ pc = "write" /\ written' = written \cup {Real(Device)}
           /\ disk' = [disk EXCEPT ![Real(Device)].has = "broken"]
    BY <1>11 DEF Kill
  <2>2. "broken" \in Contents
    BY DEF Contents
  <2> QED BY <2>1, <2>2
<1>12. CASE Again
  BY <1>12, WantedFacts DEF Again, hist, Contents
<1> QED
  BY <1>1, <1>2, <1>3, <1>4, <1>5, <1>6, <1>7, <1>8, <1>9, <1>10, <1>11, <1>12
  DEF Next

\* The tables of the disks stay what they are.
LEMMA TablesKept ==
  ASSUME TypeOK, Next
  PROVE  /\ disk' \in Tables
         /\ \A d \in Disks : disk'[d].label = disk[d].label /\ disk'[d].first = disk[d].first
         /\ \A d \in Disks : TooSmall(d, Queries)' = TooSmall(d, Queries)
<1>1. disk \in Tables
  BY DEF TypeOK, Tables
<1>2. /\ disk' \in Tables
      /\ \A d \in Disks : disk'[d].label = disk[d].label /\ disk'[d].first = disk[d].first
  <2>1. CASE disk' = disk
    BY <1>1, <2>1
  <2>2. CASE \E c \in Contents : disk' = [disk EXCEPT ![Real(Device)].has = c]
    <3>1. Real(Device) \in Disks
      BY RealFacts
    <3>2. PICK c \in Contents : disk' = [disk EXCEPT ![Real(Device)].has = c]
      BY <2>2
    <3> QED BY <1>1, <3>1, <3>2, WrittenFacts
  <2> QED BY <2>1, <2>2, DiskStep
<1>3. Start' = Start /\ End' = End
  BY Static, StaticOps
<1> QED BY <1>2, <1>3 DEF TooSmall

\* The command line is a sequence of devices, and the bounds are numbers.
LEMMA ArgsFacts ==
  ASSUME TypeOK
  PROVE  /\ Len(inv.args) \in Nat /\ DOMAIN inv.args = 1..Len(inv.args)
         /\ inv.args # <<>> => Len(inv.args) > 0
         /\ i \in Nat \ {0} /\ faults \in Nat /\ runs \in Nat
<1>1. inv.args \in Seq(Args)
  BY FlashAssumption DEF FlashAssumption, TypeOK
<1>2. MaxFaults \in Nat /\ MaxRuns \in Nat
  BY FlashAssumption DEF FlashAssumption
<1>3. Len(inv.args) \in Nat /\ DOMAIN inv.args = 1..Len(inv.args)
  BY <1>1
<1>4. inv.args # <<>> => Len(inv.args) > 0
  BY <1>1
<1>5. i \in Nat \ {0} /\ faults \in Nat /\ runs \in Nat
  BY <1>2, <1>3 DEF TypeOK
<1> QED BY <1>3, <1>4, <1>5

\* The places of the script.
Places == {"policy", "fetch", "image", "space", "ask", "compare", "unlock", "write",
           "lock", "verify", "done"}

\* Every step keeps the device the script is at inside the command line.
LEMMA PlaceType ==
  ASSUME TypeOK, SpaceInv, Next
  PROVE  /\ pc' \in Places /\ i' \in 1..(Len(inv.args) + 1)
         /\ pc' \in {"space"} \cup Devices => i' \in DOMAIN inv.args
<1>0. /\ Len(inv.args) \in Nat /\ DOMAIN inv.args = 1..Len(inv.args)
      /\ inv.args # <<>> => Len(inv.args) > 0
      /\ i \in 1..(Len(inv.args) + 1) /\ pc \in Places
      /\ pc \in {"space"} \cup Devices => i \in DOMAIN inv.args
  BY ArgsFacts DEF TypeOK, Places, Devices
<1>1. CASE Policy
  BY <1>1, <1>0 DEF Policy, Go, Exit, Places, Devices
<1>2. CASE Fetch
  BY <1>2, <1>0 DEF Fetch, Go, Exit, Places, Devices
<1>3. CASE Image
  <2>1. i = 1 /\ i' = i
    BY <1>3 DEF Image, SpaceInv
  <2>2. pc' = "done" \/ (pc' = "space" /\ inv.args # <<>>)
    BY <1>3 DEF Image, Exit, Go
  <2> QED BY <1>0, <2>1, <2>2 DEF Places, Devices
<1>4. CASE Space
  BY <1>4, <1>0 DEF Space, NextCheck, Go, Exit, Places, Devices
<1>5. CASE Ask
  BY <1>5, <1>0 DEF Ask, Go, Exit, Places, Devices, SpaceInv
<1>6. CASE Compare
  BY <1>6, <1>0 DEF Compare, Go, Exit, Places, Devices, NextDevice
<1>7. CASE Unlock
  BY <1>7, <1>0 DEF Unlock, Go, Exit, Places, Devices
<1>8. CASE Write
  BY <1>8, <1>0 DEF Write, Go, Exit, Places, Devices
<1>9. CASE Lock
  BY <1>9, <1>0 DEF Lock, Go, Exit, Places, Devices
<1>10. CASE Verify
  <2>1. /\ pc = "verify"
        /\ \/ pc' = "done" /\ i' = i
           \/ pc' = "compare" /\ i' = i + 1 /\ i # Len(inv.args)
    BY <1>10 DEF Verify, NextDevice, Exit
  <2> QED BY <1>0, <2>1 DEF Places, Devices
<1>11. CASE Kill
  BY <1>11, <1>0 DEF Kill, Go, Exit, Places, Devices
<1>12. CASE Again
  BY <1>12, <1>0 DEF Again, Go, Exit, Places, Devices
<1> QED
  BY <1>1, <1>2, <1>3, <1>4, <1>5, <1>6, <1>7, <1>8, <1>9, <1>10, <1>11, <1>12
  DEF Next

\* Every step keeps the types of the histories and of the firmware files.
LEMMA StateType ==
  ASSUME TypeOK, Next
  PROVE  /\ status' \in {0, 1} /\ flashbin' \in {flashbin, "latest"} /\ mhdp' = mhdp
         /\ ro' \in {ro, ro /\ ~OnBoot0(Device), ro \/ OnBoot0(Device)}
         /\ declined' \in {declined, TRUE, FALSE} /\ agreed' \in {agreed, TRUE, FALSE}
         /\ runs' \in 1..MaxRuns /\ faults' \in 0..MaxFaults
<1>0. /\ status \in {0, 1} /\ runs \in 1..MaxRuns /\ faults \in 0..MaxFaults
      /\ MaxRuns \in Nat /\ MaxFaults \in Nat
  BY FlashAssumption DEF FlashAssumption, TypeOK
<1>1. CASE Policy
  BY <1>1, <1>0 DEF Policy, Go, Exit, hist, Fault
<1>2. CASE Fetch
  BY <1>2, <1>0 DEF Fetch, Go, Exit, hist, Fault
<1>3. CASE Image
  BY <1>3, <1>0 DEF Image, Go, Exit, hist, Fault
<1>4. CASE Space
  BY <1>4, <1>0 DEF Space, NextCheck, Go, Exit, hist, Fault
<1>5. CASE Ask
  BY <1>5, <1>0 DEF Ask, Go, Exit, hist, Fault
<1>6. CASE Compare
  BY <1>6, <1>0 DEF Compare, Go, Exit, hist, Fault, NextDevice
<1>7. CASE Unlock
  BY <1>7, <1>0 DEF Unlock, Go, Exit, hist, Fault
<1>8. CASE Write
  BY <1>8, <1>0 DEF Write, Go, Exit, hist, Fault
<1>9. CASE Lock
  BY <1>9, <1>0 DEF Lock, Go, Exit, hist, Fault
<1>10. CASE Verify
  BY <1>10, <1>0 DEF Verify, Go, Exit, hist, Fault, NextDevice
<1>11. CASE Kill
  BY <1>11, <1>0 DEF Kill, Go, Exit, hist, Fault
<1>12. CASE Again
  <2>1. runs' = runs + 1 /\ runs < MaxRuns
    BY <1>12 DEF Again
  <2>2. runs' \in 1..MaxRuns
    BY <1>0, <2>1
  <2>3. status' = 0 /\ faults' = faults /\ flashbin' = flashbin /\ mhdp' = mhdp /\ ro' = ro
    BY <1>12 DEF Again
  <2>4. declined' = FALSE /\ agreed' = FALSE
    BY <1>12 DEF Again
  <2> QED BY <1>0, <2>2, <2>3, <2>4
<1> QED
  BY <1>1, <1>2, <1>3, <1>4, <1>5, <1>6, <1>7, <1>8, <1>9, <1>10, <1>11, <1>12
  DEF Next

\* Within a run a device for which parted failed stays one.
LEMMA UnreadStep ==
  ASSUME TypeOK, Next
  PROVE  /\ unread' \subseteq Disks
         /\ \/ unread \subseteq unread'
            \/ pc' = "policy" /\ i' = 1 /\ written' = {}
<1>0. unread \subseteq Disks
  BY DEF TypeOK
<1>1. CASE Space
  <2>1. \/ unread' = unread
        \/ unread' = unread \cup {Real(inv.args[i])}
    BY <1>1 DEF Space
  <2> QED BY <1>0, <2>1, RealFacts
<1>2. CASE Again
  BY <1>2 DEF Again, Go
<1>3. ASSUME Next, ~Space, ~Again PROVE unread' = unread
  BY <1>3 DEF Next, Policy, Fetch, Image, Ask, Compare, Unlock, Write, Lock, Verify,
    Kill, hist
<1> QED BY <1>0, <1>1, <1>2, <1>3

\* Every step keeps the types.
LEMMA StepType ==
  ASSUME TypeOK, SpaceInv, Next
  PROVE  TypeOK'
<1>1. /\ machine' \in Machines /\ inv' \in Invocations /\ inv' = inv
  BY Static DEF TypeOK
<1>2. ro' \in BOOLEAN /\ declined' \in BOOLEAN /\ agreed' \in BOOLEAN
  BY StateType, Zenon DEF TypeOK
<1>3. /\ flashbin' \in {"missing", "stale", "latest"}
      /\ mhdp' \in {"missing", "stale", "latest"}
  BY StateType, Zenon DEF TypeOK
<1>4. written' \subseteq Disks /\ unread' \subseteq Disks
  BY DiskStep, UnreadStep, RealFacts DEF TypeOK
<1>5. disk' \in [Disks -> [label : Labels, first : Nat \cup {-1}, has : Contents]]
  BY TablesKept DEF Tables
<1>6. /\ pc' \in Places /\ i' \in 1..(Len(inv'.args) + 1)
      /\ (pc' \in {"space", "compare", "unlock", "write", "lock", "verify"})
           => i' \in DOMAIN inv'.args
  BY <1>1, PlaceType DEF Devices
<1> QED BY <1>1, <1>2, <1>3, <1>4, <1>5, <1>6, StateType, Zenon DEF TypeOK, Places

-----------------------------------------------------------------------------
\* Every step keeps the checks of the policies and of the image.
LEMMA StepPolicy ==
  ASSUME TypeOK, PolicyInv, Next
  PROVE  PolicyInv'
<1>0. /\ inv' = inv /\ Refused' = Refused /\ AsksEmmc' = AsksEmmc
  BY Static, StaticOps
<1>1. CASE Policy
  BY <1>1, <1>0 DEF Policy, PolicyInv, Devices, Touches, Go, Exit, hist
<1>2. CASE Fetch
  BY <1>2, <1>0 DEF Fetch, PolicyInv, Devices, Touches, Go, Exit, hist
<1>3. CASE Image
  BY <1>3, <1>0 DEF Image, PolicyInv, Devices, Touches, Go, Exit, hist
<1>4. CASE Space
  BY <1>4, <1>0 DEF Space, NextCheck, PolicyInv, Devices, Touches, Go, Exit, hist
<1>5. CASE Ask
  BY <1>5, <1>0 DEF Ask, PolicyInv, Devices, Touches, Go, Exit, hist
<1>6. CASE Compare
  BY <1>6, <1>0 DEF Compare, PolicyInv, Devices, Touches, Go, Exit, hist, NextDevice
<1>7. CASE Unlock
  BY <1>7, <1>0 DEF Unlock, PolicyInv, Devices, Touches, Go, Exit, hist
<1>8. CASE Write
  BY <1>8, <1>0 DEF Write, PolicyInv, Devices, Touches, Go, Exit, hist
<1>9. CASE Lock
  BY <1>9, <1>0 DEF Lock, PolicyInv, Devices, Touches, Go, Exit, hist
<1>10. CASE Verify
  BY <1>10, <1>0 DEF Verify, PolicyInv, Devices, Touches, Go, Exit, hist, NextDevice
<1>11. CASE Kill
  BY <1>11, <1>0 DEF Kill, PolicyInv, Devices, Touches, Go, Exit, hist
<1>12. CASE Again
  BY <1>12, <1>0 DEF Again, PolicyInv, Devices, Touches, Go, Exit, hist
<1> QED
  BY <1>1, <1>2, <1>3, <1>4, <1>5, <1>6, <1>7, <1>8, <1>9, <1>10, <1>11, <1>12
  DEF Next

-----------------------------------------------------------------------------
\* A device that has passed the space check has passed it.
LEMMA PassedKept ==
  ASSUME TypeOK, Next, unread \subseteq unread'
  PROVE  /\ \A d \in Disks : Roomy(d) => Roomy(d)'
         /\ \A k : Passed(k) => Passed(k)'
<1>1. \A d \in Disks : Roomy(d) => Roomy(d)'
  BY TablesKept DEF Roomy
<1>2. \A k : (Real(inv.args[k]))' = Real(inv.args[k])
  BY Static DEF Real, OnBoot0, NamesEmmc
<1>3. \A k : Real(inv.args[k]) \in Disks
  BY RealFacts
<1> QED BY <1>1, <1>2, <1>3 DEF Passed

\* The device that the space check lets pass has passed it.
LEMMA SpacePasses ==
  ASSUME TypeOK, Space, pc' # "done", NEW k, k = i
  PROVE  Passed(k)' /\ NextCheck
<1> DEFINE d == Real(inv.args[k])
<1>1. d \in Disks /\ (Real(inv.args[k]))' = d
  BY RealFacts DEF Real, OnBoot0, NamesEmmc, Space
<1>2. \A e \in Disks : TooSmall(e, Queries)' = TooSmall(e, Queries)
  BY TablesKept DEF Next
<1>3. CASE OnBoot0(inv.args[k])
  <2>1. d = "boot0" /\ NextCheck
    BY <1>3, RealFacts DEF Space
  <2> QED BY <1>1, <2>1 DEF Passed, Roomy
<1>4. CASE ~OnBoot0(inv.args[k])
  <2>1. PICK heard \in SUBSET Queries :
          /\ heard # Queries => unread' = unread \cup {d}
          /\ IF TooSmall(d, heard) THEN Exit(1) /\ UNCHANGED i ELSE NextCheck
    BY <1>4 DEF Space
  <2>2. ~TooSmall(d, heard) /\ NextCheck
    BY <2>1 DEF Exit
  <2>3. d \in unread' \/ ~TooSmall(d, Queries)
    BY <2>1, <2>2
  <2>4. d \in unread' \/ ~TooSmall(d, Queries)'
    BY <1>1, <1>2, <2>3
  <2>5. Roomy(d)'
    BY <1>1, <2>4 DEF Roomy
  <2> QED BY <1>1, <2>2, <2>5 DEF Passed
<1> QED BY <1>3, <1>4

\* Every step keeps what has passed the space check.
LEMMA StepSpace ==
  ASSUME TypeOK, SpaceInv, Next
  PROVE  SpaceInv'
<1>14. CASE ~(unread \subseteq unread')
  <2>1. pc' = "policy" /\ i' = 1 /\ written' = {}
    BY <1>14, UnreadStep
  <2> QED BY <2>1 DEF SpaceInv, Devices
<1>15. SUFFICES ASSUME unread \subseteq unread' PROVE SpaceInv'
  BY <1>14
<1>0. /\ inv' = inv /\ \A k : Passed(k) => Passed(k)'
      /\ DOMAIN inv.args = 1..Len(inv.args) /\ Len(inv.args) \in Nat /\ i \in Nat \ {0}
      /\ inv.args # <<>> => Len(inv.args) > 0
  BY <1>15, Static, PassedKept, ArgsFacts
<1>1. /\ pc' \in {"policy", "fetch", "image", "ask"} => i' = 1
      /\ pc' = "ask" => inv'.args # <<>>
      /\ pc' = "space" => \A k \in 1..(i' - 1) : Passed(k)'
      /\ pc' \in {"ask"} \cup Devices => \A k \in DOMAIN inv'.args : Passed(k)'
  <2>1. CASE Policy
    BY <1>0, <2>1 DEF Policy, SpaceInv, Devices, Go, Exit
  <2>2. CASE Fetch
    BY <1>0, <2>2 DEF Fetch, SpaceInv, Devices, Go, Exit
  <2>3. CASE Image
    <3>1. pc = "image" /\ i = 1 /\ i' = i /\ pc' \in {"done", "space"}
      BY <2>3 DEF Image, SpaceInv, Exit, Go
    <3> QED BY <1>0, <3>1 DEF Devices
  <2>4. CASE Space
    <3>1. pc = "space" /\ i \in DOMAIN inv.args
      BY <2>4 DEF Space, NextCheck, TypeOK
    <3>2. \A k \in 1..(i - 1) : Passed(k)
      BY <3>1 DEF SpaceInv
    <3>3. CASE pc' = "done"
      BY <3>3 DEF Devices
    <3>4. CASE pc' # "done"
      <4>1. /\ \A k : k = i => Passed(k)'
            /\ i' = IF i = Len(inv.args) THEN 1 ELSE i + 1
            /\ pc' = IF i = Len(inv.args) THEN "ask" ELSE "space"
        BY <2>4, <3>1, <3>4, SpacePasses DEF NextCheck
      <4>2. \A k \in 1..i : Passed(k)'
        BY <1>0, <3>2, <4>1
      <4>3. inv.args # <<>>
        BY <3>1
      <4> QED BY <1>0, <3>1, <4>1, <4>2, <4>3 DEF Devices
    <3> QED BY <3>3, <3>4
  <2>5. CASE Ask
    BY <1>0, <2>5 DEF Ask, SpaceInv, Devices, Go, Exit
  <2>6. CASE Compare
    BY <1>0, <2>6 DEF Compare, SpaceInv, Devices, Go, Exit, NextDevice
  <2>7. CASE Unlock
    BY <1>0, <2>7 DEF Unlock, SpaceInv, Devices, Go, Exit
  <2>8. CASE Write
    BY <1>0, <2>8 DEF Write, SpaceInv, Devices, Go, Exit
  <2>9. CASE Lock
    BY <1>0, <2>9 DEF Lock, SpaceInv, Devices, Go, Exit
  <2>10. CASE Verify
    BY <1>0, <2>10 DEF Verify, SpaceInv, Devices, Go, Exit, NextDevice
  <2>11. CASE Kill
    BY <1>0, <2>11 DEF Kill, SpaceInv, Devices, Go, Exit
  <2>12. CASE Again
    BY <1>0, <2>12 DEF Again, SpaceInv, Devices, Go, Exit
  <2> QED
    BY <2>1, <2>2, <2>3, <2>4, <2>5, <2>6, <2>7, <2>8, <2>9, <2>10, <2>11, <2>12 DEF Next
<1>2. \A d \in written' : Roomy(d)'
  <2>1. \A d \in written : d \in Disks /\ Roomy(d)
    BY DEF SpaceInv, TypeOK
  <2>2. \A d \in Disks : Roomy(d) => Roomy(d)'
    BY <1>15, PassedKept
  <2>3. CASE written' \subseteq written
    BY <2>1, <2>2, <2>3
  <2>4. CASE pc = "write" /\ written' = written \cup {Real(Device)}
    <3>1. Passed(i)
      BY <2>4 DEF SpaceInv, TypeOK, Devices
    <3>2. Real(Device) \in Disks /\ Roomy(Real(Device))
      BY <3>1, RealFacts DEF Passed, Device
    <3> QED BY <2>1, <2>2, <2>4, <3>2
  <2> QED BY <2>3, <2>4, DiskStep
<1> QED BY <1>1, <1>2 DEF SpaceInv

\* Every step keeps that the devices before i hold what was asked for.
LEMMA StepFlash ==
  ASSUME TypeOK, SpaceInv, FlashInv, Next
  PROVE  FlashInv'
<1> DEFINE d(k) == Real(inv.args[k])
<1>0. /\ inv' = inv /\ \A k : (Real(inv.args[k]))' = d(k)
      /\ Wanted' = Wanted
      /\ DOMAIN inv.args = 1..Len(inv.args) /\ Len(inv.args) \in Nat /\ i \in Nat \ {0}
      /\ disk \in Tables
  <2>1. machine' = machine /\ inv' = inv
    BY Static
  <2>2. \A k : (Real(inv.args[k]))' = d(k)
    BY <2>1 DEF Real, OnBoot0, NamesEmmc
  <2>3. Wanted' = Wanted
    BY <2>1, StaticOps
  <2> QED BY <2>1, <2>2, <2>3, ArgsFacts DEF TypeOK, Tables
<1>1. SUFFICES ASSUME pc' \in Devices, ~inv.dryrun, NEW k \in 1..(i' - 1)
               PROVE  \/ disk'[d(k)].has = Wanted
                      \/ pc' \in {"lock", "verify"} /\ d(k) = d(i')
  BY <1>0 DEF FlashInv, Holds, Rewritten, Device
<1>2. pc \in Devices /\ k \in 1..(i - 1) =>
        disk[d(k)].has = Wanted \/ (pc \in {"lock", "verify"} /\ d(k) = d(i))
  BY <1>1 DEF FlashInv, Holds, Rewritten, Device
<1>3. CASE Policy
  BY <1>3, <1>0, <1>1, <1>2 DEF Policy, Devices, Go, Exit
<1>4. CASE Fetch
  BY <1>4, <1>0, <1>1, <1>2 DEF Fetch, Devices, Go, Exit
<1>5. CASE Image
  BY <1>5, <1>0, <1>1, <1>2 DEF Image, Devices, Go, Exit
<1>6. CASE Space
  BY <1>6, <1>0, <1>1, <1>2 DEF Space, NextCheck, Devices, Go, Exit
<1>7. CASE Ask
  <2>1. i' = 1
    BY <1>7 DEF Ask, SpaceInv
  <2> QED BY <1>1, <2>1
<1>8. CASE Compare
  <2>1. CASE pc' = "compare"
    <3>1. /\ pc = "compare" /\ disk' = disk /\ disk[d(i)].has = Wanted /\ i' = i + 1
      BY <1>8, <1>1, <2>1 DEF Compare, NextDevice, Exit, Device
    <3>2. k \in 1..(i - 1) \/ k = i
      BY <1>0, <1>1, <3>1
    <3> QED BY <1>2, <3>1, <3>2 DEF Devices
  <2>2. CASE pc' # "compare"
    <3>1. pc = "compare" /\ disk' = disk /\ i' = i
      BY <1>8, <1>1, <2>2 DEF Compare, NextDevice, Exit, Devices
    <3> QED BY <1>1, <1>2, <3>1 DEF Devices
  <2> QED BY <2>1, <2>2
<1>9. CASE Unlock
  BY <1>9, <1>0, <1>1, <1>2 DEF Unlock, Devices, Go, Exit
<1>10. CASE Write
  <2>1. PICK c \in {Wanted, "broken"} :
          /\ disk' = [disk EXCEPT ![Real(Device)].has = c]
          /\ pc' # "done" => pc' = "lock"
    BY <1>10 DEF Write, Exit
  <2>2. pc = "write" /\ i' = i /\ pc' = "lock"
    BY <1>10, <1>1, <2>1 DEF Write, Devices
  <2>3. c \in Contents /\ d(i) \in Disks /\ d(k) \in Disks /\ Real(Device) = d(i)
    BY <2>1, WantedFacts, RealFacts DEF Contents, Device
  <2>4. d(k) # d(i) => disk'[d(k)] = disk[d(k)]
    BY <1>0, <2>1, <2>3, WrittenFacts
  <2> QED BY <1>1, <1>2, <2>2, <2>4 DEF Devices
<1>11. CASE Lock
  BY <1>11, <1>0, <1>1, <1>2 DEF Lock, Devices, Go, Exit
<1>12. CASE Verify
  <2>1. /\ pc = "verify" /\ disk' = disk /\ disk[d(i)].has = Wanted
        /\ pc' = "compare" /\ i' = i + 1
    BY <1>12, <1>1 DEF Verify, NextDevice, Exit, Devices, Device
  <2>2. k \in 1..(i - 1) \/ k = i
    BY <1>0, <1>1, <2>1
  <2> QED BY <1>2, <2>1, <2>2 DEF Devices
<1>13. CASE Kill
  BY <1>13, <1>0, <1>1, <1>2 DEF Kill, Devices, Go, Exit
<1>14. CASE Again
  BY <1>14, <1>0, <1>1, <1>2 DEF Again, Devices, Go, Exit
<1> QED
  BY <1>3, <1>4, <1>5, <1>6, <1>7, <1>8, <1>9, <1>10, <1>11, <1>12, <1>13, <1>14
  DEF Next

\* Every step keeps boot0 read-only except around a write to it.
LEMMA StepLock ==
  ASSUME TypeOK, LockInv, Next
  PROVE  LockInv'
<1>0. OnBoot0(Device)' = OnBoot0(Device) \/ i' # i
  BY Static DEF OnBoot0, NamesEmmc, Device
<1>13. faults \in Nat
  BY ArgsFacts
<1>1. CASE Policy
  BY <1>1, <1>0, <1>13 DEF Policy, LockInv, Go, Fault, Exit, hist
<1>2. CASE Fetch
  BY <1>2, <1>0, <1>13 DEF Fetch, LockInv, Go, Fault, Exit, hist
<1>3. CASE Image
  BY <1>3, <1>0, <1>13 DEF Image, LockInv, Go, Fault, Exit, hist
<1>4. CASE Space
  BY <1>4, <1>0, <1>13 DEF Space, NextCheck, LockInv, Go, Fault, Exit, hist
<1>5. CASE Ask
  BY <1>5, <1>0, <1>13 DEF Ask, LockInv, Go, Fault, Exit, hist
<1>6. CASE Compare
  BY <1>6, <1>0, <1>13 DEF Compare, LockInv, Go, Fault, Exit, hist, NextDevice
<1>7. CASE Unlock
  BY <1>7, <1>0, <1>13 DEF Unlock, LockInv, Go, Fault, Exit, hist
<1>8. CASE Write
  BY <1>8, <1>0, <1>13 DEF Write, LockInv, Go, Fault, Exit, hist
<1>9. CASE Lock
  BY <1>9, <1>0, <1>13 DEF Lock, LockInv, Go, Fault, Exit, hist
<1>10. CASE Verify
  BY <1>10, <1>0, <1>13 DEF Verify, LockInv, Go, Fault, Exit, hist, NextDevice
<1>11. CASE Kill
  BY <1>11, <1>0, <1>13 DEF Kill, LockInv, Go, Fault, Exit, hist
<1>12. CASE Again
  BY <1>12, <1>0, <1>13 DEF Again, LockInv, Go, Fault, Exit, hist
<1> QED
  BY <1>1, <1>2, <1>3, <1>4, <1>5, <1>6, <1>7, <1>8, <1>9, <1>10, <1>11, <1>12
  DEF Next

\* Every step keeps that status 0 is what it says.
LEMMA StepSuccess ==
  ASSUME TypeOK, SpaceInv, FlashInv, SuccessMeansFlashed, Next
  PROVE  SuccessMeansFlashed'
<1>0. /\ inv' = inv /\ \A k : (Real(inv.args[k]))' = Real(inv.args[k])
      /\ Wanted' = Wanted
      /\ DOMAIN inv.args = 1..Len(inv.args) /\ Len(inv.args) \in Nat /\ i \in Nat \ {0}
  <2>1. machine' = machine /\ inv' = inv
    BY Static
  <2>2. \A k : (Real(inv.args[k]))' = Real(inv.args[k])
    BY <2>1 DEF Real, OnBoot0, NamesEmmc
  <2>3. Wanted' = Wanted
    BY <2>1, StaticOps
  <2> QED BY <2>1, <2>2, <2>3, ArgsFacts
<1> SUFFICES ASSUME pc' = "done", status' = 0, ~declined', ~inv.dryrun,
                    NEW k \in 1..Len(inv.args)
             PROVE  disk'[Real(inv.args[k])].has = Wanted
  BY <1>0 DEF SuccessMeansFlashed
<1> DEFINE Last == /\ pc \in {"compare", "verify"} /\ i = Len(inv.args) /\ disk' = disk
                   /\ disk[Real(Device)].has = Wanted
<1>13. ASSUME Last PROVE disk'[Real(inv.args[k])].has = Wanted
  <2>1. pc \in Devices /\ (k \in 1..(i - 1) \/ k = i)
    BY <1>0, <1>13 DEF Devices
  <2>2. CASE k = i
    BY <1>13, <2>2 DEF Device
  <2>3. CASE k \in 1..(i - 1)
    BY <1>13, <2>1, <2>3 DEF FlashInv, Holds, Rewritten, Device
  <2> QED BY <2>1, <2>2, <2>3
<1>1. CASE Policy
  BY <1>1 DEF Policy, Go, Exit
<1>2. CASE Fetch
  BY <1>2 DEF Fetch, Go, Exit
<1>3. CASE Image
  <2>1. inv.args = <<>>
    BY <1>3 DEF Image, Exit, Go
  <2> QED BY <1>0, <2>1
<1>4. CASE Space
  BY <1>4 DEF Space, NextCheck, Go, Exit
<1>5. CASE Ask
  BY <1>5 DEF Ask, Go, Exit
<1>6. CASE Compare
  <2>1. Last
    BY <1>6 DEF Compare, NextDevice, Exit
  <2> QED BY <1>13, <2>1
<1>7. CASE Unlock
  BY <1>7 DEF Unlock, Go, Exit
<1>8. CASE Write
  BY <1>8 DEF Write, Go, Exit
<1>9. CASE Lock
  BY <1>9 DEF Lock, Go, Exit
<1>10. CASE Verify
  <2>1. Last
    BY <1>10 DEF Verify, NextDevice, Exit
  <2> QED BY <1>13, <2>1
<1>11. CASE Kill
  BY <1>11 DEF Kill, Go, Exit
<1>12. CASE Again
  BY <1>12 DEF Again, Go, Exit
<1> QED
  BY <1>1, <1>2, <1>3, <1>4, <1>5, <1>6, <1>7, <1>8, <1>9, <1>10, <1>11, <1>12
  DEF Next

-----------------------------------------------------------------------------
\* The script starts in its invariant.
LEMMA InitInv == Init => IInv
<1> SUFFICES ASSUME Init PROVE IInv
  OBVIOUS
<1>1. /\ pc = "policy" /\ i = 1 /\ status = 0 /\ written = {} /\ unread = {}
      /\ runs = 1 /\ faults = 0
      /\ machine \in Machines /\ inv \in Invocations
  BY DEF Init
<1>2. ro = TRUE /\ declined = FALSE /\ agreed = FALSE
  BY DEF Init
<1>3. disk \in [Disks -> [label : Labels, first : Nat \cup {-1}, has : Contents]]
  <2>1. PICK lay \in Layouts, h \in {"old", "latest"} :
          disk = [d \in Disks |->
                    IF d = "boot0"
                    THEN [label |-> "unknown", first |-> -1, has |-> h]
                    ELSE [label |-> lay.label, first |-> lay.first, has |-> h]]
    BY DEF Init
  <2>2. lay \in [label : Labels, first : Nat \cup {-1}]
    BY FlashAssumption DEF FlashAssumption
  <2> QED BY <2>1, <2>2 DEF Labels, Contents
<1>4. /\ flashbin \in {"missing", "stale", "latest"}
      /\ mhdp \in {"missing", "stale", "latest"}
  BY DEF Init
<1>5. 1 \in 1..(Len(inv.args) + 1)
  <2>1. inv.args \in Seq(Args)
    BY <1>1, FlashAssumption DEF FlashAssumption
  <2> QED BY <2>1
<1>6. runs \in 1..MaxRuns /\ faults \in 0..MaxFaults
  <2>1. MaxRuns \in Nat \ {0} /\ MaxFaults \in Nat
    BY FlashAssumption DEF FlashAssumption
  <2> QED BY <1>1, <2>1
<1>7. ro \in BOOLEAN /\ declined \in BOOLEAN /\ agreed \in BOOLEAN
  BY <1>2, Zenon
<1>8. written \subseteq Disks /\ unread \subseteq Disks /\ status \in {0, 1}
  BY <1>1
<1>9. TypeOK
  BY <1>1, <1>3, <1>4, <1>5, <1>6, <1>7, <1>8, Zenon DEF TypeOK
<1>10. PolicyInv
  BY <1>1 DEF PolicyInv, Devices, Touches
<1>11. SpaceInv
  BY <1>1 DEF SpaceInv, Devices
<1>12. FlashInv /\ LockInv
  BY <1>1, <1>2 DEF FlashInv, LockInv, Devices
<1>13. SuccessMeansFlashed
  BY <1>1 DEF SuccessMeansFlashed
<1> QED BY <1>9, <1>10, <1>11, <1>12, <1>13 DEF IInv

\* Every step keeps the invariant.
LEMMA NextInv == IInv /\ [Next]_vars => IInv'
<1> SUFFICES ASSUME IInv, [Next]_vars PROVE IInv'
  OBVIOUS
<1>1. TypeOK /\ PolicyInv /\ SpaceInv /\ FlashInv /\ LockInv /\ SuccessMeansFlashed
  BY DEF IInv
<1>2. CASE Next
  BY <1>1, <1>2, StepType, StepPolicy, StepSpace, StepFlash, StepLock, StepSuccess, Zenon
  DEF IInv
<1>3. CASE UNCHANGED vars
  <2> USE <1>3 DEF vars
  <2>0. /\ Refused' = Refused /\ Wanted' = Wanted /\ AsksEmmc' = AsksEmmc
        /\ \A a : OnBoot0(a)' = OnBoot0(a) /\ Real(a)' = Real(a)
    BY StaticOps
  <2>1. TypeOK' = TypeOK
    BY DEF TypeOK
  <2>2. PolicyInv' = PolicyInv
    BY <2>0 DEF PolicyInv
  <2>3. SpaceInv' = SpaceInv
    BY DEF SpaceInv, Passed, Roomy, TooSmall, Start, End, OnBoot0, NamesEmmc, Real
  <2>4. FlashInv' = FlashInv
    BY <2>0 DEF FlashInv, Holds, Rewritten, Device, Real, OnBoot0, NamesEmmc
  <2>5. LockInv' = LockInv
    BY DEF LockInv, OnBoot0, NamesEmmc, Device
  <2>6. SuccessMeansFlashed' = SuccessMeansFlashed
    BY <2>0 DEF SuccessMeansFlashed, Real, OnBoot0, NamesEmmc
  <2> QED BY <1>1, <2>1, <2>2, <2>3, <2>4, <2>5, <2>6, Zenon DEF IInv
<1> QED BY <1>2, <1>3

\* The inductive invariant holds in every reachable state.
THEOREM Invariant == Spec => []IInv
BY InitInv, NextInv, PTL DEF Spec

\* TypeOK: every variable keeps its type, and a loop over the devices never
\* leaves the command line.
THEOREM TypeCorrect == Spec => []TypeOK
<1>1. IInv => TypeOK
  BY DEF IInv
<1> QED BY <1>1, Invariant, PTL

\* PartitionsKept: what was written lies neither over a partition table nor in a
\* partition, whatever the machine's offsets and the size of the image are, on
\* every disk for which parted answered.
THEOREM NothingOverwritten == Spec => []PartitionsKept
<1>1. IInv => PartitionsKept
  <2> SUFFICES ASSUME IInv, NEW d \in written, d \notin unread, Overwrites(d)
               PROVE  FALSE
    BY DEF PartitionsKept
  <2>1. d \in Disks /\ d # "boot0" /\ ~TooSmall(d, Queries)
    BY DEF IInv, SpaceInv, Roomy, TypeOK, Overwrites
  <2>2. disk[d].first \in Nat \cup {-1}
    BY <2>1 DEF IInv, TypeOK
  <2>3. Start \in Nat /\ End \in Int
    <3>1. machine.off \in Nat /\ machine.head \in 0..(Size - 1) /\ Size \in Nat
      BY FlashAssumption DEF FlashAssumption, IInv, TypeOK
    <3> QED BY <3>1 DEF Start, End
  <2> QED BY <2>1, <2>2, <2>3 DEF Overwrites, TooSmall, Queries
<1> QED BY <1>1, Invariant, PTL

\* SuccessMeansFlashed: status 0 means that every device holds what was asked
\* for, for every sequence of devices, also when two names are of one device.
THEOREM StatusIsTrue == Spec => []SuccessMeansFlashed
<1>1. IInv => SuccessMeansFlashed
  BY DEF IInv
<1> QED BY <1>1, Invariant, PTL

\* Boot0ReadOnly: after a run without a failure boot0 is read-only.
THEOREM Boot0Protected == Spec => []Boot0ReadOnly
<1>1. IInv => Boot0ReadOnly
  <2> SUFFICES ASSUME IInv PROVE Boot0ReadOnly
    OBVIOUS
  <2>1. faults \in Nat
    BY ArgsFacts DEF IInv
  <2> QED BY <2>1 DEF IInv, LockInv, Boot0ReadOnly
<1> QED BY <1>1, Invariant, PTL

\* A device that is the eMMC has one of its names.
LEMMA EmmcNames ==
  ASSUME NEW a \in Args, Real(a) \in {"mmc", "boot0"}, ~inv.machine
  PROVE  a = "alias of mmc" \/ NamesEmmc(a)
BY DEF Real, Args, OnBoot0, NamesEmmc

\* A step of the script writes what the options and the policies allow.
LEMMA StepAllowed ==
  ASSUME IInv, Next
  PROVE  /\ inv.check \/ inv.dryrun => UNCHANGED <<disk, ro>>
         /\ inv.check => UNCHANGED <<flashbin, mhdp>>
         /\ \A d \in written' \ written :
              /\ Wanted = "latest" => flashbin = "latest"
              /\ d \in {"mmc", "boot0"} /\ NamedPlainly => EmmcAllowed
<1>0. TypeOK /\ PolicyInv
  BY DEF IInv
<1>1. ASSUME inv.check \/ inv.dryrun PROVE UNCHANGED <<disk, ro>>
  <2>1. pc \notin Touches
    BY <1>0, <1>1 DEF PolicyInv
  <2>2. CASE Policy
    BY <2>1, <2>2 DEF Policy, Touches, Go
  <2>3. CASE Fetch
    BY <2>1, <2>3 DEF Fetch, Touches, Go
  <2>4. CASE Image
    BY <2>1, <2>4 DEF Image, Touches, Go
  <2>5. CASE Space
    BY <2>1, <2>5 DEF Space, NextCheck, Touches, Go
  <2>6. CASE Ask
    BY <2>1, <2>6 DEF Ask, Touches, Go
  <2>7. CASE Compare
    BY <2>1, <2>7 DEF Compare, Touches, Go
  <2>8. CASE Unlock
    BY <2>1, <2>8 DEF Unlock, Touches, Go
  <2>9. CASE Write
    BY <2>1, <2>9 DEF Write, Touches, Go
  <2>10. CASE Lock
    BY <2>1, <2>10 DEF Lock, Touches, Go
  <2>11. CASE Verify
    BY <2>1, <2>11 DEF Verify, Touches, Go
  <2>12. CASE Kill
    BY <2>1, <2>12 DEF Kill, Touches, Go
  <2>13. CASE Again
    BY <2>1, <2>13 DEF Again, Touches, Go
  <2> QED BY <2>2, <2>3, <2>4, <2>5, <2>6, <2>7, <2>8, <2>9, <2>10, <2>11, <2>12, <2>13
    DEF Next
<1>2. ASSUME inv.check PROVE UNCHANGED <<flashbin, mhdp>>
  <2>1. pc = "fetch" => flashbin = "latest"
    BY <1>0, <1>2 DEF PolicyInv
  <2>2. CASE Policy
    BY <2>1, <2>2 DEF Policy
  <2>3. CASE Fetch
    BY <2>1, <2>3 DEF Fetch
  <2>4. CASE Image
    BY <2>1, <2>4 DEF Image
  <2>5. CASE Space
    BY <2>1, <2>5 DEF Space
  <2>6. CASE Ask
    BY <2>1, <2>6 DEF Ask
  <2>7. CASE Compare
    BY <2>1, <2>7 DEF Compare
  <2>8. CASE Unlock
    BY <2>1, <2>8 DEF Unlock
  <2>9. CASE Write
    BY <2>1, <2>9 DEF Write
  <2>10. CASE Lock
    BY <2>1, <2>10 DEF Lock
  <2>11. CASE Verify
    BY <2>1, <2>11 DEF Verify
  <2>12. CASE Kill
    BY <2>1, <2>12 DEF Kill
  <2>13. CASE Again
    BY <2>1, <2>13 DEF Again
  <2> QED BY <2>2, <2>3, <2>4, <2>5, <2>6, <2>7, <2>8, <2>9, <2>10, <2>11, <2>12, <2>13
    DEF Next
<1>3. ASSUME NEW d \in written' \ written
      PROVE  /\ Wanted = "latest" => flashbin = "latest"
             /\ d \in {"mmc", "boot0"} /\ NamedPlainly => EmmcAllowed
  <2>1. pc = "write" /\ d = Real(Device)
    BY <1>0, <1>3, DiskStep
  <2>2. /\ ~Refused /\ (inv.image = "" => flashbin = "latest") /\ ~inv.check /\ ~inv.dryrun
        /\ AsksEmmc => agreed
    BY <1>0, <2>1 DEF PolicyInv, Devices, Touches
  <2>3. Wanted = "latest" => flashbin = "latest"
    BY <2>2 DEF Wanted
  <2>4. ASSUME d \in {"mmc", "boot0"}, NamedPlainly PROVE EmmcAllowed
    <3>1. i \in DOMAIN inv.args /\ Device \in Args
      <4>1. i \in DOMAIN inv.args
        BY <1>0, <2>1 DEF TypeOK
      <4>2. inv.args \in Seq(Args)
        BY <1>0, FlashAssumption DEF FlashAssumption, TypeOK
      <4> QED BY <4>1, <4>2 DEF Device
    <3>2. Device # "alias of mmc"
      BY <2>4, <3>1 DEF NamedPlainly, Device
    <3>3. ~inv.machine
      BY <2>1, <2>2, <2>4, <3>1, <3>2 DEF Refused, Device, Real, OnBoot0, NamesEmmc, Args
    <3>4. NamesEmmc(Device)
      BY <2>1, <2>4, <3>1, <3>2, <3>3, EmmcNames
    <3>5. machine.emmcBoot # "false"
      BY <2>2, <3>1, <3>4 DEF Refused, Device
    <3>6. machine.emmcBoot = "warn" => inv.force \/ agreed
      BY <2>2, <3>1, <3>4 DEF AsksEmmc, Device
    <3> QED BY <3>3, <3>5, <3>6 DEF EmmcAllowed
  <2> QED BY <2>3, <2>4
<1> QED BY <1>1, <1>2, <1>3

\* WritesAllowed: a step writes only what the options, the policies and the
\* image allow.
THEOREM OnlyAllowedWrites == Spec => WritesAllowed
<1>1. IInv /\ [Next]_vars =>
        [/\ inv.check \/ inv.dryrun => UNCHANGED <<disk, ro>>
         /\ inv.check => UNCHANGED <<flashbin, mhdp>>
         /\ \A d \in written' \ written :
              /\ Wanted = "latest" => flashbin = "latest"
              /\ d \in {"mmc", "boot0"} /\ NamedPlainly => EmmcAllowed]_vars
  BY StepAllowed
<1> QED BY <1>1, Invariant, PTL DEF Spec, WritesAllowed
=============================================================================
