-------------------------- MODULE PowerDaemonProofs --------------------------
(***************************************************************************)
(* Theorems about PowerDaemon, for any capacities, statuses and SSDs and   *)
(* any number of faults: its types, that a torn read of status and         *)
(* capacity is harmless, and that what is recorded was written.            *)
(***************************************************************************)
EXTENDS PowerDaemon, SequenceTheorems, FiniteSetTheorems, TLAPS

\* The assumption in the parts the proofs use.
LEMMA Assumed ==
  /\ MaxFaults \in Nat /\ IsFiniteSet(Nvmes) /\ Nvme0 \in Nvmes
  /\ \A c \in Capacities : c \in Int
<1>1. Capacities \subseteq 0..100
  BY PowerAssumption, Zenon DEF PowerAssumption
<1>2. MaxFaults \in Nat /\ IsFiniteSet(Nvmes) /\ Nvme0 \in Nvmes
  BY PowerAssumption, Zenon DEF PowerAssumption
<1> QED BY <1>1, <1>2

\* The bound on the faults is kept by a fault and by a step without one.
LEMMA BudgetKept ==
  ASSUME faults \in 0..MaxFaults, Fault \/ UNCHANGED faults
  PROVE  faults' \in 0..MaxFaults
BY Assumed DEF Fault

\* The settings that an application of a power state names.
Named(s) == Governors \cup (IF s = "high" THEN Nvmes ELSE {Nvme0})

\* What the history remembers of the battery still holds of it, and the status
\* that was read is the one the history began with.
RoundInv ==
  /\ round.discharging => bat.status = "Discharging"
  /\ round.under => bat.capacity < AcMin
  /\ pc = "capacity" /\ round.discharging => reading.status = "Discharging"

\* During an application every setting it names is written, has failed, or is
\* still to come.
WritingInv ==
  /\ state = "" => prev = ""
  /\ pc = "write" =>
       /\ todo # <<>> /\ state \in Modes
       /\ \A k \in Named(state) :
            \/ settings[k] = state \/ k \in failed \/ (k \in Nvmes /\ ~nvmeTool)
            \/ \E i \in 1..Len(todo) : todo[i] = k

IInv == TypeOK /\ RoundInv /\ WritingInv /\ LowThroughout /\ AppliedAsRecorded

\* The rule for the low state excludes the rules for the high state.
LEMMA LowWins ==
  ASSUME NEW r \in [status : Statuses, capacity : Capacities], CallsLow(r)
  PROVE  Decide(r) = "low"
<1>1. r.capacity \in Int
  BY Assumed
<1>2. ~CallsHigh(r)
  <2>1. CASE r.status = "Discharging"
    BY <2>1 DEF CallsHigh
  <2>2. CASE r.capacity < 50
    <3>1. ~(r.capacity >= 50) /\ ~(r.capacity >= 80)
      BY <1>1, <2>2
    <3> QED BY <3>1 DEF CallsHigh, AcMin, BatFull
  <2> QED BY <2>1, <2>2 DEF CallsLow, AcMin
<1> QED BY <1>2, Zenon DEF Decide

\* The history of a round is a pair of Booleans, whatever is compared.
LEMMA RoundType ==
  ASSUME NEW a, NEW b, NEW c, NEW d
  PROVE  [discharging |-> a = b, under |-> c < d]
           \in [discharging : BOOLEAN, under : BOOLEAN]
<1>1. (a = b) \in BOOLEAN /\ (c < d) \in BOOLEAN
  OBVIOUS
<1>2. ASSUME NEW x \in BOOLEAN, NEW y \in BOOLEAN
      PROVE  [discharging |-> x, under |-> y]
               \in [discharging : BOOLEAN, under : BOOLEAN]
  OBVIOUS
<1> QED BY <1>1, <1>2, Zenon

-----------------------------------------------------------------------------
\* The settings that both modes write are the governors, five of them.
LEMMA CommonFacts ==
  /\ CommonWrites \in Seq(Knobs) /\ Len(CommonWrites) = 5
  /\ \A k \in Governors : \E i \in 1..5 : CommonWrites[i] = k
  /\ Nvme0 \in Knobs
<1>1. CommonWrites \in Seq(Governors) /\ Len(CommonWrites) = 5
  BY DEF CommonWrites, Governors
<1>2. /\ CommonWrites[1] = "gpu_governor" /\ CommonWrites[2] = "gpu_max_freq"
      /\ CommonWrites[3] = "policy0" /\ CommonWrites[4] = "policy4"
      /\ CommonWrites[5] = "policy6"
  BY DEF CommonWrites
<1>3. CommonWrites \in Seq(Knobs)
  BY <1>1, SeqMonotonic DEF Knobs
<1>4. \A k \in Governors : \E i \in 1..5 : CommonWrites[i] = k
  BY <1>2 DEF Governors
<1>5. Nvme0 \in Knobs
  BY Assumed DEF Knobs
<1> QED BY <1>1, <1>3, <1>4, <1>5

\* A sequence of all SSDs, in any order, names each of them.
LEMMA SeqsCover ==
  ASSUME NEW s \in SetToSeqs(Nvmes)
  PROVE  /\ s \in Seq(Nvmes)
         /\ \A n \in Nvmes : \E i \in 1..Len(s) : s[i] = n
<1> DEFINE D == 1..Cardinality(Nvmes)
<1>1. /\ s \in [D -> Nvmes]
      /\ \A i, j \in D : i # j => s[i] # s[j]
  BY Zenon DEF SetToSeqs
<1>2. Cardinality(Nvmes) \in Nat
  BY Assumed, FS_CardinalityType
<1>3. IsFiniteSet(D) /\ Cardinality(D) = Cardinality(Nvmes)
  BY <1>2, FS_Interval
<1>4. s \in Injection(D, Nvmes)
  BY <1>1 DEF Injection, IsInjective
<1>5. s \in Surjection(D, Nvmes)
  BY Assumed, <1>3, <1>4, FS_Injection, FS_CardinalityType
<1>6. s \in Seq(Nvmes) /\ Len(s) = Cardinality(Nvmes)
  BY <1>1, <1>2
<1> QED BY <1>5, <1>6 DEF Surjection

\* An application of a power state names all its settings, except the SSDs
\* where there is no tool to reach them.
LEMMA WritesCover ==
  ASSUME NEW s \in Modes, NEW w \in IF s = "high" THEN WritesHigh ELSE WritesLow
  PROVE  /\ w \in Seq(Knobs) /\ w # <<>>
         /\ \A k \in Named(s) : \/ k \in Nvmes /\ ~nvmeTool
                                \/ \E i \in 1..Len(w) : w[i] = k
<1>1. ASSUME NEW t \in Seq(Nvmes), w = CommonWrites \o t
      PROVE  /\ w \in Seq(Knobs) /\ w # <<>> /\ Len(w) = 5 + Len(t)
             /\ \A k \in Governors : \E i \in 1..Len(w) : w[i] = k
             /\ \A j \in 1..Len(t) : \E i \in 1..Len(w) : w[i] = t[j]
  <2>1. t \in Seq(Knobs)
    BY SeqMonotonic DEF Knobs
  <2>2. /\ w \in Seq(Knobs) /\ Len(w) = 5 + Len(t)
        /\ \A i \in 1..5 + Len(t) :
             w[i] = IF i <= 5 THEN CommonWrites[i] ELSE t[i - 5]
    <3>1. /\ CommonWrites \o t \in Seq(Knobs)
          /\ Len(CommonWrites \o t) = Len(CommonWrites) + Len(t)
          /\ \A i \in 1..Len(CommonWrites) + Len(t) : (CommonWrites \o t)[i] =
               IF i <= Len(CommonWrites) THEN CommonWrites[i]
               ELSE t[i - Len(CommonWrites)]
      BY <2>1, CommonFacts, ConcatProperties
    <3> QED BY <1>1, <3>1, CommonFacts
  <2>3. Len(t) \in Nat
    BY LenProperties
  <2>4. w # <<>>
    BY <2>2, <2>3
  <2>5. ASSUME NEW k \in Governors PROVE \E i \in 1..Len(w) : w[i] = k
    <3>1. PICK i \in 1..5 : CommonWrites[i] = k
      BY CommonFacts
    <3> QED BY <2>2, <2>3, <3>1
  <2>6. ASSUME NEW j \in 1..Len(t) PROVE \E i \in 1..Len(w) : w[i] = t[j]
    <3>1. /\ j + 5 \in 1..5 + Len(t) /\ ~(j + 5 <= 5) /\ (j + 5) - 5 = j
      BY <2>3
    <3>2. w[j + 5] = t[j]
      BY <2>2, <3>1
    <3> QED BY <2>2, <3>1, <3>2
  <2> QED BY <2>2, <2>4, <2>5, <2>6
<1>2. CASE s = "high" /\ nvmeTool
  <2>1. PICK t \in SetToSeqs(Nvmes) : w = CommonWrites \o t
    BY <1>2 DEF WritesHigh
  <2>2. t \in Seq(Nvmes) /\ \A n \in Nvmes : \E i \in 1..Len(t) : t[i] = n
    BY SeqsCover
  <2>3. /\ w \in Seq(Knobs) /\ w # <<>>
        /\ \A k \in Governors : \E i \in 1..Len(w) : w[i] = k
        /\ \A j \in 1..Len(t) : \E i \in 1..Len(w) : w[i] = t[j]
    BY <1>1, <2>1, <2>2
  <2>4. \A k \in Nvmes : \E i \in 1..Len(w) : w[i] = k
    BY <2>2, <2>3
  <2> QED BY <1>2, <2>3, <2>4 DEF Named
<1>3. CASE s = "high" /\ ~nvmeTool
  <2>1. w = CommonWrites
    BY <1>3 DEF WritesHigh
  <2> QED BY <1>3, <2>1, CommonFacts DEF Named
<1>4. CASE s = "low"
  <2> DEFINE t == [i \in 1..Cardinality(Nvmes) |-> Nvme0]
  <2>1. w = CommonWrites \o t
    BY <1>4 DEF WritesLow
  <2>2. Cardinality(Nvmes) \in Nat /\ Cardinality(Nvmes) # 0
    BY Assumed, FS_CardinalityType, FS_EmptySet
  <2>3. t \in Seq(Nvmes) /\ Len(t) = Cardinality(Nvmes)
    BY Assumed, <2>2
  <2>4. 1 \in 1..Len(t) /\ t[1] = Nvme0
    BY <2>2, <2>3
  <2> HIDE DEF t
  <2>5. /\ w \in Seq(Knobs) /\ w # <<>>
        /\ \A k \in Governors : \E i \in 1..Len(w) : w[i] = k
        /\ \A j \in 1..Len(t) : \E i \in 1..Len(w) : w[i] = t[j]
    BY <1>1, <2>1, <2>3
  <2>6. \E i \in 1..Len(w) : w[i] = Nvme0
    BY <2>4, <2>5
  <2>7. Named(s) = Governors \cup {Nvme0}
    BY <1>4 DEF Named
  <2> QED BY <2>5, <2>6, <2>7
<1> QED BY <1>2, <1>3, <1>4 DEF Modes

-----------------------------------------------------------------------------
\* The inductive invariant holds at first.
LEMMA InitIInv == Init => IInv
<1> SUFFICES ASSUME Init PROVE IInv OBVIOUS
<1>0. faults = 0
  BY Zenon DEF Init
<1>1. faults \in 0..MaxFaults
  BY <1>0, Assumed
<1> USE DEF Init
<1>2. settings \in [Knobs -> Modes \cup {"boot"}]
  BY Zenon
<1>3. TypeOK
  BY <1>1, <1>2, EmptySeq, Zenon DEF TypeOK, Running, Modes
<1>4. RoundInv /\ WritingInv /\ LowThroughout /\ AppliedAsRecorded
  BY DEF RoundInv, WritingInv, LowThroughout, AppliedAsRecorded, Running
<1> QED BY <1>3, <1>4 DEF IInv

\* Every step keeps the types.
LEMMA StepType ==
  ASSUME TypeOK, WritingInv, Next
  PROVE  TypeOK'
<1> USE DEF TypeOK, Modes
<1>1. CASE Preflight
  <2>1. Fault \/ UNCHANGED faults
    BY <1>1, Zenon DEF Preflight
  <2>2. round' \in [discharging : BOOLEAN, under : BOOLEAN]
    BY <1>1 DEF Preflight
  <2> QED BY <1>1, <2>1, <2>2, BudgetKept, EmptySeq, Zenon DEF Preflight, envVars, Running
<1>2. CASE ReadStatus
  <2>1. /\ reading' = [reading EXCEPT !.status = bat.status]
        /\ round' = [discharging |-> bat.status = "Discharging",
                     under |-> bat.capacity < AcMin]
    BY <1>2, Zenon DEF ReadStatus
  <2>2. reading' \in [status : Statuses, capacity : Capacities]
    BY <2>1
  <2>3. round' \in [discharging : BOOLEAN, under : BOOLEAN]
    BY <2>1, RoundType, Zenon
  <2> QED BY <1>2, <2>2, <2>3, Zenon DEF ReadStatus, envVars, Running
<1>3. CASE ReadCapacity
  <2>1. reading' \in [status : Statuses, capacity : Capacities]
    BY <1>3 DEF ReadCapacity, envVars
  <2>2. state' \in Modes \cup {""}
    BY <1>3 DEF ReadCapacity, Decide
  <2>3. state' = "" => state' = prev
    BY <1>3 DEF ReadCapacity, Decide, WritingInv
  <2>4. todo' \in Seq(Knobs) /\ failed' \subseteq Knobs
    <3>1. CASE state' = prev
      BY <1>3, <3>1 DEF ReadCapacity
    <3>2. CASE state' # prev
      <4>1. state' \in Modes /\ failed' = {}
            /\ todo' \in IF state' = "high" THEN WritesHigh ELSE WritesLow
        BY <1>3, <2>2, <2>3, <3>2 DEF ReadCapacity
      <4> QED BY <4>1, WritesCover
    <3> QED BY <3>1, <3>2
  <2> QED BY <1>3, <2>1, <2>2, <2>4, Zenon DEF ReadCapacity, envVars, Running
<1>4. CASE Write
  <2>1. /\ todo \in Seq(Knobs) /\ todo # <<>> /\ state \in Modes
    BY <1>4 DEF Write, WritingInv
  <2>2. Head(todo) \in Knobs /\ Tail(todo) \in Seq(Knobs)
    BY <2>1, HeadTailProperties
  <2>3. settings' \in [Knobs -> Modes \cup {"boot"}]
    <3>1. \/ settings' = [settings EXCEPT ![Head(todo)] = state]
          \/ settings' = settings
      BY <1>4, Zenon DEF Write
    <3> QED BY <2>1, <2>2, <3>1
  <2>4. failed' \subseteq Knobs
    <3>1. failed' \in {failed \cup {Head(todo)}, failed \ {Head(todo)}}
      BY <1>4, Zenon DEF Write
    <3> QED BY <2>2, <3>1
  <2>5. Fault \/ UNCHANGED faults
    BY <1>4, Zenon DEF Write
  <2>6. /\ pc' \in Running /\ prev' \in Modes \cup {""}
        /\ todo' \in Seq(Knobs)
    BY <1>4, <2>1, <2>2, Zenon DEF Write, Running
  <2> QED BY <1>4, <2>3, <2>4, <2>5, <2>6, BudgetKept, Zenon
      DEF Write, envVars
<1>5. CASE ReadFails
  <2>1. Fault \/ UNCHANGED faults
    BY <1>5, Zenon DEF ReadFails
  <2> QED BY <1>5, <2>1, BudgetKept, Zenon DEF ReadFails, envVars, Running
<1>6. CASE Kill
  <2>1. Fault \/ UNCHANGED faults
    BY <1>6, Zenon DEF Kill
  <2> QED BY <1>6, <2>1, BudgetKept, Zenon DEF Kill, envVars, Running
<1>7. CASE SleepFails
  <2>1. Fault \/ UNCHANGED faults
    BY <1>7, Zenon DEF SleepFails
  <2> QED BY <1>7, <2>1, BudgetKept, Zenon DEF SleepFails, envVars, Running
<1>8. CASE Restart
  BY <1>8 DEF Restart, envVars
<1>9. CASE Battery
  BY <1>9 DEF Battery
<1>10. CASE Reload
  <2>1. Fault \/ UNCHANGED faults
    BY <1>10, Zenon DEF Reload
  <2> QED BY <1>10, <2>1, BudgetKept, Zenon DEF Reload
<1> QED BY <1>1, <1>2, <1>3, <1>4, <1>5, <1>6, <1>7, <1>8, <1>9, <1>10 DEF Next, Daemon

\* Every step keeps the history of the round and, at its end, the decision.
LEMMA StepRound ==
  ASSUME TypeOK, RoundInv, LowThroughout, Next
  PROVE  RoundInv' /\ LowThroughout'
<1> USE DEF TypeOK, RoundInv, LowThroughout
<1>1. CASE Preflight
  BY <1>1 DEF Preflight, envVars
<1>2. CASE ReadStatus
  BY <1>2 DEF ReadStatus, envVars
<1>3. CASE ReadCapacity
  <2>1. /\ pc = "capacity" /\ UNCHANGED <<bat, round>>
        /\ reading'.status = reading.status
        /\ reading'.capacity = bat.capacity
        /\ pc' # "capacity"
    BY <1>3 DEF ReadCapacity, envVars
  <2>2. round.discharging \/ round.under => CallsLow(reading')
    BY <2>1 DEF CallsLow
  <2>3. round.discharging \/ round.under => state' = "low"
    <3>1. state' = Decide(reading')
      BY <1>3 DEF ReadCapacity
    <3>3. reading' \in [status : Statuses, capacity : Capacities]
      BY <1>3 DEF ReadCapacity
    <3> QED BY <2>2, <3>1, <3>3, LowWins, Zenon
  <2> QED BY <2>1, <2>3
<1>4. CASE Write
  BY <1>4 DEF Write, envVars
<1>5. CASE ReadFails
  BY <1>5 DEF ReadFails, envVars
<1>6. CASE Kill
  BY <1>6 DEF Kill, envVars
<1>7. CASE SleepFails
  BY <1>7 DEF SleepFails, envVars
<1>8. CASE Restart
  BY <1>8 DEF Restart, envVars
<1>9. CASE Battery
  BY <1>9 DEF Battery
<1>10. CASE Reload
  BY <1>10 DEF Reload
<1> QED BY <1>1, <1>2, <1>3, <1>4, <1>5, <1>6, <1>7, <1>8, <1>9, <1>10 DEF Next, Daemon

\* Every step keeps the progress of an application and what its end records.
LEMMA StepWritten ==
  ASSUME TypeOK, WritingInv, AppliedAsRecorded, Next
  PROVE  WritingInv' /\ AppliedAsRecorded'
<1>1. CASE Preflight
  BY <1>1 DEF Preflight, WritingInv, AppliedAsRecorded
<1>2. CASE ReadStatus
  BY <1>2 DEF ReadStatus, envVars, WritingInv, AppliedAsRecorded, Running
<1>3. CASE ReadCapacity
  <2>1. /\ UNCHANGED <<settings, prev, nvmeTool>> /\ pc = "capacity"
        /\ state' \in Modes \cup {""} /\ (state' = "" => state = "")
    BY <1>3 DEF ReadCapacity, Decide, TypeOK, Modes
  <2>2. state' = "" => prev' = "" /\ state' = prev
    BY <2>1 DEF WritingInv
  <2>3. CASE state' = prev
    <3>1. pc' = "sleep" /\ UNCHANGED failed
      BY <1>3, <2>3 DEF ReadCapacity
    <3> QED BY <2>1, <2>2, <3>1 DEF WritingInv, AppliedAsRecorded, Running
  <2>4. CASE state' # prev
    <3>1. /\ pc' = "write" /\ state' \in Modes
          /\ todo' \in IF state' = "high" THEN WritesHigh ELSE WritesLow
      BY <1>3, <2>1, <2>2, <2>4 DEF ReadCapacity
    <3>2. /\ todo' # <<>>
          /\ \A k \in Named(state') : \/ k \in Nvmes /\ ~nvmeTool
                                      \/ \E i \in 1..Len(todo') : todo'[i] = k
      BY <3>1, WritesCover
    <3>3. WritingInv'
      BY <2>1, <2>2, <3>1, <3>2 DEF WritingInv, Named
    <3> QED BY <3>1, <3>3 DEF AppliedAsRecorded
  <2> QED BY <2>3, <2>4
<1>4. CASE Write
  <2> DEFINE h == Head(todo)
  <2>1. /\ todo \in Seq(Knobs) /\ todo # <<>> /\ state \in Modes /\ state # ""
        /\ pc = "write" /\ UNCHANGED <<nvmeTool, state>>
        /\ todo' = Tail(todo)
        /\ settings \in [Knobs -> Modes \cup {"boot"}]
    BY <1>4 DEF Write, WritingInv, TypeOK, Modes
  <2>2. h \in Knobs /\ h = todo[1] /\ Len(todo) \in Nat \ {0}
        /\ todo' \in Seq(Knobs) /\ Len(todo') = Len(todo) - 1
        /\ \A i \in 1..Len(todo') : todo'[i] = todo[i + 1]
    <3>1. Len(todo) \in Nat \ {0}
      BY <2>1, EmptySeq
    <3>2. /\ h \in Knobs /\ Tail(todo) \in Seq(Knobs)
          /\ Len(Tail(todo)) = Len(todo) - 1
          /\ \A i \in 1..Len(Tail(todo)) : Tail(todo)[i] = todo[i + 1]
      BY <2>1, HeadTailProperties
    <3>3. h = todo[1]
      <4>1. todo \in Seq(Knobs) /\ todo # <<>>
        BY <2>1
      <4> QED BY <4>1
    <3> QED BY <2>1, <3>1, <3>2, <3>3
  <2>3. /\ \/ settings'[h] = state \/ h \in failed'
        /\ \A k \in Knobs \ {h} : /\ settings'[k] = settings[k]
                                  /\ k \in failed => k \in failed'
    BY <1>4, <2>1, <2>2 DEF Write
  <2>4. ASSUME NEW k \in Named(state)
        PROVE  \/ settings'[k] = state \/ k \in failed'
               \/ k \in Nvmes /\ ~nvmeTool
               \/ \E i \in 1..Len(todo') : todo'[i] = k
    <3>1. CASE k = h
      BY <2>3, <3>1
    <3>2. CASE k # h
      <4>1. k \in Knobs
        BY Assumed DEF Named, Knobs
      <4>2. CASE \E i \in 1..Len(todo) : todo[i] = k
        <5>1. PICK i \in 1..Len(todo) : todo[i] = k
          BY <4>2
        <5>2. i # 1
          BY <2>2, <3>2, <5>1
        <5>3. i - 1 \in 1..Len(todo') /\ (i - 1) + 1 = i
          BY <2>2, <5>2
        <5> QED BY <2>2, <5>1, <5>3
      <4>3. CASE ~\E i \in 1..Len(todo) : todo[i] = k
        BY <2>1, <2>3, <3>2, <4>1, <4>3 DEF WritingInv
      <4> QED BY <4>2, <4>3
    <3> QED BY <3>1, <3>2
  <2>5. CASE todo' = <<>>
    <3>1. pc' = "sleep" /\ prev' = state
      BY <1>4, <2>5 DEF Write
    <3>2. \A i \in 1..Len(todo') : FALSE
      BY <2>5
    <3>3. \A k \in Named(prev') :
            settings'[k] = prev' \/ k \in failed' \/ (k \in Nvmes /\ ~nvmeTool')
      BY <2>1, <2>4, <3>1, <3>2, Zenon
    <3> QED BY <2>1, <3>1, <3>3 DEF WritingInv, AppliedAsRecorded, Named
  <2>6. CASE todo' # <<>>
    <3>1. pc' = "write" /\ prev' = prev
      BY <1>4, <2>1, <2>6 DEF Write
    <3> QED BY <2>1, <2>4, <2>6, <3>1 DEF WritingInv, AppliedAsRecorded
  <2> QED BY <2>5, <2>6
<1>5. CASE ReadFails
  BY <1>5 DEF ReadFails, WritingInv, AppliedAsRecorded, Running
<1>6. CASE Kill
  BY <1>6 DEF Kill, WritingInv, AppliedAsRecorded, Running
<1>7. CASE SleepFails
  BY <1>7 DEF SleepFails, WritingInv, AppliedAsRecorded, Running
<1>8. CASE Restart
  BY <1>8 DEF Restart, WritingInv, AppliedAsRecorded, Running
<1>9. CASE Battery
  BY <1>9 DEF Battery, WritingInv, AppliedAsRecorded
<1>10. CASE Reload
  BY <1>10 DEF Reload, WritingInv, AppliedAsRecorded
<1> QED BY <1>1, <1>2, <1>3, <1>4, <1>5, <1>6, <1>7, <1>8, <1>9, <1>10 DEF Next, Daemon

\* Every step, and every stutter, keeps the inductive invariant.
LEMMA StepIInv == IInv /\ [Next]_vars => IInv'
<1> SUFFICES ASSUME IInv, [Next]_vars PROVE IInv' OBVIOUS
<1>1. CASE Next
  BY <1>1, StepType, StepRound, StepWritten DEF IInv
<1>2. CASE UNCHANGED vars
  BY <1>2 DEF vars, IInv, TypeOK, RoundInv, WritingInv, LowThroughout,
              AppliedAsRecorded
<1> QED BY <1>1, <1>2

-----------------------------------------------------------------------------
\* The inductive invariant of the daemon.
THEOREM Invariant == Spec => []IInv
BY InitIInv, StepIInv, PTL DEF Spec

\* Types of the daemon's state.
THEOREM TypeCorrect == Spec => []TypeOK
BY Invariant, PTL DEF IInv

\* A battery that was low, or discharging, throughout a round of the loop is
\* answered with the low power state, whatever changed between the two reads.
THEOREM TornReadHarmless == Spec => []LowThroughout
BY Invariant, PTL DEF IInv

\* Between applications the settings are those of the recorded power state,
\* except for the failed writes, after any kills and restarts.
THEOREM RecordedIsApplied == Spec => []AppliedAsRecorded
BY Invariant, PTL DEF IInv
=============================================================================
