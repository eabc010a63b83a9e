--------------------------- MODULE LpcDriverProofs ---------------------------
(***************************************************************************)
(* Theorems about LpcDriver, for any threads, handlers, measurements and   *)
(* firmwares and any number of faults: its types, that a thread decodes    *)
(* the answer to its own command, that the checksum catches the flip of    *)
(* any bit, and that what is reported makes sense.                         *)
(***************************************************************************)
EXTENDS LpcDriver, SequenceTheorems, FiniteSetTheorems, TLAPS

Before == {"idle", "lock", "write", "read", "probed"}
After == {"unlock", "check", "return"}

\* The mutex is held from before the write to after the read.
Mutex == \A t \in Threads : pc[t] \in {"write", "read", "unlock"} <=> lock = t

\* Until the answer is read a call has nothing of an earlier one.
Fresh ==
  \A t \in Threads : pc[t] \in Before =>
    /\ buf[t] = Zeros /\ damaged[t] = {} /\ got[t] = "none" /\ ret[t] = "OK"

\* Who is to read finds the answer to its own command, and who has read has it.
Answered ==
  \A t \in Threads :
    /\ pc[t] = "read" => answer.cmd = cmd[t]
    /\ pc[t] \in After => got[t] \in {cmd[t], "none"}

\* Answers carry their checksum, and a buffer is even unless it is damaged.
Parity ==
  /\ answer.cmd \notin Texts => EvenBits(answer.bytes, 8)
  /\ \A t \in Threads : pc[t] \in After /\ cmd[t] \notin Texts =>
       (EvenBits(buf[t], 8) <=> damaged[t] = {})

\* Reports have a reader each, and a capacity is a percentage.
Reported ==
  /\ report = [t \in Readers |-> report[t]]
  /\ \A t \in Readers : report[t].prop = "capacity" => report[t].val \in 6..100

IInv == TypeOK /\ Mutex /\ Fresh /\ Answered /\ Parity /\ Reported

-----------------------------------------------------------------------------
\* The flip of a bit keeps a byte a byte and changes that bit.
LEMMA FlipByte ==
  ASSUME NEW x \in Bytes, NEW w \in BitWeights
  PROVE  /\ Flip(x, w) \in Bytes
         /\ (Flip(x, w) \div w) % 2 = 1 <=> (x \div w) % 2 # 1
<1>1. CASE w = 1 BY <1>1 DEF Bytes, Flip
<1>2. CASE w = 2 BY <1>2 DEF Bytes, Flip
<1>3. CASE w = 4 BY <1>3 DEF Bytes, Flip
<1>4. CASE w = 8 BY <1>4 DEF Bytes, Flip
<1>5. CASE w = 16 BY <1>5 DEF Bytes, Flip
<1>6. CASE w = 32 BY <1>6 DEF Bytes, Flip
<1>7. CASE w = 64 BY <1>7 DEF Bytes, Flip
<1>8. CASE w = 128 BY <1>8 DEF Bytes, Flip
<1> QED BY <1>1, <1>2, <1>3, <1>4, <1>5, <1>6, <1>7, <1>8 DEF BitWeights

\* The places of a buffer are finitely many.
LEMMA Eight == IsFiniteSet(1..8)
<1>1. 1 \in Int /\ 8 \in Int
  OBVIOUS
<1> QED BY <1>1, FS_Interval

\* An even buffer with one flipped bit is odd in that bit.
LEMMA FlipOdd ==
  ASSUME NEW b \in [1..8 -> Bytes], NEW i \in 1..8, NEW w \in BitWeights
  PROVE  /\ [b EXCEPT ![i] = Flip(@, w)] \in [1..8 -> Bytes]
         /\ EvenBits(b, 8) => ~EvenBits([b EXCEPT ![i] = Flip(@, w)], 8)
<1> DEFINE c == [b EXCEPT ![i] = Flip(@, w)]
           Set(d) == {j \in 1..8 : (d[j] \div w) % 2 = 1}
<1>1. Flip(b[i], w) \in Bytes
      /\ ((Flip(b[i], w) \div w) % 2 = 1 <=> (b[i] \div w) % 2 # 1)
  BY FlipByte
<1>2. /\ c \in [1..8 -> Bytes] /\ c[i] = Flip(b[i], w)
      /\ \A j \in 1..8 \ {i} : c[j] = b[j]
  BY <1>1
<1> HIDE DEF c
<1>3. i \in Set(c) <=> i \notin Set(b)
  BY <1>1, <1>2
<1>4. Set(c) = IF i \in Set(b) THEN Set(b) \ {i} ELSE Set(b) \cup {i}
  BY <1>2, <1>3
<1>5. IsFiniteSet(Set(b))
  <2>1. IsFiniteSet(1..8)
    BY Eight
  <2>2. Set(b) \subseteq 1..8
    OBVIOUS
  <2> QED BY <2>1, <2>2, FS_Subset
<1>6. Cardinality(Set(b)) \in Nat
  BY <1>5, FS_CardinalityType
<1>7. \/ Cardinality(Set(c)) = Cardinality(Set(b)) + 1
      \/ Cardinality(Set(c)) = Cardinality(Set(b)) - 1
  <2>1. CASE i \in Set(b)
    <3>1. Cardinality(Set(b) \ {i}) = Cardinality(Set(b)) - 1
      BY <1>5, <2>1, FS_RemoveElement
    <3> QED BY <1>4, <2>1, <3>1
  <2>2. CASE i \notin Set(b)
    <3>1. Cardinality(Set(b) \cup {i}) = Cardinality(Set(b)) + 1
      BY <1>5, <2>2, FS_AddElement
    <3> QED BY <1>4, <2>2, <3>1
  <2> QED BY <2>1, <2>2
<1>8. ASSUME EvenBits(b, 8), EvenBits(c, 8) PROVE FALSE
  <2>1. Cardinality(Set(b)) % 2 = 0 /\ Cardinality(Set(c)) % 2 = 0
    BY <1>8 DEF EvenBits
  <2> HIDE DEF Set
  <2> QED BY <1>6, <1>7, <2>1
<1> QED BY <1>2, <1>8 DEF c

\* No bit of the empty buffer is set.
LEMMA ZerosEven == Zeros \in [1..8 -> Bytes] /\ EvenBits(Zeros, 8)
<1>1. Zeros \in [1..8 -> Bytes]
  BY DEF Zeros, Bytes
<1>2. ASSUME NEW w \in BitWeights
      PROVE  {i \in 1..8 : (Zeros[i] \div w) % 2 = 1} = {}
  <2>1. ASSUME NEW i \in 1..8 PROVE (Zeros[i] \div w) % 2 # 1
    <3>1. Zeros[i] = 0
      BY DEF Zeros
    <3>2. (0 \div w) % 2 = 0
      BY DEF BitWeights
    <3> QED BY <3>1, <3>2
  <2> QED BY <2>1
<1>3. Cardinality({}) % 2 = 0
  BY FS_EmptySet
<1> QED BY <1>1, <1>2, <1>3 DEF EvenBits

\* What the LPC answers: eight bytes, even unless they are text.
LEMMA AnswerFacts ==
  ASSUME measure \in Measures, version \in Versions,
         NEW c \in Commands \cup {"p"}
  PROVE  /\ AnswerTo(c) \in [1..8 -> Bytes]
         /\ c \notin Texts => EvenBits(AnswerTo(c), 8)
<1>1. measure \in [1..8 -> Bytes] /\ EvenBits(measure, 8)
  BY LpcAssumption DEF LpcAssumption
<1>2. version \in [1..8 -> Bytes]
  <2>1. version \in [1..8 -> 48..57]
    BY LpcAssumption DEF LpcAssumption
  <2> QED BY <2>1 DEF Bytes
<1>3. CASE c = "q"
  <2>1. AnswerTo(c) = measure
    BY <1>3, Zenon DEF AnswerTo
  <2> QED BY <1>1, <2>1
<1>4. CASE c = "f"
  <2>1. AnswerTo(c) = version
    BY <1>4, Zenon DEF AnswerTo
  <2> QED BY <1>2, <1>4, <2>1 DEF Texts
<1>5. CASE c # "q" /\ c # "f"
  <2>1. AnswerTo(c) = Zeros
    BY <1>5, Zenon DEF AnswerTo
  <2> QED BY ZerosEven, <2>1
<1> QED BY <1>3, <1>4, <1>5

\* The API version is one of four, whatever the date.
LEMMA ApiFacts == \A b : ApiOf(b) \in 0..3
BY DEF ApiOf

\* A reader reports one of five properties, or nothing, and a capacity between
\* 6 and 100.
LEMMA ReportFacts ==
  ASSUME TypeOK, NEW t \in Readers, NEW r \in Reports(t)
  PROVE  /\ r.prop \in {"none", "status", "voltage", "current", "capacity", "charges"}
         /\ r.prop = "capacity" => r.val \in 6..100
<1> DEFINE b == buf[t]
           charges == [prop |-> "charges", val |-> ChargesOf(b)]
<1>1. b[5] \in Int
  <2>1. buf \in [Threads -> [1..8 -> Bytes]] /\ t \in Threads
    BY DEF TypeOK, Threads
  <2>2. b[5] \in Bytes
    BY <2>1
  <2> QED BY <2>2 DEF Bytes
<1>2. CapacityOf(b) \in 6..100
  BY <1>1 DEF CapacityOf
<1>3. CASE cmd[t] = "q" /\ ret[t] # "error"
  <2>1. Reports(t) = {[prop |-> "status", val |-> StatusOf(b)],
              [prop |-> "voltage", val |-> VoltageOf(b)],
              [prop |-> "capacity", val |-> CapacityOf(b)]}
               \cup {[prop |-> "current", val |-> v] : v \in CurrentOf(b)}
    BY <1>3, Zenon DEF Reports
  <2> QED BY <1>2, <2>1
<1>4. CASE ~(cmd[t] = "q" /\ ret[t] # "error")
  <2>1. Reports(t) \subseteq {Nothing, charges}
    BY <1>4, Zenon DEF Reports
  <2> QED BY <2>1 DEF Nothing
<1> QED BY <1>3, <1>4

\* A decoded current and the status of the same answer agree.
LEMMA SignsAgree ==
  ASSUME NEW b \in [1..8 -> Bytes], NEW c \in CurrentOf(b),
         Int16(b[3], b[4]) >= -20000, Int16(b[3], b[4]) < 20000
  PROVE  /\ StatusOf(b) = "Charging" => c > 0
         /\ StatusOf(b) = "Discharging" => c < 0
<1> DEFINE ma == Int16(b[3], b[4])
<1>1. ma \in Int
  <2>1. b[3] \in Bytes /\ b[4] \in Bytes
    OBVIOUS
  <2>2. \A lo, hi \in Bytes : Int16(lo, hi) \in Int
    BY DEF Int16, Bytes
  <2> QED BY <2>1, <2>2
<1>2. c = IF ma >= -5 /\ ma <= 5 THEN 0 ELSE -(ma * 1000)
  <2>1. ~(ma < -20000 \/ ma >= 20000)
    BY <1>1
  <2> QED BY <2>1 DEF CurrentOf
<1>3. StatusOf(b) = IF ma < -100 THEN "Charging"
                    ELSE IF ma > 100 THEN "Discharging"
                    ELSE IF b[5] = 100 THEN "Full" ELSE "Not charging"
  BY DEF StatusOf
<1> HIDE DEF ma
<1>4. ma < -100 => c > 0
  BY <1>1, <1>2
<1>5. ma > 100 => c < 0
  BY <1>1, <1>2
<1>6. StatusOf(b) = "Charging" => ma < -100
  BY <1>3
<1>7. StatusOf(b) = "Discharging" => ma > 100
  BY <1>3
<1> QED BY <1>4, <1>5, <1>6, <1>7

-----------------------------------------------------------------------------
\* A step is one of a thread that calls, waits, transfers or returns, or the
\* measurements change.
CallStep(t) ==
  \E cs : /\ Call(t, cs)
          /\ Head(cs) \in Commands \cup {"p"} /\ Tail(cs) \in Seq(Commands)

\* What Next is made of.
LEMMA NextCases ==
  ASSUME Next
  PROVE  \/ \E t \in Threads : CallStep(t) \/ Lock(t) \/ Run(t) \/ Return(t)
         \/ Measure
<1>1. ASSUME NEW t \in Readers, NEW h \in Handlers, Call(t, h)
      PROVE  CallStep(t)
  <2>1. h \in Seq(Commands) /\ h # <<>>
    BY LpcAssumption DEF LpcAssumption
  <2>2. Head(h) \in Commands /\ Tail(h) \in Seq(Commands)
    BY <2>1, HeadTailProperties
  <2> QED BY <1>1, <2>2 DEF CallStep
<1>2. ASSUME NEW t, NEW c \in Commands \cup {"p"}, Call(t, <<c>>)
      PROVE  CallStep(t)
  <2>1. Head(<<c>>) = c /\ Tail(<<c>>) = <<>>
    OBVIOUS
  <2>2. Tail(<<c>>) \in Seq(Commands)
    BY <2>1
  <2> QED BY <1>2, <2>1, <2>2 DEF CallStep
<1>3. "f" \in Commands \cup {"p"} /\ "p" \in Commands \cup {"p"}
  BY DEF Commands
<1> QED BY <1>1, <1>2, <1>3 DEF Next, Threads

\* What the end of a call does, whichever way it returns.
LEMMA ReturnDoes ==
  ASSUME TypeOK, NEW t \in Threads, Return(t)
  PROVE  /\ pc[t] = "return"
         /\ \E x \in {"idle", "lock", "probed"} : pc' = [pc EXCEPT ![t] = x]
         /\ Forget(t)
         /\ UNCHANGED <<lock, measure, version, power, answer, faults>>
         /\ api' \in 0..3
         /\ cmd' \in [Threads -> Commands \cup {"p"}]
         /\ rest' \in [Threads -> Seq(Commands)]
         /\ \A u \in Threads \ {t} : cmd'[u] = cmd[u]
<1> USE DEF Go, lpcVars
<1>1. CASE NextCommand(t)
  <2>1. rest[t] \in Seq(Commands) /\ rest[t] # <<>>
    BY <1>1 DEF NextCommand, TypeOK
  <2>2. Head(rest[t]) \in Commands /\ Tail(rest[t]) \in Seq(Commands)
    BY <2>1, HeadTailProperties
  <2>3. cmd' = [cmd EXCEPT ![t] = Head(rest[t])]
        /\ rest' = [rest EXCEPT ![t] = Tail(rest[t])]
    BY <1>1 DEF NextCommand
  <2>4. /\ cmd' \in [Threads -> Commands \cup {"p"}]
        /\ rest' \in [Threads -> Seq(Commands)]
        /\ \A u \in Threads \ {t} : cmd'[u] = cmd[u]
    BY <2>2, <2>3 DEF TypeOK
  <2> QED BY <1>1, <2>4 DEF NextCommand, TypeOK
<1>2. CASE ReturnReport(t)
  <2>1. rest' = [rest EXCEPT ![t] = <<>>]
    BY <1>2 DEF ReturnReport
  <2>2. rest' \in [Threads -> Seq(Commands)]
    BY <2>1 DEF TypeOK
  <2> QED BY <1>2, <2>2 DEF ReturnReport, TypeOK
<1>3. CASE t = Prober /\ ReturnVersion
  <2>1. api' \in 0..3
    BY <1>3, ApiFacts DEF ReturnVersion
  <2> QED BY <1>3, <2>1 DEF ReturnVersion, TypeOK
<1>4. CASE t = Stopper /\ TryAgain
  BY <1>4 DEF TryAgain, TypeOK
<1> QED BY <1>1, <1>2, <1>3, <1>4 DEF Return

\* What a read leaves in the buffer: the answer, the answer with one bit
\* flipped, or nothing.
LEMMA ReadDoes ==
  ASSUME TypeOK, NEW t \in Threads, Read(t)
  PROVE  /\ pc[t] = "read" /\ pc' = [pc EXCEPT ![t] = "unlock"]
         /\ UNCHANGED <<lock, api, cmd, rest, report, measure, version, power, answer>>
         /\ faults' \in 0..MaxFaults
         /\ \A u \in Threads \ {t} : /\ buf'[u] = buf[u] /\ got'[u] = got[u]
                                     /\ ret'[u] = ret[u]
                                     /\ damaged'[u] = damaged[u]
         /\ \/ /\ buf' = [buf EXCEPT ![t] = answer.bytes]
               /\ got' = [got EXCEPT ![t] = answer.cmd]
               /\ UNCHANGED <<ret, damaged>>
            \/ \E i \in 1..8, w \in BitWeights :
                 /\ buf' = [buf EXCEPT ![t] =
                              [answer.bytes EXCEPT ![i] = Flip(@, w)]]
                 /\ damaged' = [damaged EXCEPT ![t] = {i}]
                 /\ got' = [got EXCEPT ![t] = answer.cmd]
                 /\ UNCHANGED ret
            \/ /\ ret' = [ret EXCEPT ![t] = "error"]
               /\ UNCHANGED <<buf, damaged, got>>
<1>1. Flips \subseteq BitWeights /\ MaxFaults \in Nat
  BY LpcAssumption DEF LpcAssumption
<1>2. /\ pc[t] = "read" /\ pc' = [pc EXCEPT ![t] = "unlock"]
      /\ UNCHANGED <<lock, api, cmd, rest, report, measure, version, power, answer>>
  BY DEF Read, Go, lpcVars
<1>3. faults' \in 0..MaxFaults
  BY <1>1 DEF Read, Fault, TypeOK
<1>4. CASE /\ buf' = [buf EXCEPT ![t] = answer.bytes]
           /\ got' = [got EXCEPT ![t] = answer.cmd]
           /\ UNCHANGED <<ret, damaged, faults>>
  BY <1>2, <1>3, <1>4 DEF TypeOK
<1>5. ASSUME NEW i \in 1..8, NEW w \in Flips,
             /\ buf' = [buf EXCEPT ![t] = [answer.bytes EXCEPT ![i] = Flip(@, w)]]
             /\ damaged' = [damaged EXCEPT ![t] = {i}]
             /\ got' = [got EXCEPT ![t] = answer.cmd]
             /\ UNCHANGED ret
      PROVE  /\ \A u \in Threads \ {t} : /\ buf'[u] = buf[u] /\ got'[u] = got[u]
                                         /\ ret'[u] = ret[u]
                                         /\ damaged'[u] = damaged[u]
             /\ w \in BitWeights
  BY <1>1, <1>5 DEF TypeOK
<1>6. CASE /\ ret' = [ret EXCEPT ![t] = "error"]
           /\ UNCHANGED <<buf, damaged, got>>
  BY <1>2, <1>3, <1>6 DEF TypeOK
<1> QED BY <1>2, <1>3, <1>4, <1>5, <1>6 DEF Read

\* Whatever way a call returns, the reports stay plausible.
LEMMA ReturnReported ==
  ASSUME TypeOK, Reported, NEW t \in Threads, Return(t)
  PROVE  /\ Reported'
         /\ \A u \in Readers : report'[u].prop \in {"none", "status", "voltage",
                                            "current", "capacity", "charges"}
<1>1. CASE UNCHANGED report
  BY <1>1 DEF TypeOK, Reported
<1>2. CASE ReturnReport(t)
  <2>1. t \in Readers
    BY <1>2 DEF ReturnReport
  <2>2. PICK r \in Reports(t) : report' = [report EXCEPT ![t] = r]
    BY <1>2 DEF ReturnReport
  <2>3. /\ r.prop \in {"none", "status", "voltage", "current", "capacity", "charges"}
        /\ r.prop = "capacity" => r.val \in 6..100
    BY <2>1, ReportFacts
  <2>4. /\ report' = [u \in Readers |-> IF u = t THEN r ELSE report[u]]
    BY <2>2 DEF Reported
  <2> QED BY <2>3, <2>4 DEF TypeOK, Reported
<1> QED BY <1>1, <1>2 DEF Return, NextCommand, ReturnVersion, TryAgain

\* The inductive invariant holds at first.
LEMMA InitIInv == Init => IInv
<1> SUFFICES ASSUME Init PROVE IInv OBVIOUS
<1>1. faults \in 0..MaxFaults
  BY LpcAssumption DEF LpcAssumption, Init
<1>2. TypeOK
  BY <1>1, ZerosEven, EmptySeq DEF Init, TypeOK, Commands, Nothing
<1>3. Mutex
  BY LpcAssumption DEF LpcAssumption, Init, Mutex
<1>4. Fresh /\ Answered
  BY DEF Init, Fresh, Answered, Before, After
<1>5. Parity
  BY ZerosEven DEF Init, Parity, After
<1>6. Reported
  BY DEF Init, Reported, Nothing
<1> QED BY <1>2, <1>3, <1>4, <1>5, <1>6 DEF IInv

\* Every step keeps the types.
LEMMA StepType ==
  ASSUME TypeOK, Reported, Next
  PROVE  TypeOK'
<1> USE DEF TypeOK, Go, lpcVars
<1>1. ASSUME NEW t \in Threads, CallStep(t) PROVE TypeOK'
  <2>1. PICK cs : /\ Call(t, cs) /\ Head(cs) \in Commands \cup {"p"}
                  /\ Tail(cs) \in Seq(Commands)
    BY <1>1 DEF CallStep
  <2>2. cmd' \in [Threads -> Commands \cup {"p"}] /\ rest' \in [Threads -> Seq(Commands)]
    BY <2>1 DEF Call
  <2>3. \A u \in Readers : report'[u].prop \in {"none", "status", "voltage",
                                            "current", "capacity", "charges"}
    BY <2>1 DEF Call, Nothing
  <2> QED BY <2>1, <2>2, <2>3 DEF Call
<1>2. ASSUME NEW t \in Threads, Lock(t) PROVE TypeOK'
  BY <1>2 DEF Lock
<1>3. ASSUME NEW t \in Threads, Write(t) PROVE TypeOK'
  <2>1. /\ AnswerTo(cmd[t]) \in [1..8 -> Bytes]
        /\ cmd[t] \in Commands \cup {"p"} /\ MaxFaults \in Nat
    BY AnswerFacts, LpcAssumption DEF LpcAssumption
  <2>2. CASE /\ pc' = [pc EXCEPT ![t] = "read"]
             /\ answer' = [cmd |-> cmd[t], bytes |-> AnswerTo(cmd[t])]
             /\ power' = IF cmd[t] = "p" THEN "off" ELSE power
             /\ UNCHANGED <<lock, api, cmd, rest, buf, ret, report, measure,
                            version, damaged, got, faults>>
    BY <2>1, <2>2
  <2>3. CASE /\ Fault /\ pc' = [pc EXCEPT ![t] = "return"]
             /\ ret' = [ret EXCEPT ![t] = "error"]
             /\ lock' = NoThread
             /\ UNCHANGED <<api, cmd, rest, buf, report, lpcVars, answer,
                            damaged, got>>
    BY <2>1, <2>3 DEF Fault
  <2> QED BY <1>3, <2>2, <2>3 DEF Write
<1>4. ASSUME NEW t \in Threads, Read(t) PROVE TypeOK'
  <2>1. /\ answer.bytes \in [1..8 -> Bytes]
        /\ answer.cmd \in Commands \cup {"p", "none"}
        /\ \A i \in 1..8, w \in BitWeights :
             [answer.bytes EXCEPT ![i] = Flip(@, w)] \in [1..8 -> Bytes]
    BY FlipOdd
  <2>2. /\ buf' \in [Threads -> [1..8 -> Bytes]]
        /\ got' \in [Threads -> Commands \cup {"p", "none"}]
        /\ ret' \in [Threads -> {"OK", "error"}]
        /\ damaged' \in [Threads -> SUBSET (1..8)]
    <3>1. CASE /\ buf' = [buf EXCEPT ![t] = answer.bytes]
               /\ got' = [got EXCEPT ![t] = answer.cmd]
               /\ UNCHANGED <<ret, damaged>>
      BY <2>1, <3>1
    <3>2. CASE \E i \in 1..8, w \in BitWeights :
                 /\ buf' = [buf EXCEPT ![t] =
                              [answer.bytes EXCEPT ![i] = Flip(@, w)]]
                 /\ damaged' = [damaged EXCEPT ![t] = {i}]
                 /\ got' = [got EXCEPT ![t] = answer.cmd]
                 /\ UNCHANGED ret
      <4>1. PICK i \in 1..8, w \in BitWeights :
                 /\ buf' = [buf EXCEPT ![t] =
                              [answer.bytes EXCEPT ![i] = Flip(@, w)]]
                 /\ damaged' = [damaged EXCEPT ![t] = {i}]
                 /\ got' = [got EXCEPT ![t] = answer.cmd]
                 /\ UNCHANGED ret
        BY <3>2
      <4> DEFINE flipped == [answer.bytes EXCEPT ![i] = Flip(@, w)]
      <4>2. flipped \in [1..8 -> Bytes]
        BY <2>1
      <4>3. buf' = [buf EXCEPT ![t] = flipped]
        BY <4>1
      <4> HIDE DEF flipped
      <4> QED BY <2>1, <4>1, <4>2, <4>3
    <3>3. CASE /\ ret' = [ret EXCEPT ![t] = "error"]
               /\ UNCHANGED <<buf, damaged, got>>
      BY <3>3
    <3> QED BY <1>4, ReadDoes, <3>1, <3>2, <3>3
  <2>3. /\ pc' = [pc EXCEPT ![t] = "unlock"]
        /\ UNCHANGED <<lock, api, cmd, rest, report, measure, version, power, answer>>
        /\ faults' \in 0..MaxFaults
    BY <1>4, ReadDoes
  <2> QED BY <2>2, <2>3
<1>5. ASSUME NEW t \in Threads, Unlock(t) PROVE TypeOK'
  BY <1>5 DEF Unlock
<1>6. ASSUME NEW t \in Threads, Check(t) PROVE TypeOK'
  BY <1>6 DEF Check
<1>7. ASSUME NEW t \in Threads, Return(t) PROVE TypeOK'
  <2>1. /\ \E x \in {"idle", "lock", "probed"} : pc' = [pc EXCEPT ![t] = x]
        /\ UNCHANGED <<lock, measure, version, power, answer, faults>>
        /\ api' \in 0..3
        /\ cmd' \in [Threads -> Commands \cup {"p"}]
        /\ rest' \in [Threads -> Seq(Commands)]
    BY <1>7, ReturnDoes
  <2>2. /\ buf' \in [Threads -> [1..8 -> Bytes]]
        /\ got' \in [Threads -> Commands \cup {"p", "none"}]
        /\ ret' \in [Threads -> {"OK", "error"}]
        /\ damaged' \in [Threads -> SUBSET (1..8)]
    <3>1. Forget(t)
      BY <1>7, ReturnDoes
    <3> QED BY <3>1, ZerosEven DEF Forget
  <2>3. \A u \in Readers : report'[u].prop \in {"none", "status", "voltage",
                                            "current", "capacity", "charges"}
    BY <1>7, ReturnReported
  <2>4. PICK x \in {"idle", "lock", "probed"} : pc' = [pc EXCEPT ![t] = x]
    BY <2>1
  <2>5. pc' \in [Threads -> {"idle", "lock", "write", "read", "unlock", "check",
                            "return", "probed"}]
    BY <2>4
  <2> QED BY <2>1, <2>2, <2>3, <2>5
<1>8. CASE Measure
  BY <1>8 DEF Measure
<1> QED BY NextCases, <1>1, <1>2, <1>3, <1>4, <1>5, <1>6, <1>7, <1>8 DEF Run

\* Every step keeps the mutual exclusion.
LEMMA StepMutex ==
  ASSUME TypeOK, Mutex, Next
  PROVE  Mutex'
<1> USE DEF TypeOK, Mutex, Go
<1>0. NoThread \notin Threads
  BY LpcAssumption DEF LpcAssumption
<1>1. ASSUME NEW t \in Threads, CallStep(t) PROVE Mutex'
  BY <1>1 DEF CallStep, Call
<1>2. ASSUME NEW t \in Threads, Lock(t) PROVE Mutex'
  BY <1>0, <1>2 DEF Lock
<1>3. ASSUME NEW t \in Threads, Write(t) PROVE Mutex'
  BY <1>0, <1>3 DEF Write
<1>4. ASSUME NEW t \in Threads, Read(t) PROVE Mutex'
  <2>1. pc[t] = "read" /\ pc' = [pc EXCEPT ![t] = "unlock"] /\ UNCHANGED lock
    BY <1>4, ReadDoes
  <2> QED BY <2>1
<1>5. ASSUME NEW t \in Threads, Unlock(t) PROVE Mutex'
  BY <1>0, <1>5 DEF Unlock
<1>6. ASSUME NEW t \in Threads, Check(t) PROVE Mutex'
  BY <1>6 DEF Check
<1>7. ASSUME NEW t \in Threads, Return(t) PROVE Mutex'
  <2>1. pc[t] = "return" /\ UNCHANGED lock
    BY <1>7, ReturnDoes
  <2>2. PICK x \in {"idle", "lock", "probed"} : pc' = [pc EXCEPT ![t] = x]
    BY <1>7, ReturnDoes
  <2> QED BY <2>1, <2>2
<1>8. CASE Measure
  BY <1>8 DEF Measure
<1> QED BY NextCases, <1>1, <1>2, <1>3, <1>4, <1>5, <1>6, <1>7, <1>8 DEF Run

\* Every step keeps the buffers fresh and the answers with who asked: nobody
\* else writes between a write and its read.
LEMMA StepAnswered ==
  ASSUME TypeOK, Mutex, Fresh, Answered, Next
  PROVE  Fresh' /\ Answered'
<1> USE DEF TypeOK, Fresh, Answered, Go, Before, After
<1>1. ASSUME NEW t \in Threads, CallStep(t) PROVE Fresh' /\ Answered'
  <2>1. PICK c \in Commands \cup {"p"} :
          /\ pc[t] = "idle" /\ pc' = [pc EXCEPT ![t] = "lock"]
          /\ cmd' = [cmd EXCEPT ![t] = c]
          /\ UNCHANGED <<buf, ret, answer, damaged, got>>
    BY <1>1 DEF CallStep, Call
  <2> QED BY <2>1
<1>2. ASSUME NEW t \in Threads, Lock(t) PROVE Fresh' /\ Answered'
  BY <1>2 DEF Lock
<1>3. ASSUME NEW t \in Threads, Write(t) PROVE Fresh' /\ Answered'
  <2>1. pc[t] = "write" /\ UNCHANGED <<cmd, buf, damaged, got>>
    BY <1>3 DEF Write
  <2>2. \A u \in Threads \ {t} : pc[u] # "read"
    BY <2>1 DEF Mutex
  <2>3. CASE /\ pc' = [pc EXCEPT ![t] = "read"]
             /\ answer' = [cmd |-> cmd[t], bytes |-> AnswerTo(cmd[t])]
             /\ UNCHANGED ret
    BY <2>1, <2>2, <2>3
  <2>4. CASE /\ pc' = [pc EXCEPT ![t] = "return"]
             /\ ret' = [ret EXCEPT ![t] = "error"] /\ UNCHANGED answer
    BY <2>1, <2>4
  <2> QED BY <1>3, <2>3, <2>4 DEF Write
<1>4. ASSUME NEW t \in Threads, Read(t) PROVE Fresh' /\ Answered'
  <2>1. /\ pc[t] = "read" /\ pc' = [pc EXCEPT ![t] = "unlock"]
        /\ UNCHANGED <<cmd, answer>>
        /\ \A u \in Threads \ {t} : /\ buf'[u] = buf[u] /\ got'[u] = got[u]
                                    /\ ret'[u] = ret[u]
                                    /\ damaged'[u] = damaged[u]
        /\ \/ got' = [got EXCEPT ![t] = answer.cmd]
           \/ UNCHANGED got
    BY <1>4, ReadDoes
  <2>2. got'[t] \in {cmd[t], "none"}
    BY <2>1
  <2> QED BY <2>1, <2>2
<1>5. ASSUME NEW t \in Threads, Unlock(t) PROVE Fresh' /\ Answered'
  BY <1>5 DEF Unlock
<1>6. ASSUME NEW t \in Threads, Check(t) PROVE Fresh' /\ Answered'
  <2>1. /\ pc[t] = "check" /\ pc' = [pc EXCEPT ![t] = "return"]
        /\ UNCHANGED <<cmd, buf, answer, damaged, got>>
        /\ \A u \in Threads \ {t} : ret'[u] = ret[u]
    BY <1>6 DEF Check
  <2> QED BY <2>1
<1>7. ASSUME NEW t \in Threads, Return(t) PROVE Fresh' /\ Answered'
  <2>1. /\ pc[t] = "return" /\ Forget(t) /\ UNCHANGED answer
        /\ \A u \in Threads \ {t} : cmd'[u] = cmd[u]
    BY <1>7, ReturnDoes
  <2>2. PICK x \in {"idle", "lock", "probed"} : pc' = [pc EXCEPT ![t] = x]
    BY <1>7, ReturnDoes
  <2> QED BY <2>1, <2>2 DEF Forget
<1>8. CASE Measure
  BY <1>8 DEF Measure
<1> QED BY NextCases, <1>1, <1>2, <1>3, <1>4, <1>5, <1>6, <1>7, <1>8 DEF Run

\* Every step keeps the answers even, and the buffers unless they are damaged.
LEMMA StepParity ==
  ASSUME TypeOK, Fresh, Answered, Parity, Next
  PROVE  Parity'
<1> USE DEF TypeOK, Parity, Go, After
<1>1. ASSUME NEW t \in Threads, CallStep(t) PROVE Parity'
  <2>1. PICK c \in Commands \cup {"p"} :
          /\ pc[t] = "idle" /\ pc' = [pc EXCEPT ![t] = "lock"]
          /\ cmd' = [cmd EXCEPT ![t] = c]
          /\ UNCHANGED <<buf, answer, damaged>>
    BY <1>1 DEF CallStep, Call
  <2> QED BY <2>1
<1>2. ASSUME NEW t \in Threads, Lock(t) PROVE Parity'
  BY <1>2 DEF Lock
<1>3. ASSUME NEW t \in Threads, Write(t) PROVE Parity'
  <2>1. pc[t] = "write" /\ UNCHANGED <<cmd, buf, damaged>>
    BY <1>3 DEF Write
  <2>2. buf[t] = Zeros /\ damaged[t] = {}
    BY <2>1 DEF Fresh, Before
  <2>3. CASE /\ pc' = [pc EXCEPT ![t] = "read"]
             /\ answer' = [cmd |-> cmd[t], bytes |-> AnswerTo(cmd[t])]
    <3>1. cmd[t] \notin Texts => EvenBits(AnswerTo(cmd[t]), 8)
      BY AnswerFacts
    <3> QED BY <2>1, <2>3, <3>1
  <2>4. CASE pc' = [pc EXCEPT ![t] = "return"] /\ UNCHANGED answer
    BY <2>1, <2>2, <2>4, ZerosEven
  <2> QED BY <1>3, <2>3, <2>4 DEF Write
<1>4. ASSUME NEW t \in Threads, Read(t) PROVE Parity'
  <2>1. /\ pc[t] = "read" /\ pc' = [pc EXCEPT ![t] = "unlock"]
        /\ UNCHANGED <<cmd, answer>>
        /\ \A u \in Threads \ {t} : buf'[u] = buf[u] /\ damaged'[u] = damaged[u]
    BY <1>4, ReadDoes
  <2>2. buf[t] = Zeros /\ damaged[t] = {} /\ answer.cmd = cmd[t]
    BY <2>1 DEF Fresh, Before, Answered
  <2>3. cmd[t] \notin Texts => (EvenBits(buf'[t], 8) <=> damaged'[t] = {})
    <3>1. CASE /\ buf' = [buf EXCEPT ![t] = answer.bytes]
               /\ got' = [got EXCEPT ![t] = answer.cmd]
               /\ UNCHANGED <<ret, damaged>>
      BY <2>2, <3>1
    <3>2. CASE \E i \in 1..8, w \in BitWeights :
                 /\ buf' = [buf EXCEPT ![t] =
                              [answer.bytes EXCEPT ![i] = Flip(@, w)]]
                 /\ damaged' = [damaged EXCEPT ![t] = {i}]
                 /\ got' = [got EXCEPT ![t] = answer.cmd]
                 /\ UNCHANGED ret
      <4>1. PICK i \in 1..8, w \in BitWeights :
                 /\ buf' = [buf EXCEPT ![t] =
                              [answer.bytes EXCEPT ![i] = Flip(@, w)]]
                 /\ damaged' = [damaged EXCEPT ![t] = {i}]
        BY <3>2
      <4> DEFINE flipped == [answer.bytes EXCEPT ![i] = Flip(@, w)]
      <4>2. EvenBits(answer.bytes, 8) => ~EvenBits(flipped, 8)
        BY FlipOdd
      <4>3. buf' = [buf EXCEPT ![t] = flipped]
        BY <4>1
      <4> HIDE DEF flipped
      <4> QED BY <2>2, <4>1, <4>2, <4>3
    <3>3. CASE /\ ret' = [ret EXCEPT ![t] = "error"]
               /\ UNCHANGED <<buf, damaged, got>>
      BY <2>2, <3>3, ZerosEven
    <3> QED BY <1>4, ReadDoes, <3>1, <3>2, <3>3
  <2> QED BY <2>1, <2>3
<1>5. ASSUME NEW t \in Threads, Unlock(t) PROVE Parity'
  BY <1>5 DEF Unlock
<1>6. ASSUME NEW t \in Threads, Check(t) PROVE Parity'
  BY <1>6 DEF Check
<1>7. ASSUME NEW t \in Threads, Return(t) PROVE Parity'
  <2>1. /\ pc[t] = "return" /\ Forget(t) /\ UNCHANGED answer
        /\ \A u \in Threads \ {t} : cmd'[u] = cmd[u]
    BY <1>7, ReturnDoes
  <2>2. PICK x \in {"idle", "lock", "probed"} : pc' = [pc EXCEPT ![t] = x]
    BY <1>7, ReturnDoes
  <2> QED BY <2>1, <2>2 DEF Forget
<1>8. CASE Measure
  BY <1>8 DEF Measure
<1> QED BY NextCases, <1>1, <1>2, <1>3, <1>4, <1>5, <1>6, <1>7, <1>8 DEF Run

\* Every step keeps the reports plausible: only the end of a call makes one.
LEMMA StepReported ==
  ASSUME TypeOK, Reported, Next
  PROVE  Reported'
<1>1. ASSUME NEW t \in Threads, CallStep(t) PROVE Reported'
  <2>1. report' = [u \in Readers |-> IF u = t THEN Nothing ELSE report[u]]
    BY <1>1 DEF CallStep, Call
  <2> QED BY <2>1 DEF Reported, Nothing
<1>2. CASE UNCHANGED report
  BY <1>2 DEF Reported
<1>3. ASSUME NEW t \in Threads, Run(t) \/ Lock(t) PROVE UNCHANGED report
  BY <1>3 DEF Run, Lock, Write, Read, Unlock, Check
<1>4. ASSUME NEW t \in Threads, Return(t) PROVE Reported'
  BY <1>4, ReturnReported
<1>5. ASSUME Measure PROVE UNCHANGED report
  BY <1>5 DEF Measure
<1> QED BY NextCases, <1>1, <1>2, <1>3, <1>4, <1>5

\* Every step, and every stutter, keeps the inductive invariant.
LEMMA StepIInv == IInv /\ [Next]_vars => IInv'
<1> SUFFICES ASSUME IInv, [Next]_vars PROVE IInv' OBVIOUS
<1>1. CASE Next
  BY <1>1, StepType, StepMutex, StepAnswered, StepParity, StepReported DEF IInv
<1>2. CASE UNCHANGED vars
  BY <1>2 DEF vars, lpcVars, IInv, TypeOK, Mutex, Fresh, Answered, Parity, Reported
<1> QED BY <1>1, <1>2

\* Only a thread that checks goes from the check to the return.
LEMMA OnlyCheck ==
  ASSUME TypeOK, Next, NEW t \in Threads, Go(t, "check", "return")
  PROVE  Check(t)
<1> USE DEF TypeOK, Go
<1>1. ASSUME NEW u \in Threads, NEW from, NEW to, from # "check",
             pc[u] = from, pc' = [pc EXCEPT ![u] = to]
      PROVE  FALSE
  BY <1>1
<1>2. ASSUME NEW u \in Threads, CallStep(u) \/ Lock(u) \/ Write(u) \/ Unlock(u)
      PROVE  FALSE
  BY <1>1, <1>2 DEF CallStep, Call, Lock, Write, Unlock
<1>3. ASSUME NEW u \in Threads, Read(u) \/ Return(u) PROVE FALSE
  <2>1. CASE Read(u)
    <3>1. pc[u] = "read" /\ pc' = [pc EXCEPT ![u] = "unlock"]
      BY <2>1, ReadDoes
    <3> QED BY <1>1, <3>1
  <2>2. CASE Return(u)
    <3>1. pc[u] = "return"
      BY <2>2, ReturnDoes
    <3>2. PICK x \in {"idle", "lock", "probed"} : pc' = [pc EXCEPT ![u] = x]
      BY <2>2, ReturnDoes
    <3> QED BY <1>1, <3>1, <3>2
  <2> QED BY <1>3, <2>1, <2>2
<1>4. ASSUME NEW u \in Threads, Check(u), u # t PROVE FALSE
  BY <1>4 DEF Check
<1>5. ~Measure
  BY DEF Measure
<1> QED BY NextCases, <1>2, <1>3, <1>4, <1>5 DEF Run

-----------------------------------------------------------------------------
\* The inductive invariant of the driver.
THEOREM Invariant == Spec => []IInv
BY InitIInv, StepIInv, PTL DEF Spec

\* Types of the driver's state.
THEOREM TypeCorrect == Spec => []TypeOK
BY Invariant, PTL DEF IInv

\* A thread never decodes the answer to another thread's command.
THEOREM OwnAnswers == Spec => []OwnAnswer
<1>1. IInv => OwnAnswer
  BY DEF IInv, Answered, OwnAnswer, After
<1> QED BY <1>1, Invariant, PTL

\* ReportPlausible: the capacity is never below 6 percent, and the signs of status
\* and current of one answer agree, for all bytes that can be read.
THEOREM Plausible == Spec => []ReportPlausible
<1>1. IInv => ReportPlausible
  <2> SUFFICES ASSUME IInv PROVE ReportPlausible OBVIOUS
  <2>1. \A t \in Threads : buf[t] \in [1..8 -> Bytes]
    BY DEF IInv, TypeOK
  <2> QED BY <2>1, SignsAgree DEF IInv, Reported, ReportPlausible
<1> QED BY <1>1, Invariant, PTL

\* With a V3 firmware the flip of any bit of any byte is an error, and nothing
\* else that a transfer delivers is one.
THEOREM EveryFlipCaught == Spec => DamageCaught
<1> DEFINE Caught == \A t \in Threads :
       Go(t, "check", "return") /\ api = 3 /\ cmd[t] \notin Texts =>
         (ret'[t] = "error" <=> (ret[t] = "error" \/ damaged[t] # {}))
<1>1. ASSUME IInv, [Next]_vars PROVE [Caught]_vars
  <2> SUFFICES ASSUME Next, NEW t \in Threads, Go(t, "check", "return"),
                      api = 3, cmd[t] \notin Texts
               PROVE  ret'[t] = "error" <=> (ret[t] = "error" \/ damaged[t] # {})
    BY <1>1
  <2>1. ret' = IF api >= 3 /\ ~Confirm(buf[t])
               THEN [ret EXCEPT ![t] = "error"] ELSE ret
    BY <1>1, OnlyCheck DEF IInv, Check
  <2>2. EvenBits(buf[t], 8) <=> damaged[t] = {}
    BY <1>1 DEF IInv, Parity, After, Go
  <2>3. api >= 3
    OBVIOUS
  <2> QED BY <1>1, <2>1, <2>2, <2>3 DEF IInv, TypeOK, Confirm
<1> QED BY <1>1, Invariant, PTL DEF Spec, DamageCaught
=============================================================================
