---------------------------- MODULE ScLinkProofs ----------------------------
(* Proofs about ScLink for any number of threads, commands, retries and      *)
(* answers: its invariants, what no step may do with an answer, and that it  *)
(* implements ScCommand.                                                     *)
EXTENDS ScLink, SequenceTheorems, FiniteSetTheorems, TLAPS

USE ConstantsAssumption DEF ConstantsAssumption

\* A frame is a sequence of characters with depths, never empty.
LEMMA FrameType ==
  ASSUME NEW f \in Frames
  PROVE  f \in Seq([ch : Chars, depth : Nat]) /\ Len(f) \in Nat
<1>1. WellFormed(f)
  BY FramesAssumption
<1>2. f \in Seq([ch : Chars, depth : Nat])
  BY <1>1, Zenon DEF WellFormed
<1>3. QED
  BY <1>2, LenProperties

\* The bytes of an answer are wire bytes.
LEMMA AnswerType ==
  ASSUME NEW n \in Nat, NEW f \in Frames
  PROVE  /\ [i \in 1..Len(f) |-> Byte(n, f, i)] \in Seq(WireByte)
         /\ Len([i \in 1..Len(f) |-> Byte(n, f, i)]) = Len(f)
<1>1. Len(f) \in Nat
  BY FrameType
<1>2. \A i \in 1..Len(f) : Byte(n, f, i) \in WireByte
  BY <1>1 DEF Byte, WireByte
<1>3. [i \in 1..Len(f) |-> Byte(n, f, i)] \in [1..Len(f) -> WireByte]
  BY <1>2
<1>4. QED
  BY <1>1, <1>3, LenProperties, IsASeq

-----------------------------------------------------------------------------
(* Type correctness, with the retry bound that the type of tries needs: a    *)
(* thread that is about to send has tries left.                              *)
RetryInv == \A t \in Threads : pc[t] \in {"lock", "send"} => tries[t] < MaxRetries

LEMMA InitType == Init => TypeOK /\ RetryInv
BY DEF Init, TypeOK, RetryInv, Pcs, Results, FreshRx, RxState

\* The read loop keeps its locals and the bytes on the wire well typed.
LEMMA ReadType ==
  ASSUME TypeOK, NEW t \in Threads, Read(t)
  PROVE  rx' \in [Threads -> RxState] /\ out' \in Seq(WireByte)
<1>1. /\ rx \in [Threads -> RxState]
      /\ out \in Seq(WireByte)
      /\ rx[t].paren \in Int /\ rx[t].delayed \in Nat
      /\ rx[t].buf \in Seq(WireByte)
  BY DEF TypeOK, RxState
<1>2. CASE ReadNothing(t)
  BY <1>1, <1>2 DEF ReadNothing, RxState, Clear
<1>3. CASE ReadError(t)
  BY <1>1, <1>3 DEF ReadError
<1>4. CASE ReadOpen(t)
  <2>1. /\ out # <<>> /\ out' = Tail(out)
        /\ rx' = [rx EXCEPT ![t].paren = rx[t].paren + 1]
    BY <1>4 DEF ReadOpen
  <2>2. [rx[t] EXCEPT !.paren = rx[t].paren + 1] \in RxState
    BY <1>1 DEF RxState
  <2>3. rx' \in [Threads -> RxState]
    BY <1>1, <2>1, <2>2
  <2>4. QED
    BY <1>1, <2>1, <2>3, HeadTailProperties
<1>5. CASE ReadClose(t)
  <2>1. /\ out # <<>> /\ out' = Tail(out)
        /\ rx' = [rx EXCEPT ![t].paren = rx[t].paren - 1]
    BY <1>5 DEF ReadClose
  <2>2. [rx[t] EXCEPT !.paren = rx[t].paren - 1] \in RxState
    BY <1>1 DEF RxState
  <2>3. rx' \in [Threads -> RxState]
    BY <1>1, <2>1, <2>2
  <2>4. QED
    BY <1>1, <2>1, <2>3, HeadTailProperties
<1>6. CASE ReadOther(t)
  <2>1. out # <<>> /\ out' = Tail(out)
    BY <1>6 DEF ReadOther
  <2>2. Head(out) \in WireByte /\ out' \in Seq(WireByte)
    BY <1>1, <2>1
  <2>3. Append(rx[t].buf, Head(out)) \in Seq(WireByte)
    BY <1>1, <2>2
  <2>4. CASE UNCHANGED rx
    BY <1>1, <2>2, <2>4
  <2>5. CASE rx' = [rx EXCEPT ![t].buf = Append(@, Head(out))]
    BY <1>1, <2>2, <2>3, <2>5 DEF RxState
  <2>6. QED
    BY <1>6, <2>4, <2>5 DEF ReadOther
<1>7. CASE ReadJammed(t)
  BY <1>1, <1>7 DEF ReadJammed
<1>8. QED
  BY <1>2, <1>3, <1>4, <1>5, <1>6, <1>7 DEF Read

\* What else a step of the read loop can change, and how.
LEMMA ReadFrame ==
  ASSUME NEW t \in Threads, Read(t)
  PROVE  /\ pc[t] = "read"
         /\ pc' = pc \/ pc' = [pc EXCEPT ![t] = "unlock"]
         /\ UNCHANGED <<lock, cmd, tries, inbox, given, txn, own, calls>>
         /\ bus' \in {bus, "jammed"}
         /\ \/ UNCHANGED <<resp, newest>>
            \/ /\ Number(rx[t].buf)
               /\ resp' = [resp EXCEPT ![t] = rx[t].buf]
               /\ newest' = rx[t].buf[1].tx
         /\ ret' = ret \/ \E r \in Results : ret' = [ret EXCEPT ![t] = r]
         /\ broken' = broken \/ broken' = broken + 1 \/ broken' = broken + 0
<1> USE DEF Finish, Continue, Go, historyVars, Results, Clear
<1>2. CASE ReadNothing(t)
  BY <1>2 DEF ReadNothing
<1>3. CASE ReadError(t)
  BY <1>3 DEF ReadError
<1>4. CASE ReadOpen(t)
  BY <1>4 DEF ReadOpen
<1>5. CASE ReadClose(t)
  BY <1>5 DEF ReadClose
<1>6. CASE ReadOther(t)
  BY <1>6 DEF ReadOther
<1>7. CASE ReadJammed(t)
  BY <1>7 DEF ReadJammed
<1>8. QED
  BY <1>2, <1>3, <1>4, <1>5, <1>6, <1>7 DEF Read

LEMMA StepType ==
  ASSUME TypeOK, RetryInv, NEW t \in Threads, Step(t)
  PROVE  TypeOK' /\ RetryInv'
<1> USE DEF TypeOK, RetryInv, Go, Pcs, Results, scVars, historyVars
<1>1. CASE Send(t)
  <2>1. inbox' \in Seq(Requests)
    <3>1. PICK c \in {cmd[t], "garbled"} :
             inbox' = Append(inbox, Request(txn + 1, c)) \/ inbox' = inbox
      BY <1>1 DEF Send
    <3>2. Request(txn + 1, c) \in Requests
      BY DEF Request, Requests
    <3>3. inbox \in Seq(Requests)
      OBVIOUS
    <3>4. Append(inbox, Request(txn + 1, c)) \in Seq(Requests)
      BY <3>2, <3>3, AppendProperties
    <3>5. QED
      BY <3>1, <3>3, <3>4
  <2>2. FreshRx \in RxState
    BY DEF FreshRx, RxState
  <2>3. rx' \in [Threads -> RxState]
    BY <1>1, <2>2 DEF Send
  <2>4. /\ pc[t] = "send" /\ pc' = [pc EXCEPT ![t] = "read"]
        /\ tries' = [tries EXCEPT ![t] = @ + 1]
        /\ txn' = txn + 1 /\ own' = [own EXCEPT ![t] = txn + 1]
        /\ UNCHANGED <<lock, cmd, ret, resp, out, bus, given, newest, broken, calls>>
    BY <1>1 DEF Send
  <2>5. tries[t] < MaxRetries
    BY <2>4
  <2>6. tries' \in [Threads -> 0..MaxRetries]
    BY <2>4, <2>5
  <2>7. QED
    BY <2>1, <2>3, <2>4, <2>6
<1>2. CASE Read(t)
  <2>1. rx' \in [Threads -> RxState] /\ out' \in Seq(WireByte)
    BY <1>2, ReadType
  <2>2. Number(rx[t].buf) =>
          rx[t].buf \in Seq(WireByte) /\ rx[t].buf[1].tx \in Nat
    BY DEF Number, RxState, WireByte
  <2>3. resp' \in [Threads -> Seq(WireByte)] /\ newest' \in Nat
    <3>1. \/ UNCHANGED <<resp, newest>>
          \/ /\ Number(rx[t].buf)
             /\ resp' = [resp EXCEPT ![t] = rx[t].buf]
             /\ newest' = rx[t].buf[1].tx
      BY <1>2, ReadFrame, Zenon
    <3>2. QED
      BY <2>2, <3>1
  <2>4. /\ pc[t] = "read"
        /\ pc' = pc \/ pc' = [pc EXCEPT ![t] = "unlock"]
        /\ UNCHANGED <<lock, cmd, tries, inbox, given, txn, own, calls>>
        /\ ret' = ret \/ \E r \in Results : ret' = [ret EXCEPT ![t] = r]
        /\ broken' = broken \/ broken' = broken + 1 \/ broken' = broken + 0
    BY <1>2, ReadFrame, Zenon
  <2>5. broken' \in Nat /\ ret' \in [Threads -> Results]
    <3>1. broken' \in Nat
      BY <2>4
    <3>2. CASE \E r \in Results : ret' = [ret EXCEPT ![t] = r]
      <4>1. PICK r \in Results : ret' = [ret EXCEPT ![t] = r]
        BY <3>2
      <4>2. QED
        BY <3>1, <4>1
    <3>3. QED
      BY <2>4, <3>1, <3>2
  <2>6. TypeOK'
    <3>1. bus' \in {"clear", "jammed"}
      BY <1>2, ReadFrame
    <3>2. QED
      BY <2>1, <2>3, <2>4, <2>5, <3>1
  <2>7. \A u \in Threads : pc'[u] \in {"lock", "send"} => pc[u] = pc'[u]
    <3>1. pc \in [Threads -> Pcs]
      OBVIOUS
    <3>2. CASE pc' = pc
      BY <3>2
    <3>3. CASE pc' = [pc EXCEPT ![t] = "unlock"]
      BY <3>1, <3>3
    <3>4. QED
      BY <2>4, <3>2, <3>3
  <2>8. RetryInv'
    <3> SUFFICES ASSUME NEW u \in Threads, pc'[u] \in {"lock", "send"}
                 PROVE  tries'[u] < MaxRetries
      BY DEF RetryInv
    <3>1. pc[u] \in {"lock", "send"} /\ tries[u] < MaxRetries
      BY <2>7
    <3>2. QED
      BY <3>1, <2>4
  <2>9. QED
    BY <2>6, <2>8
<1>3. CASE Unlock(t)
  BY <1>3 DEF Unlock
<1>4. CASE Retry(t)
  BY <1>4 DEF Retry
<1>5. QED
  BY <1>1, <1>2, <1>3, <1>4 DEF Step

LEMMA NextType == TypeOK /\ RetryInv /\ [Next]_vars => TypeOK' /\ RetryInv'
<1> SUFFICES ASSUME TypeOK, RetryInv, [Next]_vars
             PROVE  TypeOK' /\ RetryInv'
  OBVIOUS
<1> USE DEF TypeOK, RetryInv, Go, Pcs, Results, scVars, historyVars
<1>1. ASSUME NEW t \in Threads, NEW c \in Commands, Call(t, c)
      PROVE  TypeOK' /\ RetryInv'
  BY <1>1 DEF Call
<1>2. ASSUME NEW t \in Threads, Lock(t)
      PROVE  TypeOK' /\ RetryInv'
  BY <1>2 DEF Lock
<1>3. ASSUME NEW t \in Threads, Step(t)
      PROVE  TypeOK' /\ RetryInv'
  BY <1>3, StepType
<1>4. CASE Serve
  <2> DEFINE h == Head(inbox)
             answer(f) == [i \in 1..Len(f) |-> Byte(h.tx, f, i)]
  <2>1. h \in Requests /\ h.tx \in Nat
    <3>1. inbox # <<>>
      BY <1>4 DEF Serve
    <3>2. inbox \in Seq(Requests)
      OBVIOUS
    <3>3. h \in Requests
      BY <3>1, <3>2, HeadTailProperties
    <3>4. QED
      BY <3>3 DEF Requests
  <2>2. \A f \in Frames : answer(f) \in Seq(WireByte)
    BY <2>1, AnswerType
  <2>3. PICK f \in Frames : out' = out \o answer(f)
    BY <1>4 DEF Serve
  <2>4. out' \in Seq(WireByte)
    BY <2>2, <2>3, ConcatProperties
  <2>5. inbox' \in Seq(Requests)
    <3>1. inbox # <<>> /\ inbox' = Tail(inbox)
      BY <1>4 DEF Serve
    <3>2. QED
      BY <3>1, HeadTailProperties
  <2>6. QED
    BY <1>4, <2>1, <2>4, <2>5 DEF Serve, Clear
<1>5. CASE Done \/ UNCHANGED vars
  BY <1>5 DEF Done, vars
<1>6. QED
  BY <1>1, <1>2, <1>3, <1>4, <1>5 DEF Next

\* Every variable keeps its type, and no call transmits more than MaxRetries
\* times (the range of tries), whatever the SC answers and however the threads
\* interleave.
THEOREM TypeCorrect == Spec => []TypeOK
<1>1. Spec => [](TypeOK /\ RetryInv)
  BY InitType, NextType, PTL DEF Spec
<1>2. QED
  BY <1>1, PTL

-----------------------------------------------------------------------------
(* The mutex.  OneTransaction is inductive by itself, given the types.       *)
LEMMA MutexStep == TypeOK /\ OneTransaction /\ [Next]_vars => OneTransaction'
<1> SUFFICES ASSUME TypeOK, OneTransaction, [Next]_vars
             PROVE  OneTransaction'
  OBVIOUS
<1> USE DEF OneTransaction, InTransaction, Go
<1>0. pc \in [Threads -> Pcs] /\ lock \in Threads \cup {NoThread}
  BY DEF TypeOK
<1>1. ASSUME NEW t \in Threads, NEW c \in Commands, Call(t, c)
      PROVE  OneTransaction'
  BY <1>0, <1>1 DEF Call
<1>2. ASSUME NEW t \in Threads, Lock(t)
      PROVE  OneTransaction'
  BY <1>0, <1>2 DEF Lock
<1>3. ASSUME NEW t \in Threads, Send(t)
      PROVE  OneTransaction'
  BY <1>0, <1>3 DEF Send
<1>4. ASSUME NEW t \in Threads, Read(t)
      PROVE  OneTransaction'
  <2>1. /\ pc[t] = "read" /\ UNCHANGED lock
        /\ pc' = pc \/ pc' = [pc EXCEPT ![t] = "unlock"]
    BY <1>4, ReadFrame
  <2>2. QED
    BY <1>0, <2>1
<1>5. ASSUME NEW t \in Threads, Unlock(t)
      PROVE  OneTransaction'
  BY <1>0, <1>5 DEF Unlock
<1>6. ASSUME NEW t \in Threads, Retry(t)
      PROVE  OneTransaction'
  <2>1. pc[t] = "retry" /\ UNCHANGED lock
    BY <1>6 DEF Retry
  <2>2. pc' = [pc EXCEPT ![t] = "lock"] \/ pc' = [pc EXCEPT ![t] = "idle"]
    BY <1>6 DEF Retry
  <2>3. QED
    BY <1>0, <2>1, <2>2
<1>7. CASE Serve \/ Done \/ UNCHANGED vars
  BY <1>7 DEF Serve, Done, vars
<1>8. QED
  BY <1>1, <1>2, <1>3, <1>4, <1>5, <1>6, <1>7 DEF Next, Step

\* The mutex of sc_cmdresp keeps transactions apart: between the first chunk
\* one thread sends and the last byte it reads no other thread is in a
\* transaction, and an idle driver has released the mutex on every path out.
THEOREM Exclusion == Spec => []OneTransaction
<1>1. Init => OneTransaction
  BY DEF Init, OneTransaction, InTransaction
<1>2. QED
  BY <1>1, MutexStep, TypeCorrect, PTL DEF Spec

-----------------------------------------------------------------------------
(* Answers reach the driver in the order of the transactions they belong to: *)
(* what has been accepted is not newer than what is being read, that not     *)
(* newer than what is still on the wire, and that not newer than what the SC *)
(* has yet to serve.                                                         *)
OrderInv ==
  /\ newest <= given /\ given <= txn
  /\ \A i \in 1..Len(inbox) : given < inbox[i].tx /\ inbox[i].tx <= txn
  /\ \A i, j \in 1..Len(inbox) : i < j => inbox[i].tx < inbox[j].tx
  /\ \A i \in 1..Len(out) :
       0 < out[i].tx /\ newest <= out[i].tx /\ out[i].tx <= given
  /\ \A i, j \in 1..Len(out) : i <= j => out[i].tx <= out[j].tx

\* What the reading thread has in rxbuf, and where a thread stands in its call.
ReaderInv ==
  \A t \in Threads :
    /\ pc[t] = "read" =>
         \A i \in 1..Len(rx[t].buf) :
           /\ 0 < rx[t].buf[i].tx
           /\ newest <= rx[t].buf[i].tx /\ rx[t].buf[i].tx <= given
           /\ \A j \in 1..Len(out) : rx[t].buf[i].tx <= out[j].tx
    /\ pc[t] \in {"read", "unlock", "retry"} => tries[t] > 0
    /\ pc[t] \in {"lock", "send", "read"} => resp[t] = <<>>
    /\ pc[t] \in {"unlock", "retry"} /\ ret[t] = "EAGAIN" => resp[t] = <<>>

IInv == TypeOK /\ RetryInv /\ OneTransaction /\ OrderInv /\ ReaderInv

\* A step of the read loop takes at most the first byte off the wire; that
\* byte is appended to rxbuf or dropped.
LEMMA ReadBytes ==
  ASSUME TypeOK, NEW t \in Threads, Read(t)
  PROVE  /\ out' = out \/ (out # <<>> /\ out' = Tail(out))
         /\ \/ rx'[t].buf = rx[t].buf
            \/ /\ out # <<>> /\ out' = Tail(out)
               /\ rx'[t].buf = Append(rx[t].buf, Head(out))
         /\ \A u \in Threads \ {t} : rx'[u] = rx[u]
<1>0. rx \in [Threads -> RxState]
  BY DEF TypeOK
<1>2. CASE ReadNothing(t)
  BY <1>0, <1>2 DEF ReadNothing, RxState
<1>3. CASE ReadError(t)
  <2>1. rx' = rx
    BY <1>3 DEF ReadError
  <2>2. out' \in {out} \cup (IF out = <<>> \/ bus = "jammed" THEN {} ELSE {Tail(out)})
    BY <1>3, Zenon DEF ReadError
  <2>3. out' = out \/ (out # <<>> /\ out' = Tail(out))
    <3>1. CASE out = <<>> \/ bus = "jammed"
      BY <2>2, <3>1
    <3>2. CASE out # <<>> /\ bus # "jammed"
      <4>1. out' \in {out} \cup {Tail(out)}
        BY <2>2, <3>2
      <4>2. QED
        BY <3>2, <4>1
    <3>3. QED
      BY <3>1, <3>2
  <2>4. QED
    BY <2>1, <2>3
<1>4. CASE ReadOpen(t)
  BY <1>0, <1>4 DEF ReadOpen, RxState
<1>5. CASE ReadClose(t)
  <2>1. /\ out # <<>> /\ out' = Tail(out)
        /\ rx' = [rx EXCEPT ![t].paren = rx[t].paren - 1]
    BY <1>5 DEF ReadClose
  <2>2. QED
    BY <1>0, <2>1 DEF RxState
<1>6. CASE ReadOther(t)
  <2>1. out # <<>> /\ out' = Tail(out)
    BY <1>6 DEF ReadOther
  <2>2. CASE rx' = rx
    BY <2>1, <2>2
  <2>3. CASE rx' = [rx EXCEPT ![t].buf = Append(@, Head(out))]
    BY <1>0, <2>1, <2>3 DEF RxState
  <2>4. QED
    BY <1>6, <2>2, <2>3 DEF ReadOther
<1>7. CASE ReadJammed(t)
  BY <1>7 DEF ReadJammed
<1>8. QED
  BY <1>2, <1>3, <1>4, <1>5, <1>6, <1>7 DEF Read

\* The wire loses its first byte or nothing: the order of the rest stays.
LEMMA TailIndex ==
  ASSUME NEW S, NEW s \in Seq(S), NEW r, r = s \/ (s # <<>> /\ r = Tail(s))
  PROVE  /\ r \in Seq(S)
         /\ \E k \in {0, 1} :
              \A i \in 1..Len(r) : i + k \in 1..Len(s) /\ r[i] = s[i + k]
<1>1. CASE r = s
  <2>1. \A i \in 1..Len(r) : i + 0 \in 1..Len(s) /\ r[i] = s[i + 0]
    BY <1>1, LenProperties
  <2>2. QED
    BY <1>1, <2>1
<1>2. CASE s # <<>> /\ r = Tail(s)
  <2>1. /\ r \in Seq(S) /\ Len(r) = Len(s) - 1
        /\ \A i \in 1..Len(r) : r[i] = s[i + 1]
    BY <1>2, HeadTailProperties
  <2>2. Len(s) \in Nat /\ Len(r) \in Nat
    BY <2>1, LenProperties
  <2>3. \A i \in 1..Len(r) : i + 1 \in 1..Len(s) /\ r[i] = s[i + 1]
    BY <2>1, <2>2
  <2>4. QED
    BY <2>1, <2>3
<1>3. QED
  BY <1>1, <1>2

LEMMA OrderSend ==
  ASSUME IInv, NEW t \in Threads, Send(t)
  PROVE  OrderInv'
<1>1. inbox \in Seq(Requests) /\ txn \in Nat /\ given \in Nat
  BY DEF IInv, TypeOK
<1>2. txn' = txn + 1 /\ UNCHANGED <<newest, given, out>>
  BY DEF Send
<1>3. PICK c \in {cmd[t], "garbled"} :
         inbox' = Append(inbox, Request(txn + 1, c)) \/ inbox' = inbox
  BY DEF Send
<1>4. Request(txn + 1, c) \in Requests /\ Request(txn + 1, c).tx = txn + 1
  BY <1>1 DEF Request, Requests, IInv, TypeOK
<1>0. \A i \in 1..Len(inbox) : inbox[i].tx \in Nat /\ inbox[i].tx <= txn
  <2>1. \A i \in 1..Len(inbox) : inbox[i] \in Requests
    BY <1>1, ElementOfSeq
  <2>2. QED
    BY <2>1 DEF IInv, OrderInv, Requests
<1>5. CASE inbox' = inbox
  <2>1. \A i \in 1..Len(inbox) : inbox[i].tx <= txn'
    BY <1>0, <1>1, <1>2
  <2>2. QED
    BY <1>1, <1>2, <1>5, <2>1 DEF IInv, OrderInv
<1>6. CASE inbox' = Append(inbox, Request(txn + 1, c))
  <2>1. /\ Len(inbox') = Len(inbox) + 1
        /\ \A i \in 1..Len(inbox) : inbox'[i] = inbox[i]
        /\ inbox'[Len(inbox) + 1].tx = txn + 1
    BY <1>1, <1>4, <1>6, AppendProperties
  <2>3. Len(inbox) \in Nat
    BY <1>1, LenProperties
  <2>4. \A i \in 1..Len(inbox') :
          given < inbox'[i].tx /\ inbox'[i].tx <= txn'
    BY <1>0, <1>1, <1>2, <2>1, <2>3 DEF IInv, OrderInv
  <2>5. \A i, j \in 1..Len(inbox') : i < j => inbox'[i].tx < inbox'[j].tx
    BY <1>0, <1>1, <2>1, <2>3 DEF IInv, OrderInv
  <2>6. QED
    BY <1>1, <1>2, <2>4, <2>5 DEF IInv, OrderInv
<1>7. QED
  BY <1>3, <1>5, <1>6

LEMMA OrderRead ==
  ASSUME IInv, NEW t \in Threads, Read(t)
  PROVE  OrderInv'
<1>1. out \in Seq(WireByte) /\ newest \in Nat /\ given \in Nat /\ txn \in Nat
  BY DEF IInv, TypeOK
<1>2. UNCHANGED <<inbox, given, txn>> /\ pc[t] = "read"
  BY ReadFrame
<1>3. PICK k \in {0, 1} : /\ out' \in Seq(WireByte)
                         /\ \A i \in 1..Len(out') : /\ i + k \in 1..Len(out)
                                                    /\ out'[i] = out[i + k]
  BY <1>1, ReadBytes, TailIndex DEF IInv
<1>4. \A i \in 1..Len(out) : out[i].tx \in Nat
  BY <1>1, ElementOfSeq DEF WireByte
<1>5. /\ newest' \in Nat /\ newest' <= given
      /\ \A i \in 1..Len(out) : newest' <= out[i].tx
  <2>1. CASE newest' = newest
    BY <1>1, <2>1 DEF IInv, OrderInv
  <2>2. CASE Number(rx[t].buf) /\ newest' = rx[t].buf[1].tx
    <3>1. rx[t].buf \in Seq(WireByte) /\ rx[t].buf # <<>>
      BY <2>2 DEF IInv, TypeOK, RxState, Number
    <3>2. 1 \in 1..Len(rx[t].buf) /\ rx[t].buf[1] \in WireByte
      BY <3>1, EmptySeq, LenProperties, ElementOfSeq
    <3>3. rx[t].buf[1].tx \in Nat
      BY <3>2 DEF WireByte
    <3>4. QED
      BY <1>2, <2>2, <3>2, <3>3 DEF IInv, ReaderInv
  <2>3. QED
    BY <2>1, <2>2, ReadFrame
<1>6. Len(out) \in Nat /\ Len(out') \in Nat
  BY <1>1, <1>3, LenProperties
<1>7. \A i, j \in 1..Len(out') : i <= j => out'[i].tx <= out'[j].tx
  BY <1>3, <1>4, <1>6 DEF IInv, OrderInv
<1>8. \A i \in 1..Len(out') :
        0 < out'[i].tx /\ newest' <= out'[i].tx /\ out'[i].tx <= given
  BY <1>3, <1>5 DEF IInv, OrderInv
<1>9. QED
  BY <1>1, <1>2, <1>5, <1>7, <1>8 DEF IInv, OrderInv

\* What serving a request does to the two queues.
LEMMA ServeBytes ==
  ASSUME IInv, Serve
  PROVE  /\ given' \in Nat /\ given < given' /\ given' <= txn
         /\ Len(out) \in Nat /\ Len(out') \in Nat
         /\ \A i \in 1..Len(out') :
              IF i <= Len(out) THEN i \in 1..Len(out) /\ out'[i] = out[i]
                               ELSE out'[i].tx = given'
         /\ Len(inbox) \in Nat /\ Len(inbox') \in Nat
         /\ \A i \in 1..Len(inbox') :
              i + 1 \in 1..Len(inbox) /\ inbox'[i] = inbox[i + 1]
         /\ 1 \in 1..Len(inbox) /\ given' = inbox[1].tx
<1>1. inbox \in Seq(Requests) /\ out \in Seq(WireByte) /\ inbox # <<>>
  BY DEF IInv, TypeOK, Serve
<1> DEFINE answer(f) == [i \in 1..Len(f) |-> Byte(Head(inbox).tx, f, i)]
<1>2. inbox' = Tail(inbox) /\ given' = Head(inbox).tx
  BY DEF Serve
<1>3. PICK f \in Frames : out' = out \o answer(f)
  BY DEF Serve
<1>4. /\ Len(inbox) \in Nat \ {0} /\ Len(inbox') = Len(inbox) - 1
      /\ \A i \in 1..Len(inbox') : inbox'[i] = inbox[i + 1]
      /\ Head(inbox) = inbox[1] /\ Head(inbox) \in Requests
  BY <1>1, <1>2, HeadTailProperties, EmptySeq
<1>5. Len(inbox') \in Nat
  BY <1>4
<1>6. /\ 1 \in 1..Len(inbox)
      /\ \A i \in 1..Len(inbox') : i + 1 \in 1..Len(inbox)
  BY <1>4, <1>5
<1>7. given' \in Nat /\ given < given' /\ given' <= txn
  BY <1>2, <1>4, <1>6 DEF IInv, OrderInv, Requests
<1>8. /\ answer(f) \in Seq(WireByte)
      /\ Len(answer(f)) = Len(f) /\ Len(f) \in Nat
  BY <1>2, <1>7, AnswerType, FrameType
<1>9. /\ Len(out') = Len(out) + Len(f)
      /\ \A i \in 1..(Len(out) + Len(f)) :
           out'[i] = IF i <= Len(out) THEN out[i] ELSE answer(f)[i - Len(out)]
  BY <1>1, <1>3, <1>8, ConcatProperties
<1>10. \A i \in 1..Len(f) : answer(f)[i].tx = given'
  BY <1>2 DEF Byte
<1>11. Len(out) \in Nat
  BY <1>1, LenProperties
<1> HIDE DEF answer
<1>12. ASSUME NEW i \in 1..Len(out')
       PROVE  IF i <= Len(out) THEN i \in 1..Len(out) /\ out'[i] = out[i]
                               ELSE out'[i].tx = given'
  <2>1. CASE i <= Len(out)
    BY <1>8, <1>9, <1>11, <2>1
  <2>2. CASE ~(i <= Len(out))
    <3>1. i - Len(out) \in 1..Len(f)
      BY <1>8, <1>9, <1>11, <2>2
    <3>2. QED
      BY <1>8, <1>9, <1>10, <1>11, <2>2, <3>1
  <2>3. QED
    BY <2>1, <2>2
<1>13. QED
  BY <1>2, <1>4, <1>5, <1>6, <1>7, <1>8, <1>9, <1>11, <1>12

LEMMA OrderServe ==
  ASSUME IInv, Serve
  PROVE  OrderInv'
<1>1. UNCHANGED <<newest, txn>>
  BY DEF Serve, historyVars
<1>2. newest \in Nat /\ given \in Nat /\ txn \in Nat
  BY DEF IInv, TypeOK
<1>3. \A i \in 1..Len(inbox) : inbox[i].tx \in Nat
  <2>1. \A i \in 1..Len(inbox) : inbox[i] \in Requests
    BY ElementOfSeq DEF IInv, TypeOK
  <2>2. QED
    BY <2>1 DEF Requests
<1>4. \A i \in 1..Len(out) : out[i].tx \in Nat
  <2>1. \A i \in 1..Len(out) : out[i] \in WireByte
    BY ElementOfSeq DEF IInv, TypeOK
  <2>2. QED
    BY <2>1 DEF WireByte
<1>5. newest' <= given' /\ given' <= txn'
  BY <1>1, <1>2, ServeBytes DEF IInv, OrderInv
<1>6. ASSUME NEW i \in 1..Len(inbox')
      PROVE  given' < inbox'[i].tx /\ inbox'[i].tx <= txn'
  <2>1. i + 1 \in 1..Len(inbox) /\ inbox'[i] = inbox[i + 1]
    BY ServeBytes
  <2>2. 1 \in 1..Len(inbox) /\ 1 < i + 1 /\ given' = inbox[1].tx
    BY ServeBytes
  <2>3. QED
    BY <1>1, <2>1, <2>2 DEF IInv, OrderInv
<1>7. ASSUME NEW i \in 1..Len(inbox'), NEW j \in 1..Len(inbox'), i < j
      PROVE  inbox'[i].tx < inbox'[j].tx
  <2>1. /\ i + 1 \in 1..Len(inbox) /\ inbox'[i] = inbox[i + 1]
        /\ j + 1 \in 1..Len(inbox) /\ inbox'[j] = inbox[j + 1]
    BY ServeBytes
  <2>2. i + 1 < j + 1
    BY <1>7
  <2>3. QED
    BY <2>1, <2>2 DEF IInv, OrderInv
<1>8. ASSUME NEW i \in 1..Len(out')
      PROVE  /\ 0 < out'[i].tx /\ newest' <= out'[i].tx /\ out'[i].tx <= given'
             /\ out'[i].tx \in Nat
  <2>0. given < given' /\ given' \in Nat
    BY ServeBytes
  <2>1. CASE i <= Len(out)
    <3>1. i \in 1..Len(out) /\ out'[i] = out[i]
      BY <2>1, ServeBytes
    <3>2. /\ 0 < out[i].tx /\ newest <= out[i].tx /\ out[i].tx <= given
          /\ out[i].tx \in Nat
      BY <1>4, <3>1 DEF IInv, OrderInv
    <3>3. QED
      BY <1>1, <1>2, <2>0, <3>1, <3>2
  <2>2. CASE ~(i <= Len(out))
    <3>1. out'[i].tx = given'
      BY <2>2, ServeBytes
    <3>2. QED
      BY <1>2, <1>5, <2>0, <3>1
  <2>3. QED
    BY <2>1, <2>2
<1>9. ASSUME NEW i \in 1..Len(out'), NEW j \in 1..Len(out'), i <= j
      PROVE  out'[i].tx <= out'[j].tx
  <2>1. CASE j <= Len(out)
    <3>1. i <= Len(out)
      BY <1>9, <2>1, ServeBytes
    <3>2. /\ i \in 1..Len(out) /\ out'[i] = out[i]
          /\ j \in 1..Len(out) /\ out'[j] = out[j]
      BY <2>1, <3>1, ServeBytes
    <3>3. QED
      BY <1>9, <3>2 DEF IInv, OrderInv
  <2>2. CASE ~(j <= Len(out))
    BY <1>8, <2>2, ServeBytes
  <2>3. QED
    BY <2>1, <2>2
<1>10. QED
  BY <1>5, <1>6, <1>7, <1>8, <1>9 DEF OrderInv

LEMMA OrderStep == IInv /\ [Next]_vars => OrderInv'
<1> SUFFICES ASSUME IInv, [Next]_vars
             PROVE  OrderInv'
  OBVIOUS
<1> USE DEF scVars, historyVars
<1>1. ASSUME UNCHANGED <<newest, given, txn, inbox, out>>
      PROVE  OrderInv'
  BY <1>1 DEF IInv, OrderInv
<1>2. ASSUME NEW t \in Threads, NEW c \in Commands, Call(t, c)
      PROVE  OrderInv'
  BY <1>1, <1>2 DEF Call
<1>3. ASSUME NEW t \in Threads, Lock(t) \/ Unlock(t) \/ Retry(t)
      PROVE  OrderInv'
  BY <1>1, <1>3 DEF Lock, Unlock, Retry
<1>4. ASSUME NEW t \in Threads, Send(t) \/ Read(t)
      PROVE  OrderInv'
  BY <1>4, OrderSend, OrderRead
<1>5. CASE Serve
  BY <1>5, OrderServe
<1>6. CASE Done \/ UNCHANGED vars
  BY <1>1, <1>6 DEF Done, vars
<1>7. QED
  BY <1>2, <1>3, <1>4, <1>5, <1>6 DEF Next, Step

\* The part of ReaderInv about rxbuf.
BufInv(t) ==
  pc[t] = "read" =>
    \A i \in 1..Len(rx[t].buf) :
      /\ 0 < rx[t].buf[i].tx
      /\ newest <= rx[t].buf[i].tx /\ rx[t].buf[i].tx <= given
      /\ \A j \in 1..Len(out) : rx[t].buf[i].tx <= out[j].tx

\* The part of ReaderInv about the progress of a call.
CallInv(t) ==
  /\ pc[t] \in {"read", "unlock", "retry"} => tries[t] > 0
  /\ pc[t] \in {"lock", "send", "read"} => resp[t] = <<>>
  /\ pc[t] \in {"unlock", "retry"} /\ ret[t] = "EAGAIN" => resp[t] = <<>>

LEMMA ReaderParts == ReaderInv <=> \A t \in Threads : BufInv(t) /\ CallInv(t)
BY DEF ReaderInv, BufInv, CallInv

LEMMA CallStep ==
  ASSUME IInv, [Next]_vars, NEW u \in Threads
  PROVE  CallInv(u)'
<1> USE DEF CallInv, Go, scVars, historyVars
<1>1. /\ CallInv(u) /\ pc \in [Threads -> Pcs] /\ tries \in [Threads -> 0..MaxRetries]
      /\ ret \in [Threads -> Results] /\ resp \in [Threads -> Seq(WireByte)]
  BY ReaderParts DEF IInv, TypeOK
<1>2. ASSUME NEW t \in Threads, NEW c \in Commands, Call(t, c)
      PROVE  CallInv(u)'
  BY <1>1, <1>2 DEF Call
<1>3. ASSUME NEW t \in Threads, Lock(t)
      PROVE  CallInv(u)'
  BY <1>1, <1>3 DEF Lock
<1>4. ASSUME NEW t \in Threads, Send(t)
      PROVE  CallInv(u)'
  BY <1>1, <1>4 DEF Send
<1>5. ASSUME NEW t \in Threads, Read(t)
      PROVE  CallInv(u)'
  <2> USE DEF Finish, Continue
  <2>1. CASE ReadNothing(t)
    BY <1>1, <2>1 DEF ReadNothing
  <2>2. CASE ReadError(t)
    BY <1>1, <2>2 DEF ReadError
  <2>3. CASE ReadOpen(t)
    BY <1>1, <2>3 DEF ReadOpen
  <2>4. CASE ReadClose(t)
    BY <1>1, <2>4 DEF ReadClose
  <2>5. CASE ReadOther(t)
    BY <1>1, <2>5 DEF ReadOther
  <2>6. CASE ReadJammed(t)
    BY <1>1, <2>6 DEF ReadJammed
  <2>7. QED
    BY <1>5, <2>1, <2>2, <2>3, <2>4, <2>5, <2>6 DEF Read
<1>6. ASSUME NEW t \in Threads, Unlock(t)
      PROVE  CallInv(u)'
  BY <1>1, <1>6 DEF Unlock
<1>7. ASSUME NEW t \in Threads, Retry(t)
      PROVE  CallInv(u)'
  BY <1>1, <1>7 DEF Retry
<1>8. CASE Serve \/ Done \/ UNCHANGED vars
  BY <1>1, <1>8 DEF Serve, Done, vars
<1>9. QED
  BY <1>2, <1>3, <1>4, <1>5, <1>6, <1>7, <1>8 DEF Next, Step

LEMMA BufRead ==
  ASSUME IInv, NEW t \in Threads, Read(t), pc'[t] = "read"
  PROVE  BufInv(t)'
<1>0. /\ out \in Seq(WireByte) /\ rx[t].buf \in Seq(WireByte)
      /\ BufInv(t) /\ pc[t] = "read" /\ newest \in Nat /\ given \in Nat
  BY ReaderParts, ReadFrame DEF IInv, TypeOK, RxState
<1>1. UNCHANGED <<given, newest>>
  <2>1. pc' = pc
    BY <1>0 DEF IInv, TypeOK, Read, ReadNothing, ReadError, ReadOpen, ReadClose,
                ReadOther, ReadJammed, Finish, Continue, Go
  <2>2. QED
    BY <1>0, <2>1 DEF IInv, TypeOK, Read, ReadNothing, ReadError, ReadOpen,
                      ReadClose, ReadOther, ReadJammed, Finish, Continue, Go,
                      historyVars
<1>2. PICK k \in {0, 1} : \A i \in 1..Len(out') : /\ i + k \in 1..Len(out)
                                                  /\ out'[i] = out[i + k]
  BY <1>0, ReadBytes, TailIndex DEF IInv
<1>3. CASE rx'[t].buf = rx[t].buf
  BY <1>0, <1>1, <1>2, <1>3 DEF BufInv
<1>4. CASE /\ out # <<>> /\ out' = Tail(out)
           /\ rx'[t].buf = Append(rx[t].buf, Head(out))
  <2>1. /\ 1 \in 1..Len(out) /\ Head(out) = out[1] /\ Head(out) \in WireByte
    BY <1>0, <1>4, HeadTailProperties, EmptySeq
  <2>2. /\ Len(rx[t].buf) \in Nat
        /\ Len(rx'[t].buf) = Len(rx[t].buf) + 1
        /\ \A i \in 1..Len(rx[t].buf) : rx'[t].buf[i] = rx[t].buf[i]
        /\ rx'[t].buf[Len(rx[t].buf) + 1] = out[1]
    BY <1>0, <1>4, <2>1, AppendProperties, LenProperties
  <2>3. ASSUME NEW i \in 1..Len(rx'[t].buf)
        PROVE  /\ 0 < rx'[t].buf[i].tx
               /\ newest <= rx'[t].buf[i].tx /\ rx'[t].buf[i].tx <= given
               /\ \A j \in 1..Len(out') : rx'[t].buf[i].tx <= out'[j].tx
    <3>1. CASE i \in 1..Len(rx[t].buf)
      BY <1>0, <1>2, <2>2, <3>1 DEF BufInv
    <3>2. CASE i = Len(rx[t].buf) + 1
      <4>1. rx'[t].buf[i] = out[1]
        BY <2>2, <3>2
      <4>2. \A j \in 1..Len(out) : 1 <= j
        OBVIOUS
      <4>3. QED
        BY <1>2, <2>1, <4>1, <4>2 DEF IInv, OrderInv
    <3>3. QED
      BY <2>2, <3>1, <3>2
  <2>4. QED
    BY <1>1, <2>3 DEF BufInv
<1>5. QED
  BY <1>3, <1>4, ReadBytes DEF IInv

LEMMA BufServe ==
  ASSUME IInv, Serve, NEW u \in Threads
  PROVE  BufInv(u)'
<1>1. BufInv(u) /\ UNCHANGED <<pc, rx, newest>>
  BY ReaderParts DEF IInv, Serve, historyVars
<1>2. SUFFICES ASSUME pc[u] = "read", NEW i \in 1..Len(rx[u].buf)
               PROVE  /\ 0 < rx[u].buf[i].tx
                      /\ newest <= rx[u].buf[i].tx /\ rx[u].buf[i].tx <= given'
                      /\ \A j \in 1..Len(out') : rx[u].buf[i].tx <= out'[j].tx
  BY <1>1 DEF BufInv
<1>3. /\ rx[u].buf[i].tx \in Nat /\ rx[u].buf[i].tx <= given
      /\ given \in Nat /\ given' \in Nat /\ given < given'
  <2>1. rx[u].buf[i] \in WireByte
    BY <1>2, ElementOfSeq DEF IInv, TypeOK, RxState
  <2>2. QED
    BY <1>1, <1>2, <2>1, ServeBytes DEF BufInv, IInv, TypeOK, WireByte
<1>4. ASSUME NEW j \in 1..Len(out')
      PROVE  rx[u].buf[i].tx <= out'[j].tx
  <2>1. CASE j <= Len(out)
    BY <1>1, <1>2, <2>1, ServeBytes DEF BufInv
  <2>2. CASE ~(j <= Len(out))
    <3>1. out'[j].tx = given'
      BY <2>2, ServeBytes
    <3>2. QED
      BY <1>3, <3>1
  <2>3. QED
    BY <2>1, <2>2
<1>5. QED
  BY <1>1, <1>2, <1>3, <1>4 DEF BufInv

LEMMA BufStep ==
  ASSUME IInv, [Next]_vars, NEW u \in Threads
  PROVE  BufInv(u)'
<1> USE DEF Go, scVars, historyVars
<1>1. /\ BufInv(u) /\ pc \in [Threads -> Pcs] /\ rx \in [Threads -> RxState]
  BY ReaderParts DEF IInv, TypeOK
<1>2. ASSUME NEW t \in Threads,
             (\E c \in Commands : Call(t, c)) \/ Lock(t) \/ Unlock(t) \/ Retry(t)
      PROVE  BufInv(u)'
  <2>1. UNCHANGED <<rx, newest, given, out>>
    BY <1>2 DEF Call, Lock, Unlock, Retry
  <2>2. pc'[u] = "read" => pc[u] = "read"
    BY <1>1, <1>2 DEF Call, Lock, Unlock, Retry
  <2>3. QED
    BY <1>1, <2>1, <2>2 DEF BufInv
<1>3. ASSUME NEW t \in Threads, Send(t)
      PROVE  BufInv(u)'
  <2>1. CASE t = u
    <3>1. rx'[u].buf = <<>>
      BY <1>1, <1>3, <2>1 DEF Send, FreshRx
    <3>2. QED
      BY <3>1 DEF BufInv
  <2>2. CASE t # u
    BY <1>1, <1>3, <2>2 DEF Send, BufInv
  <2>3. QED
    BY <2>1, <2>2
<1>4. ASSUME NEW t \in Threads, Read(t)
      PROVE  BufInv(u)'
  <2>1. CASE t = u /\ pc'[u] = "read"
    BY <1>4, <2>1, BufRead
  <2>2. CASE pc'[u] # "read"
    BY <2>2 DEF BufInv
  <2>3. CASE t # u
    <3>1. pc[t] = "read" /\ (pc' = pc \/ pc' = [pc EXCEPT ![t] = "unlock"])
      BY <1>4, ReadFrame
    <3>2. pc[u] # "read"
      BY <2>3, <3>1 DEF IInv, OneTransaction, InTransaction
    <3>3. QED
      BY <1>1, <2>3, <3>1, <3>2 DEF BufInv
  <2>4. QED
    BY <2>1, <2>2, <2>3
<1>5. CASE Serve
  BY <1>5, BufServe
<1>6. CASE Done \/ UNCHANGED vars
  BY <1>1, <1>6 DEF Done, vars, BufInv
<1>7. QED
  BY <1>2, <1>3, <1>4, <1>5, <1>6 DEF Next, Step

LEMMA InitIInv == Init => IInv
<1> SUFFICES ASSUME Init
             PROVE  IInv
  OBVIOUS
<1>1. TypeOK /\ RetryInv
  BY InitType
<1>2. OneTransaction
  BY DEF Init, OneTransaction, InTransaction
<1>3. OrderInv
  BY DEF Init, OrderInv
<1>4. ReaderInv
  BY DEF Init, ReaderInv
<1>5. QED
  BY <1>1, <1>2, <1>3, <1>4 DEF IInv

LEMMA NextIInv == IInv /\ [Next]_vars => IInv'
<1> SUFFICES ASSUME IInv, [Next]_vars
             PROVE  IInv'
  OBVIOUS
<1>1. TypeOK' /\ RetryInv'
  BY NextType DEF IInv
<1>2. OneTransaction'
  BY MutexStep DEF IInv
<1>3. OrderInv'
  BY OrderStep
<1>4. ReaderInv'
  <2>1. \A u \in Threads : BufInv(u)' /\ CallInv(u)'
    BY BufStep, CallStep
  <2>2. QED
    BY <2>1 DEF ReaderInv, BufInv, CallInv
<1>5. QED
  BY <1>1, <1>2, <1>3, <1>4 DEF IInv

\* Accepted, wire and unserved answers stay in the order of the transactions.
THEOREM InOrder == Spec => []IInv
BY InitIInv, NextIInv, PTL DEF Spec

-----------------------------------------------------------------------------
(* Refinement of the abstract command channel.                               *)
busyBar == {t \in Threads : pc[t] # "idle"}
takenBar == [t \in Threads |-> IF resp[t] = <<>> THEN 0 ELSE resp[t][1].tx]

LEMMA InitRefines == Init => Abstract!AbstractInit
BY DEF Init, Abstract!AbstractInit

\* Entering sc_cmdresp_retry is the beginning of an abstract call.
LEMMA RefineCall ==
  ASSUME IInv, NEW t \in Threads, NEW c \in Commands, Call(t, c)
  PROVE  Abstract!Begin(t, c)
<1>1. /\ pc \in [Threads -> Pcs] /\ resp \in [Threads -> Seq(WireByte)]
  BY DEF IInv, TypeOK
<1>2. pc[t] = "idle" /\ pc' = [pc EXCEPT ![t] = "lock"]
  BY DEF Call, Go
<1>3. busyBar' = busyBar \cup {t} /\ t \notin busyBar
  BY <1>1, <1>2 DEF busyBar
<1>4. takenBar' = [takenBar EXCEPT ![t] = 0]
  BY <1>1 DEF takenBar, Call
<1>5. QED
  BY <1>3, <1>4 DEF Call, Abstract!Begin, busyBar, takenBar, scVars

LEMMA RefineSend ==
  ASSUME IInv, NEW t \in Threads, Send(t)
  PROVE  Abstract!Transmit(t)
<1>1. /\ pc \in [Threads -> Pcs] /\ pc[t] = "send"
      /\ pc' = [pc EXCEPT ![t] = "read"]
  BY DEF IInv, TypeOK, Send, Go
<1>2. busyBar' = busyBar /\ t \in busyBar
  BY <1>1 DEF busyBar
<1>3. takenBar' = takenBar /\ takenBar[t] = 0
  BY <1>1 DEF takenBar, Send, IInv, ReaderInv
<1>4. tries[t] < MaxRetries
  BY <1>1 DEF IInv, RetryInv
<1>5. \/ \E c \in {cmd[t], "garbled"} :
           inbox' = Append(inbox, Abstract!Request(txn + 1, c))
      \/ UNCHANGED inbox
  BY DEF Send, Request, Abstract!Request
<1>6. QED
  BY <1>2, <1>3, <1>4, <1>5 DEF Send, Abstract!Transmit, busyBar, takenBar

LEMMA RefineRead ==
  ASSUME IInv, NEW t \in Threads, Read(t)
  PROVE  Abstract!Take(t) \/ UNCHANGED Abstract!abstractVars
<1>1. /\ pc \in [Threads -> Pcs] /\ pc[t] = "read"
      /\ pc' = pc \/ pc' = [pc EXCEPT ![t] = "unlock"]
      /\ UNCHANGED <<lock, cmd, tries, inbox, given, txn, own, calls>>
  BY ReadFrame DEF IInv, TypeOK
<1>2. busyBar' = busyBar /\ t \in busyBar
  BY <1>1 DEF busyBar
<1>3. CASE UNCHANGED <<resp, newest>>
  <2>1. takenBar' = takenBar
    BY <1>3 DEF takenBar
  <2>2. QED
    BY <1>1, <1>2, <1>3, <2>1 DEF Abstract!abstractVars, busyBar, takenBar
<1>4. CASE /\ Number(rx[t].buf)
           /\ resp' = [resp EXCEPT ![t] = rx[t].buf]
           /\ newest' = rx[t].buf[1].tx
  <2>1. rx[t].buf \in Seq(WireByte) /\ rx[t].buf # <<>>
    BY <1>4 DEF IInv, TypeOK, RxState, Number
  <2>2. 1 \in 1..Len(rx[t].buf) /\ rx[t].buf[1] \in WireByte
    BY <2>1, EmptySeq, LenProperties, ElementOfSeq
  <2>3. /\ newest' \in Nat /\ 0 < newest' /\ newest <= newest' /\ newest' <= given
    BY <1>1, <1>4, <2>2 DEF IInv, ReaderInv, WireByte
  <2>4. newest' \in newest..given
    BY <2>3 DEF IInv, TypeOK
  <2>5. resp \in [Threads -> Seq(WireByte)]
    BY DEF IInv, TypeOK
  <2>6. takenBar' = [takenBar EXCEPT ![t] = newest']
    BY <1>4, <2>1, <2>5 DEF takenBar
  <2>7. tries[t] > 0
    BY <1>1 DEF IInv, ReaderInv
  <2>8. QED
    BY <1>1, <1>2, <2>3, <2>4, <2>6, <2>7 DEF Abstract!Take, busyBar, takenBar
<1>5. QED
  BY <1>3, <1>4, ReadFrame

LEMMA RefineRest ==
  ASSUME IInv, NEW t \in Threads, Lock(t) \/ Unlock(t) \/ Retry(t)
  PROVE  Abstract!Return(t) \/ UNCHANGED Abstract!abstractVars
<1>1. /\ pc \in [Threads -> Pcs] /\ resp \in [Threads -> Seq(WireByte)]
  BY DEF IInv, TypeOK
<1>2. UNCHANGED <<cmd, tries, inbox, given, txn, newest>>
  BY DEF Lock, Unlock, Retry, scVars, historyVars
<1>3. resp' = resp
  <2>1. CASE Lock(t)
    <3>1. resp[t] = <<>>
      BY <2>1 DEF Lock, Go, IInv, ReaderInv
    <3>2. QED
      BY <1>1, <2>1, <3>1 DEF Lock
  <2>2. QED
    BY <2>1 DEF Unlock, Retry
<1>4. takenBar' = takenBar
  BY <1>3 DEF takenBar
<1>5. CASE pc'[t] = "idle"
  <2>1. pc[t] = "retry" /\ pc' = [pc EXCEPT ![t] = "idle"]
    BY <1>1, <1>5 DEF Lock, Unlock, Retry, Go
  <2>2. t \in busyBar /\ busyBar' = busyBar \ {t} /\ tries[t] > 0
    BY <1>1, <2>1 DEF busyBar, IInv, ReaderInv
  <2>3. QED
    BY <1>2, <1>4, <2>2 DEF Abstract!Return, busyBar, takenBar
<1>6. CASE pc'[t] # "idle"
  <2>1. busyBar' = busyBar
    BY <1>1, <1>6 DEF busyBar, Lock, Unlock, Retry, Go
  <2>2. QED
    BY <1>2, <1>4, <2>1 DEF Abstract!abstractVars, busyBar, takenBar
<1>7. QED
  BY <1>5, <1>6

LEMMA StepRefines ==
  IInv /\ [Next]_vars => [Abstract!AbstractNext]_(Abstract!abstractVars)
<1> SUFFICES ASSUME IInv, [Next]_vars
             PROVE  Abstract!AbstractNext \/ UNCHANGED Abstract!abstractVars
  OBVIOUS
<1>1. ASSUME NEW t \in Threads, NEW c \in Commands, Call(t, c)
      PROVE  Abstract!AbstractNext
  BY <1>1, RefineCall DEF Abstract!AbstractNext
<1>2. ASSUME NEW t \in Threads, Step(t) \/ Lock(t)
      PROVE  Abstract!AbstractNext \/ UNCHANGED Abstract!abstractVars
  BY <1>2, RefineSend, RefineRead, RefineRest DEF Step, Abstract!AbstractNext
<1>3. CASE Serve
  BY <1>3 DEF Serve, historyVars, Abstract!Serve, Abstract!AbstractNext
<1>4. CASE Done \/ UNCHANGED vars
  BY <1>4 DEF Done, vars, Abstract!abstractVars
<1>5. QED
  BY <1>1, <1>2, <1>3, <1>4 DEF Next

\* The command channel with its mutex, byte loop, timeouts and retries is one
\* in which a call sends its command 1..MaxRetries times and accepts answers
\* in order, for every number of threads and every set of answers.
THEOREM Refinement == Spec => ImplementsScCommand
<1>1. Spec => []IInv
  BY InOrder
<1>2. QED
  BY <1>1, InitRefines, StepRefines, PTL
     DEF Spec, ImplementsScCommand, Abstract!AbstractSpec

-----------------------------------------------------------------------------
(* What a read loop takes off the wire, where it may have started in the     *)
(* middle of an older answer.                                                *)
HIDE ConstantsAssumption DEF ConstantsAssumption

Opens(b) == Ch(b) = "("
Shuts(b) == Ch(b) = ")"
OpensAt(f, i) == f[i].ch = "("
ShutsAt(f, i) == f[i].ch = ")"

\* The bytes of one transaction on the wire are bytes of one answer, in order.
WireInv ==
  \A i, j \in 1..Len(out) : i < j /\ out[i].tx = out[j].tx =>
    out[i].of = out[j].of /\ out[i].pos < out[j].pos

\* What is left of an answer that was accepted opens nothing, so that nobody
\* takes anything of it; and what is in rxbuf is newer.
SpentInv ==
  /\ \A i \in 1..Len(out) : out[i].tx = newest =>
       /\ ~Opens(out[i])
       /\ \A t \in Threads : pc[t] = "read" => rx[t].paren <= 0 /\ rx[t].buf = <<>>
  /\ \A t \in Threads : pc[t] = "read" =>
       \A i \in 1..Len(rx[t].buf) : newest < rx[t].buf[i].tx

\* The answers on the wire that a read loop can still take something of, and
\* with them the requests without an answer.
OwedOf(wire, last) ==
  {n \in 1..last : \E i \in 1..Len(wire) :
     wire[i].tx = n /\ (wire[i].pos = 1 \/ Opens(wire[i]))}
Owed == OwedOf(out, given)
Total == Len(inbox) + Cardinality(Owed)

\* Of the first answer a part is read, but not the last parenthesis it opens.
Begun ==
  /\ out # <<>> /\ out[1].pos > 1
  /\ \E i \in 1..Len(out) : out[i].tx = out[1].tx /\ Opens(out[i])

Reading == \E t \in Threads : pc[t] = "read"

\* Every answer too many was left by an abandoned transaction.  A transaction
\* that has a parenthesis open has used one up, or is about to.
BacklogInv ==
  /\ Total <= broken + (IF Reading THEN 1 ELSE 0)
  /\ \A t \in Threads : pc[t] = "read" /\ rx[t].paren >= 1 => Total <= broken \/ Begun

\* The rest of the answer f to the last transaction, after p bytes.
Depth(f, p) == IF p = 0 THEN 0 ELSE f[p].depth
Rest(f, p) ==
  Len(out) = Len(f) - p /\ \A i \in 1..Len(out) : out[i] = Byte(txn, f, p + i)

\* While nothing was abandoned the wire is empty between two transactions, and
\* in a transaction it has at most its own answer, at whose depth the loop is.
OwnAnswer(t) ==
  /\ \A i \in 1..Len(rx[t].buf) : rx[t].buf[i].tx = txn
  /\ \/ /\ out = <<>> /\ rx[t].paren = 0 /\ Len(inbox) <= 1
        /\ \A i \in 1..Len(inbox) : inbox[i].tx = txn
     \/ /\ inbox = <<>>
        /\ \E f \in Frames : \E p \in 0..Len(f) : Rest(f, p) /\ rx[t].paren = Depth(f, p)

StepInv ==
  /\ InStep
  /\ \A t \in Threads : pc[t] = "read" => own[t] = txn
  /\ broken = 0 =>
       /\ ~Reading => inbox = <<>> /\ out = <<>>
       /\ \A t \in Threads : pc[t] = "read" => OwnAnswer(t)

WholeInv == IInv /\ WireInv /\ SpentInv /\ BacklogInv /\ StepInv

\* The steps that touch neither wire nor read loop.
Quiet ==
  /\ UNCHANGED <<rx, inbox, out, given, txn, own, newest, broken>>
  /\ \A u \in Threads : /\ pc'[u] = "read" <=> pc[u] = "read"
                        /\ resp'[u] \in {resp[u], <<>>}

\* Every step is one of the quiet ones, a send, an answer or a read.
LEMMA NextCases ==
  ASSUME IInv, [Next]_vars
  PROVE  Quiet \/ Serve \/ \E t \in Threads : Send(t) \/ Read(t)
<1> USE DEF Go, scVars, historyVars
<1>0. pc \in [Threads -> Pcs] /\ resp \in [Threads -> Seq(WireByte)]
  BY DEF IInv, TypeOK
<1>1. ASSUME NEW t \in Threads, NEW c \in Commands, Call(t, c)
      PROVE  Quiet
  BY <1>0, <1>1 DEF Call, Quiet
<1>2. ASSUME NEW t \in Threads, Lock(t)
      PROVE  Quiet
  BY <1>0, <1>2 DEF Lock, Quiet
<1>3. ASSUME NEW t \in Threads, Unlock(t)
      PROVE  Quiet
  BY <1>0, <1>3 DEF Unlock, Quiet
<1>4. ASSUME NEW t \in Threads, Retry(t)
      PROVE  Quiet
  BY <1>0, <1>4 DEF Retry, Quiet
<1>5. CASE Done \/ UNCHANGED vars
  BY <1>0, <1>5 DEF Done, vars, Quiet
<1>6. QED
  BY <1>1, <1>2, <1>3, <1>4, <1>5 DEF Next, Step

\* The ends of a step of the read loop.
Stays == pc' = pc /\ UNCHANGED <<broken, resp, newest>>
GivesUp(t) ==
  pc' = [pc EXCEPT ![t] = "unlock"] /\ broken' = broken + 1 /\ UNCHANGED <<resp, newest>>
Ends(t) ==
  /\ pc' = [pc EXCEPT ![t] = "unlock"] /\ broken' = broken
  /\ \/ UNCHANGED <<resp, newest>>
     \/ /\ rx[t].buf # <<>>
        /\ resp' = [resp EXCEPT ![t] = rx[t].buf] /\ newest' = rx[t].buf[1].tx

\* The first byte is taken off the wire.
Takes == out # <<>> /\ out' = Tail(out)

\* What a read does, by the byte it finds.
TakesOpen(t) ==
  /\ Takes /\ Opens(Head(out)) /\ Stays
  /\ rx'[t].paren = rx[t].paren + 1 /\ rx'[t].buf = rx[t].buf
TakesShut(t) ==
  /\ Takes /\ Shuts(Head(out))
  /\ rx'[t].paren = rx[t].paren - 1 /\ rx'[t].buf = rx[t].buf
  /\ IF rx[t].paren = 1 THEN Ends(t) ELSE Stays
TakesOther(t) ==
  /\ Takes /\ ~Opens(Head(out)) /\ ~Shuts(Head(out)) /\ rx'[t].paren = rx[t].paren
  /\ IF rx[t].paren = 1 THEN rx'[t].buf = Append(rx[t].buf, Head(out))
                        ELSE rx'[t].buf = rx[t].buf
  /\ Stays \/ GivesUp(t)
TakesNothing(t) ==
  /\ out' = out
  /\ rx'[t].paren = rx[t].paren /\ rx'[t].buf = rx[t].buf
  /\ Stays \/ GivesUp(t)
Breaks(t) == (out' = out \/ Takes) /\ GivesUp(t)

\* Every read is one of the five, and touches no other thread's loop.
LEMMA ReadCases ==
  ASSUME IInv, NEW t \in Threads, Read(t)
  PROVE  /\ pc[t] = "read" /\ UNCHANGED <<inbox, given, txn, own>>
         /\ \A u \in Threads \ {t} : rx'[u] = rx[u]
         /\ \/ TakesOpen(t) \/ TakesShut(t) \/ TakesOther(t)
            \/ TakesNothing(t) \/ Breaks(t)
<1>0. /\ rx \in [Threads -> RxState] /\ broken \in Nat
      /\ rx[t] \in RxState /\ TypeOK
  BY DEF IInv, TypeOK
<1>1. /\ pc[t] = "read" /\ UNCHANGED <<inbox, given, txn, own>>
      /\ \A u \in Threads \ {t} : rx'[u] = rx[u]
      /\ out' = out \/ Takes
  BY <1>0, ReadFrame, ReadBytes DEF Takes
<1> USE DEF Finish, Continue, Go, historyVars
<1>2. CASE ReadNothing(t)
  <2>1. out = <<>> /\ out' = <<>>
    BY <1>2 DEF ReadNothing
  <2>2. rx'[t].paren = rx[t].paren /\ rx'[t].buf = rx[t].buf
    BY <1>0, <1>2 DEF ReadNothing, RxState
  <2>3. Stays \/ GivesUp(t)
    BY <1>2 DEF ReadNothing, Stays, GivesUp
  <2>4. QED
    BY <1>1, <2>1, <2>2, <2>3 DEF TakesNothing
<1>3. CASE ReadError(t)
  BY <1>1, <1>3 DEF ReadError, Breaks, GivesUp
<1>4. CASE ReadOpen(t)
  <2>1. Takes /\ Opens(Head(out))
    BY <1>4 DEF ReadOpen, Takes, Opens
  <2>2. rx'[t].paren = rx[t].paren + 1 /\ rx'[t].buf = rx[t].buf
    <3>1. rx' = [rx EXCEPT ![t].paren = @ + 1]
      BY <1>4, Zenon DEF ReadOpen
    <3>2. QED
      BY <1>0, <3>1 DEF RxState
  <2>3. Stays
    BY <1>4 DEF ReadOpen, Stays
  <2>4. QED
    BY <1>1, <2>1, <2>2, <2>3 DEF TakesOpen
<1>5. CASE ReadClose(t)
  <2>1. Takes /\ Shuts(Head(out))
    BY <1>5 DEF ReadClose, Takes, Shuts
  <2>2. rx'[t].paren = rx[t].paren - 1 /\ rx'[t].buf = rx[t].buf
    <3>1. rx' = [rx EXCEPT ![t].paren = @ - 1]
      BY <1>5, Zenon DEF ReadClose
    <3>2. QED
      BY <1>0, <3>1 DEF RxState
  <2>3. ASSUME rx[t].paren = 1
        PROVE  Ends(t)
    <3> DEFINE Value == /\ Number(rx[t].buf)
                        /\ resp' = [resp EXCEPT ![t] = rx[t].buf]
                        /\ newest' = rx[t].buf[1].tx
                        /\ Finish(t, "OK", FALSE)
               Empty == /\ rx[t].buf = <<>>
                        /\ UNCHANGED <<resp, newest>>
                        /\ Finish(t, "OK", FALSE)
               Word == /\ rx[t].buf # <<>> /\ ~Number(rx[t].buf)
                       /\ UNCHANGED <<resp, newest>>
                       /\ Finish(t, "EAGAIN", FALSE)
    <3>1. Value \/ Empty \/ Word
      BY <1>5, <2>3, Zenon DEF ReadClose
    <3>2. broken + 0 = broken
      BY <1>0
    <3>3. QED
      BY <3>1, <3>2 DEF Ends, Number
  <2>4. ASSUME rx[t].paren # 1
        PROVE  Stays
    <3>1. Continue(t) /\ UNCHANGED <<resp, newest, broken>>
      BY <1>5, <2>4, Zenon DEF ReadClose
    <3>2. QED
      BY <3>1 DEF Stays
  <2>5. QED
    BY <1>1, <2>1, <2>2, <2>3, <2>4 DEF TakesShut
<1>6. CASE ReadOther(t)
  <2>1. Takes /\ ~Opens(Head(out)) /\ ~Shuts(Head(out))
    BY <1>6, Zenon DEF ReadOther, Takes, Opens, Shuts
  <2>2. ASSUME rx[t].paren = 1
        PROVE  /\ rx'[t].paren = rx[t].paren
               /\ rx'[t].buf = Append(rx[t].buf, Head(out))
               /\ Stays \/ GivesUp(t)
    <3>1. /\ rx' = [rx EXCEPT ![t].buf = Append(@, Head(out))]
          /\ IF Len(rx[t].buf) + 1 >= RxSz
             THEN Finish(t, "EAGAIN", TRUE) /\ UNCHANGED <<resp, newest>>
             ELSE Continue(t)
      BY <1>6, <2>2, Zenon DEF ReadOther
    <3>2. QED
      BY <1>0, <3>1 DEF RxState, Stays, GivesUp
  <2>3. ASSUME rx[t].paren # 1
        PROVE  rx'[t] = rx[t] /\ Stays
    <3>1. Continue(t) /\ UNCHANGED rx
      BY <1>6, <2>3, Zenon DEF ReadOther
    <3>2. QED
      BY <3>1 DEF Stays
  <2>4. QED
    BY <1>1, <2>1, <2>2, <2>3 DEF TakesOther
<1>7. CASE ReadJammed(t)
  <2>1. CASE Finish(t, "EAGAIN", TRUE) /\ UNCHANGED <<rx, out, resp, newest>>
    BY <1>1, <2>1 DEF Breaks, GivesUp
  <2>2. CASE Continue(t) /\ UNCHANGED <<rx, out>>
    BY <1>1, <2>2 DEF TakesNothing, Stays
  <2>3. QED
    BY <1>7, <2>1, <2>2 DEF ReadJammed
<1>8. QED
  BY <1>1, <1>2, <1>3, <1>4, <1>5, <1>6, <1>7 DEF Read

\* A byte taken off the wire was its first one; the others move up.
LEMMA TakesFirst ==
  ASSUME TypeOK, Takes
  PROVE  /\ Len(out) \in Nat /\ Len(out') \in Nat /\ Len(out) = Len(out') + 1
         /\ Head(out) = out[1] /\ 1 \in 1..Len(out)
         /\ out \in Seq(WireByte) /\ out' \in Seq(WireByte)
         /\ \A i \in 1..Len(out') : i + 1 \in 1..Len(out) /\ out'[i] = out[i + 1]
<1>1. out \in Seq(WireByte) /\ out # <<>> /\ out' = Tail(out)
  BY DEF TypeOK, Takes
<1>2. /\ out' \in Seq(WireByte) /\ Len(out') = Len(out) - 1 /\ Head(out) = out[1]
      /\ \A i \in 1..Len(out') : out'[i] = out[i + 1]
  BY <1>1, HeadTailProperties
<1>3. Len(out) \in Nat /\ Len(out') \in Nat
  BY <1>1, <1>2, LenProperties
<1>4. QED
  BY <1>1, <1>2, <1>3

\* The bytes on the wire have the types of bytes.
LEMMA ByteTypes ==
  ASSUME NEW s \in Seq(WireByte), NEW i \in 1..Len(s)
  PROVE  /\ s[i].tx \in Nat /\ s[i].of \in Frames
         /\ s[i].pos \in Nat /\ s[i].pos >= 1 /\ s[i].pos \in 1..Len(s[i].of)
<1>1. s[i] \in WireByte
  BY ElementOfSeq
<1>2. s[i].of \in Frames
  BY <1>1 DEF WireByte
<1>3. Len(s[i].of) \in Nat
  BY <1>2, FrameType
<1>4. QED
  BY <1>1, <1>3 DEF WireByte

\* A served request becomes the bytes of one answer at the end of the wire.
LEMMA ServeAnswer ==
  ASSUME IInv, Serve
  PROVE  /\ UNCHANGED <<pc, rx, resp, txn, own, newest, broken>>
         /\ \E f \in Frames :
              /\ Len(f) \in Nat /\ Len(out') = Len(out) + Len(f)
              /\ \A i \in 1..Len(out) : out'[i] = out[i]
              /\ \A i \in 1..Len(f) : out'[Len(out) + i] = Byte(given', f, i)
<1>1. inbox \in Seq(Requests) /\ out \in Seq(WireByte) /\ inbox # <<>>
  BY DEF IInv, TypeOK, Serve
<1>2. Head(inbox).tx \in Nat /\ given' = Head(inbox).tx
  <2>1. Head(inbox) \in Requests
    BY <1>1, HeadTailProperties
  <2>2. QED
    BY <2>1 DEF Serve, Requests
<1> DEFINE answer(f) == [i \in 1..Len(f) |-> Byte(Head(inbox).tx, f, i)]
<1>3. PICK f \in Frames : out' = out \o answer(f)
  BY DEF Serve
<1>4. Len(f) \in Nat /\ Len(out) \in Nat
  BY <1>1, FrameType, LenProperties
<1>5. answer(f) \in Seq(WireByte) /\ Len(answer(f)) = Len(f)
  BY <1>2, AnswerType
<1>6. \A i \in 1..Len(f) : answer(f)[i] = Byte(given', f, i)
  BY <1>2
<1>7. /\ Len(out') = Len(out) + Len(f)
      /\ \A i \in 1..(Len(out) + Len(f)) :
           out'[i] = IF i <= Len(out) THEN out[i] ELSE answer(f)[i - Len(out)]
  BY <1>1, <1>3, <1>5, ConcatProperties
<1> HIDE DEF answer
<1>8. ASSUME NEW i \in 1..Len(out)
      PROVE  out'[i] = out[i]
  BY <1>4, <1>7
<1>9. ASSUME NEW i \in 1..Len(f)
      PROVE  out'[Len(out) + i] = Byte(given', f, i)
  <2>1. /\ Len(out) + i \in 1..(Len(out) + Len(f)) /\ ~(Len(out) + i <= Len(out))
        /\ Len(out) + i - Len(out) = i
    BY <1>4
  <2>2. out'[Len(out) + i] = answer(f)[i]
    BY <1>7, <2>1
  <2>3. QED
    BY <1>6, <2>2
<1>10. QED
  BY <1>4, <1>7, <1>8, <1>9 DEF Serve, historyVars

\* Taking the first byte keeps the others in order.
LEMMA WireRead ==
  ASSUME IInv, WireInv, NEW t \in Threads, Read(t)
  PROVE  WireInv'
<1>1. out' = out \/ Takes
  BY ReadCases DEF TakesOpen, TakesShut, TakesOther, TakesNothing, Breaks
<1>2. CASE out' = out
  BY <1>2 DEF WireInv
<1>3. CASE Takes
  <2>1. /\ Len(out) \in Nat /\ Len(out') \in Nat
        /\ \A i \in 1..Len(out') : i + 1 \in 1..Len(out) /\ out'[i] = out[i + 1]
    BY <1>3, TakesFirst DEF IInv
  <2> SUFFICES ASSUME NEW i \in 1..Len(out'), NEW j \in 1..Len(out'),
                      i < j, out'[i].tx = out'[j].tx
               PROVE  out'[i].of = out'[j].of /\ out'[i].pos < out'[j].pos
    BY DEF WireInv
  <2>2. /\ i + 1 \in 1..Len(out) /\ out'[i] = out[i + 1]
        /\ j + 1 \in 1..Len(out) /\ out'[j] = out[j + 1]
    BY <2>1
  <2>3. i + 1 < j + 1
    BY <2>1
  <2>4. out[i + 1].tx = out[j + 1].tx
    BY <2>2
  <2>5. QED
    BY <2>2, <2>3, <2>4 DEF WireInv
<1>4. QED
  BY <1>1, <1>2, <1>3

\* A new answer is younger than everything on the wire.
LEMMA WireServe ==
  ASSUME IInv, WireInv, Serve
  PROVE  WireInv'
<1>1. PICK f \in Frames :
        /\ Len(f) \in Nat /\ Len(out') = Len(out) + Len(f)
        /\ \A i \in 1..Len(out) : out'[i] = out[i]
        /\ \A i \in 1..Len(f) : out'[Len(out) + i] = Byte(given', f, i)
  BY ServeAnswer
<1>2. Len(out) \in Nat /\ given \in Nat /\ given' \in Nat /\ given < given'
  BY ServeBytes DEF IInv, TypeOK
<1>3. \A i \in 1..Len(out) : out[i].tx \in Nat /\ out[i].tx <= given
  BY ByteTypes DEF IInv, TypeOK, OrderInv
<1> SUFFICES ASSUME NEW i \in 1..Len(out'), NEW j \in 1..Len(out'),
                    i < j, out'[i].tx = out'[j].tx
             PROVE  out'[i].of = out'[j].of /\ out'[i].pos < out'[j].pos
  BY DEF WireInv
<1>4. CASE j <= Len(out)
  <2>1. i \in 1..Len(out) /\ j \in 1..Len(out)
    BY <1>2, <1>4
  <2>2. QED
    BY <1>1, <2>1 DEF WireInv
<1>5. CASE ~(j <= Len(out))
  <2>1. j - Len(out) \in 1..Len(f) /\ Len(out) + (j - Len(out)) = j
    BY <1>1, <1>2, <1>5
  <2>2. out'[j] = Byte(given', f, j - Len(out))
    BY <1>1, <2>1
  <2>3. CASE i <= Len(out)
    <3>1. i \in 1..Len(out)
      BY <1>2, <2>3
    <3>2. out'[i].tx <= given /\ out'[j].tx = given' /\ out'[i].tx \in Nat
      BY <1>1, <1>3, <2>2, <3>1 DEF Byte
    <3>3. QED
      BY <1>2, <3>2
  <2>4. CASE ~(i <= Len(out))
    <3>1. i - Len(out) \in 1..Len(f) /\ Len(out) + (i - Len(out)) = i
      BY <1>1, <1>2, <2>4
    <3>2. out'[i] = Byte(given', f, i - Len(out))
      BY <1>1, <3>1
    <3>3. i - Len(out) < j - Len(out)
      BY <1>2
    <3>4. QED
      BY <2>2, <3>2, <3>3 DEF Byte
  <2>5. QED
    BY <2>3, <2>4
<1>6. QED
  BY <1>4, <1>5

\* Every step keeps the bytes of an answer together.
LEMMA WireStep == IInv /\ WireInv /\ [Next]_vars => WireInv'
<1> SUFFICES ASSUME IInv, WireInv, [Next]_vars
             PROVE  WireInv'
  OBVIOUS
<1>1. ASSUME NEW t \in Threads, Send(t)
      PROVE  WireInv'
  BY <1>1 DEF Send, WireInv
<1>2. CASE Quiet
  BY <1>2 DEF Quiet, WireInv
<1>3. QED
  BY <1>1, <1>2, NextCases, WireRead, WireServe

\* After a closing parenthesis an answer opens nothing.
LEMMA NoneAfter ==
  ASSUME TypeOK, WireInv, NEW i \in 1..Len(out), NEW j \in 1..Len(out), i < j,
         out[i].tx = out[j].tx, Shuts(out[i])
  PROVE  ~Opens(out[j])
<1> DEFINE f == out[i].of
<1>1. /\ f \in Frames /\ out[j].of = f /\ out[i].pos < out[j].pos
      /\ out[i].pos \in 1..Len(f) /\ out[j].pos \in 1..Len(f)
  BY ByteTypes DEF TypeOK, WireInv
<1>2. ShutsAt(f, out[i].pos)
  BY DEF Shuts, ShutsAt, Ch
<1>3. \A m, n \in 1..Len(f) : m < n /\ ShutsAt(f, m) => ~OpensAt(f, n)
  BY <1>1, OneListAssumption, Zenon DEF OneList, ShutsAt, OpensAt
<1>4. ~OpensAt(f, out[j].pos)
  BY <1>1, <1>2, <1>3
<1>5. QED
  BY <1>1, <1>4, Zenon DEF Opens, OpensAt, Ch

\* The list that a loop accepts was closed by the byte it took, so that what is
\* left of that answer opens nothing.
LEMMA SpentRead ==
  ASSUME IInv, WireInv, SpentInv, NEW t \in Threads, Read(t)
  PROVE  SpentInv'
<1>0. /\ TypeOK /\ newest \in Nat /\ out \in Seq(WireByte) /\ Len(out) \in Nat
      /\ pc \in [Threads -> Pcs] /\ rx[t].buf \in Seq(WireByte)
      /\ rx[t].paren \in Int
  BY LenProperties DEF IInv, TypeOK, RxState
<1>1. /\ pc[t] = "read"
      /\ \A u \in Threads : pc[u] = "read" => u = t
  BY ReadCases DEF IInv, OneTransaction, InTransaction
<1>2. \A u \in Threads : pc'[u] = "read" => u = t /\ pc[t] = "read" /\ pc' = pc
  BY <1>0, <1>1, ReadFrame
<1>3. out' = out \/ Takes
  BY ReadCases DEF TakesOpen, TakesShut, TakesOther, TakesNothing, Breaks
<1>4. PICK k \in {0, 1} : \A i \in 1..Len(out') : i + k \in 1..Len(out) /\ out'[i] = out[i + k]
  BY <1>0, <1>3, TailIndex DEF Takes
<1>5. CASE newest' = newest /\ \A u \in Threads : pc'[u] # "read"
  BY <1>4, <1>5 DEF SpentInv
<1>6. CASE Stays /\ rx'[t].buf = rx[t].buf /\ rx'[t].paren <= rx[t].paren
  <2>1. rx'[t].paren \in Int
    BY ReadType DEF IInv, TypeOK, RxState
  <2>2. ASSUME NEW i \in 1..Len(out'), out'[i].tx = newest
        PROVE  ~Opens(out'[i]) /\ rx'[t].paren <= 0 /\ rx'[t].buf = <<>>
    BY <1>0, <1>1, <1>4, <1>6, <2>1, <2>2 DEF SpentInv
  <2>3. QED
    BY <1>1, <1>2, <1>6, <2>2 DEF SpentInv, Stays
<1>7. CASE TakesOpen(t)
  <2>1. /\ 1 \in 1..Len(out) /\ Opens(out[1]) /\ newest' = newest /\ pc' = pc
        /\ rx'[t].buf = rx[t].buf
    BY <1>0, <1>7, TakesFirst DEF TakesOpen, Stays
  <2>2. out[1].tx # newest
    BY <2>1 DEF SpentInv
  <2>3. \A i \in 1..Len(out) : out[i].tx # newest
    <3>1. out[1].tx > newest
      BY <1>0, <2>1, <2>2, ByteTypes DEF IInv, OrderInv
    <3>2. \A i \in 1..Len(out) : out[1].tx <= out[i].tx /\ out[i].tx \in Nat
      BY <1>0, <2>1, ByteTypes DEF IInv, OrderInv
    <3>3. QED
      BY <1>0, <2>1, <3>1, <3>2, ByteTypes
  <2>4. \A i \in 1..Len(out') : out'[i].tx # newest
    BY <1>4, <2>3
  <2>5. QED
    BY <1>1, <1>2, <2>1, <2>4 DEF SpentInv
<1>8. CASE TakesOther(t) /\ rx[t].paren = 1 /\ Stays
  <2>1. /\ 1 \in 1..Len(out) /\ newest' = newest /\ pc' = pc
        /\ rx'[t].buf = Append(rx[t].buf, out[1]) /\ out[1] \in WireByte
    BY <1>0, <1>8, TakesFirst, ElementOfSeq DEF TakesOther, Stays
  <2>2. out[1].tx # newest
    BY <1>1, <1>8, <2>1 DEF SpentInv
  <2>3. out[1].tx > newest /\ out[1].tx \in Nat
    BY <1>0, <2>1, <2>2, ByteTypes DEF IInv, OrderInv
  <2>4. \A i \in 1..Len(out') : out'[i].tx # newest
    <3>1. \A i \in 1..Len(out) : out[1].tx <= out[i].tx /\ out[i].tx \in Nat
      BY <1>0, <2>1, ByteTypes DEF IInv, OrderInv
    <3>2. \A i \in 1..Len(out) : out[i].tx # newest
      BY <1>0, <2>3, <3>1
    <3>3. QED
      BY <1>4, <3>2
  <2>5. /\ Len(rx[t].buf) \in Nat /\ Len(rx'[t].buf) = Len(rx[t].buf) + 1
        /\ \A i \in 1..Len(rx[t].buf) : rx'[t].buf[i] = rx[t].buf[i]
        /\ rx'[t].buf[Len(rx[t].buf) + 1] = out[1]
    BY <1>0, <2>1, AppendProperties, LenProperties
  <2>6. ASSUME NEW i \in 1..Len(rx'[t].buf)
        PROVE  newest < rx'[t].buf[i].tx
    <3>1. CASE i \in 1..Len(rx[t].buf)
      BY <1>1, <2>5, <3>1 DEF SpentInv
    <3>2. CASE i = Len(rx[t].buf) + 1
      BY <1>0, <2>3, <2>5, <3>2
    <3>3. QED
      BY <2>5, <3>1, <3>2
  <2>7. QED
    BY <1>1, <1>2, <2>1, <2>4, <2>6 DEF SpentInv
<1>9. CASE TakesShut(t) /\ rx[t].paren = 1 /\ newest' # newest
  <2>1. /\ 1 \in 1..Len(out) /\ Shuts(out[1]) /\ Len(out) = Len(out') + 1
        /\ \A i \in 1..Len(out') : i + 1 \in 1..Len(out) /\ out'[i] = out[i + 1]
        /\ Len(out') \in Nat
    BY <1>0, <1>9, TakesFirst DEF TakesShut
  <2>2. /\ pc' = [pc EXCEPT ![t] = "unlock"]
        /\ rx[t].buf # <<>> /\ newest' = rx[t].buf[1].tx
    BY <1>9 DEF TakesShut, Ends
  <2>3. \A u \in Threads : pc'[u] # "read"
    BY <1>0, <1>1, <2>2
  <2>4. 1 \in 1..Len(rx[t].buf)
    BY <1>0, <2>2, EmptySeq, LenProperties
  <2>5. newest' \in Nat /\ newest' <= out[1].tx /\ out[1].tx \in Nat
    BY <1>0, <1>1, <2>1, <2>2, <2>4, ByteTypes DEF IInv, ReaderInv
  <2>6. ASSUME NEW i \in 1..Len(out'), out'[i].tx = newest'
        PROVE  ~Opens(out'[i])
    <3>1. /\ i + 1 \in 1..Len(out) /\ out'[i] = out[i + 1] /\ 1 < i + 1
          /\ out[i + 1].tx \in Nat
      BY <1>0, <2>1, ByteTypes
    <3>2. out[1].tx <= out[i + 1].tx
      BY <2>1, <3>1 DEF IInv, OrderInv
    <3>3. out[1].tx = out[i + 1].tx
      BY <2>5, <2>6, <3>1, <3>2
    <3>4. QED
      BY <1>0, <2>1, <3>1, <3>3, NoneAfter
  <2>7. QED
    BY <2>3, <2>6 DEF SpentInv
<1>10. QED
  <2>1. ASSUME GivesUp(t) \/ Ends(t)
        PROVE  \A u \in Threads : pc'[u] # "read"
    BY <1>0, <1>1, <2>1 DEF GivesUp, Ends
  <2>2. ASSUME GivesUp(t)
        PROVE  SpentInv'
    BY <1>5, <2>1, <2>2 DEF GivesUp
  <2>3. ASSUME TakesShut(t)
        PROVE  SpentInv'
    BY <1>0, <1>5, <1>6, <1>9, <2>1, <2>3 DEF TakesShut
  <2>4. ASSUME TakesOther(t)
        PROVE  SpentInv'
    BY <1>0, <1>6, <1>8, <2>2, <2>4 DEF TakesOther
  <2>5. ASSUME TakesNothing(t)
        PROVE  SpentInv'
    BY <1>0, <1>6, <2>2, <2>5 DEF TakesNothing
  <2>6. QED
    BY <1>7, <2>2, <2>3, <2>4, <2>5, ReadCases DEF Breaks

\* Every step keeps accepted answers spent.
LEMMA SpentStep == IInv /\ WireInv /\ SpentInv /\ [Next]_vars => SpentInv'
<1> SUFFICES ASSUME IInv, WireInv, SpentInv, [Next]_vars
             PROVE  SpentInv'
  OBVIOUS
<1>0. /\ pc \in [Threads -> Pcs] /\ rx \in [Threads -> RxState]
      /\ out \in Seq(WireByte) /\ newest \in Nat /\ given \in Nat
  BY DEF IInv, TypeOK
<1>1. CASE Quiet
  BY <1>1 DEF Quiet, SpentInv
<1>2. ASSUME NEW t \in Threads, Send(t)
      PROVE  SpentInv'
  <2>1. /\ pc[t] = "send" /\ pc' = [pc EXCEPT ![t] = "read"]
        /\ rx' = [rx EXCEPT ![t] = FreshRx] /\ UNCHANGED <<out, newest>>
    BY <1>2 DEF Send, Go
  <2>2. rx'[t].paren = 0 /\ rx'[t].buf = <<>>
    BY <1>0, <2>1 DEF FreshRx
  <2>3. \A u \in Threads : pc'[u] = "read" => u = t
    BY <1>0, <2>1 DEF IInv, OneTransaction, InTransaction
  <2>4. QED
    BY <2>1, <2>2, <2>3 DEF SpentInv
<1>3. CASE Serve
  <2>1. UNCHANGED <<pc, rx, newest>>
    BY <1>3, ServeAnswer
  <2>2. newest <= given /\ given < given' /\ given' \in Nat /\ Len(out) \in Nat
    BY <1>3, ServeBytes DEF IInv, OrderInv
  <2>3. ASSUME NEW i \in 1..Len(out'), out'[i].tx = newest
        PROVE  i \in 1..Len(out) /\ out'[i] = out[i]
    <3>1. out'[i].tx # given'
      BY <1>0, <2>2, <2>3
    <3>2. QED
      BY <1>3, <3>1, ServeBytes
  <2>4. QED
    BY <2>1, <2>3 DEF SpentInv
<1>4. QED
  BY <1>1, <1>2, <1>3, NextCases, SpentRead

\* A value is newer than the newest one before it.
LEMMA FreshStep ==
  ASSUME IInv, SpentInv, [Next]_vars, NEW t \in Threads,
         resp'[t] # resp[t], resp'[t] # <<>>
  PROVE  newest < resp'[t][1].tx
<1>0. resp \in [Threads -> Seq(WireByte)]
  BY DEF IInv, TypeOK
<1>1. ~Quiet /\ ~Serve
  BY ServeAnswer DEF Quiet
<1>2. ASSUME NEW u \in Threads, Send(u)
      PROVE  FALSE
  BY <1>2 DEF Send
<1>3. ASSUME NEW u \in Threads, Read(u)
      PROVE  newest < resp'[t][1].tx
  <2>1. pc[u] = "read" /\ rx[u].buf \in Seq(WireByte)
    BY <1>3, ReadFrame DEF IInv, TypeOK, RxState
  <2>2. Number(rx[u].buf) /\ resp' = [resp EXCEPT ![u] = rx[u].buf]
    BY <1>3, ReadFrame
  <2>3. t = u /\ resp'[t] = rx[u].buf
    BY <1>0, <2>2
  <2>4. 1 \in 1..Len(rx[u].buf)
    BY <2>1, <2>2, EmptySeq, LenProperties DEF Number
  <2>5. QED
    BY <2>1, <2>3, <2>4 DEF SpentInv
<1>4. QED
  BY <1>1, <1>2, <1>3, NextCases

\* The answers owed are finitely many.
LEMMA OwedFinite ==
  ASSUME NEW wire, NEW last \in Nat
  PROVE  IsFiniteSet(OwedOf(wire, last)) /\ Cardinality(OwedOf(wire, last)) \in Nat
<1>1. IsFiniteSet(1..last)
  BY FS_Interval
<1>2. OwedOf(wire, last) \in SUBSET (1..last)
  BY DEF OwedOf
<1>3. IsFiniteSet(OwedOf(wire, last))
  BY <1>1, <1>2, FS_Subset
<1>4. QED
  BY <1>3, FS_CardinalityType

\* What is still to come is a number.
LEMMA TotalType ==
  ASSUME TypeOK, TypeOK'
  PROVE  Total \in Nat /\ Total' \in Nat /\ Len(inbox) \in Nat /\ Len(inbox') \in Nat
<1>1. /\ inbox \in Seq(Requests) /\ inbox' \in Seq(Requests)
      /\ given \in Nat /\ given' \in Nat
  BY DEF TypeOK
<1>2. Len(inbox) \in Nat /\ Len(inbox') \in Nat
  BY <1>1, LenProperties
<1>3. Cardinality(Owed) \in Nat /\ Cardinality(Owed)' \in Nat
  BY <1>1, OwedFinite DEF Owed
<1>4. QED
  BY <1>2, <1>3 DEF Total

\* Reading bytes owes no more.
LEMMA TotalRead ==
  ASSUME IInv, NEW t \in Threads, Read(t)
  PROVE  Total' <= Total
<1>1. UNCHANGED <<inbox, given>> /\ (out' = out \/ Takes)
  BY ReadCases DEF TakesOpen, TakesShut, TakesOther, TakesNothing, Breaks
<1>2. given \in Nat /\ TypeOK /\ inbox \in Seq(Requests)
  BY DEF IInv, TypeOK
<1>3. Owed' \subseteq Owed
  <2>1. CASE out' = out
    BY <1>1, <2>1 DEF Owed, OwedOf
  <2>2. CASE Takes
    <3>1. \A i \in 1..Len(out') : i + 1 \in 1..Len(out) /\ out'[i] = out[i + 1]
      BY <1>2, <2>2, TakesFirst
    <3>2. QED
      BY <1>1, <3>1 DEF Owed, OwedOf
  <2>3. QED
    BY <1>1, <2>1, <2>2
<1>4. IsFiniteSet(Owed) /\ Cardinality(Owed) \in Nat /\ Len(inbox) \in Nat
  BY <1>2, OwedFinite, LenProperties DEF Owed
<1>5. Cardinality(Owed') <= Cardinality(Owed) /\ Cardinality(Owed') \in Nat
  <2>1. Owed' \in SUBSET Owed
    BY <1>3
  <2>2. QED
    BY <1>4, <2>1, FS_Subset, FS_CardinalityType
<1>6. QED
  BY <1>1, <1>4, <1>5 DEF Total

\* An answer with an open parenthesis still to come stays begun.
LEMMA StillBegun ==
  ASSUME IInv, WireInv, Takes, NEW j \in 1..Len(out), j # 1,
         out[j].tx = out[1].tx, Opens(out[j])
  PROVE  Begun'
<1>1. /\ Len(out) \in Nat /\ Len(out') \in Nat /\ Len(out) = Len(out') + 1
      /\ 1 \in 1..Len(out) /\ out \in Seq(WireByte) /\ out' \in Seq(WireByte)
      /\ \A i \in 1..Len(out') : i + 1 \in 1..Len(out) /\ out'[i] = out[i + 1]
  BY TakesFirst DEF IInv
<1>2. 2 \in 1..Len(out) /\ j - 1 \in 1..Len(out') /\ 2 <= j /\ 1 \in 1..Len(out')
  BY <1>1
<1>3. /\ out[1].tx \in Nat /\ out[2].tx \in Nat /\ out[1].pos \in Nat /\ out[2].pos \in Nat
      /\ out[1].pos >= 1
  BY <1>1, <1>2, ByteTypes
<1>4. out[1].tx <= out[2].tx /\ out[2].tx <= out[j].tx
  BY <1>1, <1>2 DEF IInv, OrderInv
<1>5. out[2].tx = out[1].tx
  BY <1>3, <1>4
<1>6. out[2].pos > 1
  BY <1>1, <1>2, <1>3, <1>5 DEF WireInv
<1>7. out'[1] = out[2] /\ out'[j - 1] = out[j]
  <2>1. j - 1 + 1 = j /\ 1 + 1 = 2
    BY <1>1
  <2>2. QED
    BY <1>1, <1>2, <2>1
<1>8. out' # <<>>
  BY <1>1, <1>2, EmptySeq
<1>9. Opens(out'[j - 1]) /\ out'[j - 1].tx = out'[1].tx /\ out'[1].pos > 1
  BY <1>5, <1>6, <1>7 DEF Opens
<1>10. QED
  BY <1>2, <1>8, <1>9 DEF Begun, Opens

\* The last parenthesis an answer opens uses it up.
LEMMA TotalOpen ==
  ASSUME IInv, WireInv, NEW t \in Threads, TakesOpen(t), UNCHANGED <<inbox, given>>
  PROVE  Total' <= Total - 1 \/ Begun'
<1>1. /\ Takes /\ Opens(out[1]) /\ 1 \in 1..Len(out) /\ out \in Seq(WireByte)
      /\ Len(out) \in Nat /\ Len(out') \in Nat
      /\ \A i \in 1..Len(out') : i + 1 \in 1..Len(out) /\ out'[i] = out[i + 1]
  BY TakesFirst DEF TakesOpen, IInv
<1> SUFFICES ASSUME ~Begun'
             PROVE  Total' <= Total - 1
  OBVIOUS
<1>2. \A j \in 1..Len(out) : j # 1 /\ out[j].tx = out[1].tx => ~Opens(out[j])
  BY <1>1, StillBegun
<1>3. given \in Nat /\ inbox \in Seq(Requests)
  BY DEF IInv, TypeOK
<1>4. out[1].tx \in 1..given
  BY <1>1, <1>3, ByteTypes DEF IInv, OrderInv
<1>5. out[1].tx \in Owed
  BY <1>1, <1>4 DEF Owed, OwedOf
<1>6. ASSUME NEW i \in 1..Len(out'), out'[i].pos = 1 \/ Opens(out'[i])
      PROVE  out'[i].tx # out[1].tx
  <2>1. /\ i + 1 \in 1..Len(out) /\ out'[i] = out[i + 1] /\ 1 < i + 1 /\ i + 1 # 1
    BY <1>1
  <2>2. CASE out'[i].pos = 1
    <3>1. out[1].pos \in Nat /\ out[1].pos >= 1 /\ out[i + 1].pos = 1
      BY <1>1, <2>1, <2>2, ByteTypes
    <3>2. QED
      BY <1>1, <2>1, <3>1 DEF WireInv
  <2>3. CASE Opens(out'[i])
    BY <1>2, <2>1, <2>3
  <2>4. QED
    BY <1>6, <2>2, <2>3
<1>7. Owed' \in SUBSET (Owed \ {out[1].tx})
  <2>1. ASSUME NEW n \in Owed'
        PROVE  n \in Owed /\ n # out[1].tx
    <3>1. PICK i \in 1..Len(out') : out'[i].tx = n /\ (out'[i].pos = 1 \/ Opens(out'[i]))
      BY DEF Owed, OwedOf, Opens
    <3>2. n \in 1..given
      BY DEF Owed, OwedOf
    <3>3. i + 1 \in 1..Len(out) /\ out'[i] = out[i + 1]
      BY <1>1
    <3>4. QED
      BY <1>6, <3>1, <3>2, <3>3 DEF Owed, OwedOf
  <2>2. QED
    BY <2>1
<1>8. IsFiniteSet(Owed) /\ Cardinality(Owed) \in Nat /\ Len(inbox) \in Nat
  BY <1>3, OwedFinite, LenProperties DEF Owed
<1>9. /\ IsFiniteSet(Owed \ {out[1].tx})
      /\ Cardinality(Owed \ {out[1].tx}) = Cardinality(Owed) - 1
  BY <1>5, <1>8, FS_RemoveElement
<1>10. Cardinality(Owed') <= Cardinality(Owed) - 1 /\ Cardinality(Owed') \in Nat
  <2>1. /\ IsFiniteSet(Owed')
        /\ Cardinality(Owed') <= Cardinality(Owed \ {out[1].tx})
    BY <1>7, <1>9, FS_Subset
  <2>2. Cardinality(Owed') \in Nat
    BY <2>1, FS_CardinalityType
  <2>3. QED
    BY <1>9, <2>1, <2>2
<1>11. QED
  BY <1>8, <1>10 DEF Total

\* A request that is served is owed as an answer instead.
LEMMA TotalServe ==
  ASSUME IInv, Serve
  PROVE  Total' <= Total
<1>1. /\ Len(out) \in Nat /\ given' \in Nat /\ given < given'
      /\ \A i \in 1..Len(out') :
           IF i <= Len(out) THEN i \in 1..Len(out) /\ out'[i] = out[i]
                            ELSE out'[i].tx = given'
  BY ServeBytes
<1>2. given \in Nat /\ inbox \in Seq(Requests) /\ out \in Seq(WireByte) /\ inbox # <<>>
  BY DEF IInv, TypeOK, Serve
<1>3. Len(inbox) \in Nat /\ Len(inbox') \in Nat /\ Len(inbox') = Len(inbox) - 1
  <2>1. inbox' = Tail(inbox)
    BY DEF Serve
  <2>2. QED
    BY <1>2, <2>1, HeadTailProperties, LenProperties
<1>4. Owed' \in SUBSET (Owed \cup {given'})
  <2>1. ASSUME NEW n \in Owed', n # given'
        PROVE  n \in Owed
    <3>1. PICK i \in 1..Len(out') : out'[i].tx = n /\ (out'[i].pos = 1 \/ Opens(out'[i]))
      BY DEF Owed, OwedOf, Opens
    <3>2. i \in 1..Len(out) /\ out'[i] = out[i]
      BY <1>1, <2>1, <3>1
    <3>3. out[i].tx \in Nat /\ 0 < out[i].tx /\ out[i].tx <= given
      BY <1>2, <3>2, ByteTypes DEF IInv, OrderInv
    <3>4. n \in 1..given
      BY <1>2, <3>1, <3>2, <3>3
    <3>5. QED
      BY <3>1, <3>2, <3>4 DEF Owed, OwedOf
  <2>2. QED
    BY <2>1
<1>5. IsFiniteSet(Owed) /\ Cardinality(Owed) \in Nat
  BY <1>2, OwedFinite DEF Owed
<1>6. /\ IsFiniteSet(Owed \cup {given'})
      /\ Cardinality(Owed \cup {given'}) <= Cardinality(Owed) + 1
      /\ Cardinality(Owed \cup {given'}) \in Nat
  <2>1. /\ IsFiniteSet(Owed \cup {given'})
        /\ Cardinality(Owed \cup {given'}) =
             IF given' \in Owed THEN Cardinality(Owed) ELSE Cardinality(Owed) + 1
    BY <1>5, FS_AddElement
  <2>2. QED
    BY <1>5, <2>1
<1>7. Cardinality(Owed') <= Cardinality(Owed) + 1 /\ Cardinality(Owed') \in Nat
  <2>1. /\ IsFiniteSet(Owed')
        /\ Cardinality(Owed') <= Cardinality(Owed \cup {given'})
    BY <1>4, <1>6, FS_Subset
  <2>2. Cardinality(Owed') \in Nat
    BY <2>1, FS_CardinalityType
  <2>3. QED
    BY <1>5, <1>6, <2>1, <2>2
<1>8. QED
  BY <1>3, <1>5, <1>7 DEF Total

\* A request adds at most one to what is still to come.
LEMMA TotalSend ==
  ASSUME IInv, NEW t \in Threads, Send(t)
  PROVE  Total' <= Total + 1
<1>1. UNCHANGED <<out, given>> /\ inbox \in Seq(Requests) /\ given \in Nat
  BY DEF IInv, TypeOK, Send
<1>2. PICK c : inbox' = Append(inbox, Request(txn + 1, c)) \/ inbox' = inbox
  BY DEF Send
<1>3. Len(inbox) \in Nat /\ (Len(inbox') = Len(inbox) + 1 \/ Len(inbox') = Len(inbox))
  BY <1>1, <1>2, LenProperties, AppendProperties
<1>4. Cardinality(Owed) \in Nat /\ Owed' = Owed
  BY <1>1, OwedFinite DEF Owed
<1>5. QED
  BY <1>3, <1>4 DEF Total

\* A loop that ends has used an answer up, or its transaction is abandoned.
LEMMA BacklogRead ==
  ASSUME IInv, WireInv, BacklogInv, NEW t \in Threads, Read(t)
  PROVE  BacklogInv'
<1>0. /\ TypeOK /\ TypeOK' /\ broken \in Nat /\ pc \in [Threads -> Pcs]
      /\ rx[t].paren \in Int /\ rx'[t].paren \in Int
      /\ Total \in Nat /\ Total' \in Nat /\ Total' <= Total
  <2>1. TypeOK'
    BY StepType DEF IInv, Step
  <2>2. QED
    BY <2>1, TotalType, TotalRead DEF IInv, TypeOK, RxState
<1>1. /\ pc[t] = "read" /\ UNCHANGED <<inbox, given>> /\ Reading
      /\ \A u \in Threads : pc[u] = "read" => u = t
  BY ReadCases DEF IInv, OneTransaction, InTransaction, Reading
<1>2. Total <= broken + 1
  BY <1>1 DEF BacklogInv
<1>3. ASSUME Stays
      PROVE  Reading' /\ broken' = broken /\ pc' = pc
  BY <1>1, <1>3 DEF Stays, Reading
<1>4. ASSUME GivesUp(t)
      PROVE  BacklogInv'
  <2>1. broken' = broken + 1 /\ \A u \in Threads : pc'[u] # "read"
    BY <1>0, <1>1, <1>4 DEF GivesUp
  <2>2. ~Reading'
    BY <2>1 DEF Reading
  <2>3. QED
    BY <1>0, <1>2, <2>1, <2>2 DEF BacklogInv
<1>5. CASE TakesOpen(t)
  <2>1. Reading' /\ broken' = broken /\ pc' = pc
    BY <1>3, <1>5 DEF TakesOpen
  <2>2. Total' <= broken \/ Begun'
    <3>1. Total' <= Total - 1 \/ Begun'
      BY <1>1, <1>5, TotalOpen
    <3>2. QED
      BY <1>0, <1>2, <3>1
  <2>3. QED
    BY <1>0, <1>2, <2>1, <2>2 DEF BacklogInv
<1>6. CASE TakesShut(t)
  <2>1. ~Begun
    <3>1. /\ 1 \in 1..Len(out) /\ Shuts(out[1]) /\ Len(out) \in Nat
      BY <1>0, <1>6, TakesFirst DEF TakesShut
    <3>2. ~Opens(out[1])
      BY <3>1, Zenon DEF Opens, Shuts
    <3>3. \A j \in 1..Len(out) : j # 1 => 1 < j
      BY <3>1
    <3>4. QED
      BY <1>0, <3>1, <3>2, <3>3, NoneAfter DEF Begun
  <2>2. rx[t].paren >= 1 => Total <= broken
    BY <1>1, <2>1 DEF BacklogInv
  <2>3. CASE rx[t].paren = 1
    <3>1. broken' = broken /\ \A u \in Threads : pc'[u] # "read"
      BY <1>0, <1>1, <1>6, <2>3 DEF TakesShut, Ends
    <3>2. ~Reading'
      BY <3>1 DEF Reading
    <3>3. QED
      BY <1>0, <2>2, <2>3, <3>1, <3>2 DEF BacklogInv
  <2>4. CASE rx[t].paren # 1
    <3>1. Reading' /\ broken' = broken /\ pc' = pc /\ rx'[t].paren = rx[t].paren - 1
      BY <1>3, <1>6, <2>4 DEF TakesShut
    <3>2. rx'[t].paren >= 1 => Total' <= broken'
      BY <1>0, <2>2, <3>1
    <3>3. QED
      BY <1>0, <1>1, <1>2, <3>1, <3>2 DEF BacklogInv
  <2>5. QED
    BY <2>3, <2>4
<1>7. CASE TakesOther(t) /\ Stays
  <2>1. Reading' /\ broken' = broken /\ pc' = pc /\ rx'[t].paren = rx[t].paren
    BY <1>3, <1>7 DEF TakesOther
  <2>2. Begun => Begun'
    <3>1. Takes /\ ~Opens(out[1])
      BY <1>0, <1>7, TakesFirst DEF TakesOther
    <3>2. QED
      BY <3>1, StillBegun DEF Begun
  <2>3. rx[t].paren >= 1 => Total <= broken \/ Begun
    BY <1>1 DEF BacklogInv
  <2>4. rx'[t].paren >= 1 => Total' <= broken' \/ Begun'
    BY <1>0, <2>1, <2>2, <2>3
  <2>5. QED
    BY <1>0, <1>1, <1>2, <2>1, <2>4 DEF BacklogInv
<1>8. CASE TakesNothing(t) /\ Stays
  <2>1. Reading' /\ broken' = broken /\ pc' = pc /\ rx'[t].paren = rx[t].paren
    BY <1>3, <1>8 DEF TakesNothing
  <2>2. Begun' <=> Begun
    BY <1>8 DEF TakesNothing, Begun
  <2>3. rx'[t].paren >= 1 => Total' <= broken' \/ Begun'
    BY <1>0, <1>1, <2>1, <2>2 DEF BacklogInv
  <2>4. QED
    BY <1>0, <1>1, <1>2, <2>1, <2>3 DEF BacklogInv
<1>9. QED
  BY <1>4, <1>5, <1>6, <1>7, <1>8, ReadCases DEF TakesOther, TakesNothing, Breaks

\* Every step keeps the backlog within the abandoned transactions.
LEMMA BacklogStep == IInv /\ WireInv /\ BacklogInv /\ [Next]_vars => BacklogInv'
<1> SUFFICES ASSUME IInv, WireInv, BacklogInv, [Next]_vars
             PROVE  BacklogInv'
  OBVIOUS
<1>0. /\ broken \in Nat /\ pc \in [Threads -> Pcs] /\ rx \in [Threads -> RxState]
      /\ Total \in Nat /\ Total' \in Nat /\ out \in Seq(WireByte)
  <2>1. TypeOK'
    BY NextType DEF IInv
  <2>2. QED
    BY <2>1, TotalType DEF IInv, TypeOK
<1>1. CASE Quiet
  <2>1. Total' = Total /\ (Begun' <=> Begun) /\ (Reading' <=> Reading)
    BY <1>1 DEF Quiet, Total, Owed, Begun, Reading
  <2>2. QED
    BY <1>1, <2>1 DEF Quiet, BacklogInv
<1>2. ASSUME NEW t \in Threads, Send(t)
      PROVE  BacklogInv'
  <2>1. /\ pc[t] = "send" /\ pc' = [pc EXCEPT ![t] = "read"]
        /\ rx' = [rx EXCEPT ![t] = FreshRx] /\ UNCHANGED broken
    BY <1>2 DEF Send, Go
  <2>2. rx'[t].paren = 0
    BY <1>0, <2>1 DEF FreshRx
  <2>3. \A u \in Threads : /\ pc[u] # "read"
                           /\ pc'[u] = "read" => u = t
    BY <1>0, <2>1 DEF IInv, OneTransaction, InTransaction
  <2>4. ~Reading /\ Reading'
    BY <1>0, <2>1, <2>3 DEF Reading
  <2>5. Total' <= broken' + 1
    BY <1>0, <1>2, <2>1, <2>4, TotalSend DEF BacklogInv
  <2>6. QED
    BY <2>2, <2>3, <2>4, <2>5 DEF BacklogInv
<1>3. CASE Serve
  <2>1. UNCHANGED <<pc, rx, broken>>
    BY <1>3, ServeAnswer
  <2>2. Total' <= Total /\ (Reading' <=> Reading)
    BY <1>3, <2>1, TotalServe DEF Reading
  <2>3. Begun => Begun'
    <3>1. /\ Len(out) \in Nat /\ Len(out') \in Nat /\ Len(out) <= Len(out')
          /\ \A i \in 1..Len(out) : out'[i] = out[i]
      <4>1. PICK f \in Frames :
              /\ Len(f) \in Nat /\ Len(out') = Len(out) + Len(f)
              /\ \A i \in 1..Len(out) : out'[i] = out[i]
        BY <1>3, ServeAnswer
      <4>2. Len(out) \in Nat
        BY <1>0, LenProperties
      <4>3. QED
        BY <4>1, <4>2
    <3>2. ASSUME Begun
          PROVE  Begun'
      <4>1. PICK i \in 1..Len(out) : out[i].tx = out[1].tx /\ Opens(out[i])
        BY <3>2 DEF Begun
      <4>2. 1 \in 1..Len(out) /\ i \in 1..Len(out') /\ out[1].pos > 1
        BY <3>1, <3>2 DEF Begun
      <4>3. /\ out'[1].pos > 1 /\ out'[i].tx = out'[1].tx /\ Opens(out'[i])
        BY <3>1, <4>1, <4>2 DEF Opens
      <4>4. out' # <<>>
        BY <3>1, <4>2, EmptySeq
      <4>5. QED
        BY <4>2, <4>3, <4>4 DEF Begun, Opens
    <3>3. QED
      BY <3>2
  <2>4. QED
    BY <1>0, <2>1, <2>2, <2>3 DEF BacklogInv
<1>4. QED
  BY <1>1, <1>2, <1>3, NextCases, BacklogRead

\* An answer of which nothing is read is owed.
LEMMA HeadsOwed ==
  ASSUME IInv, WireInv
  PROVE  Cardinality({i \in DOMAIN out : out[i].pos = 1}) <= Cardinality(Owed)
<1> DEFINE heads == {i \in DOMAIN out : out[i].pos = 1}
           txs == [i \in heads |-> out[i].tx]
<1>1. /\ out \in Seq(WireByte) /\ given \in Nat /\ DOMAIN out = 1..Len(out)
      /\ Len(out) \in Nat
  BY LenProperties DEF IInv, TypeOK
<1>2. \A i \in heads : i \in 1..Len(out) /\ out[i].pos = 1 /\ out[i].tx \in Owed
  BY <1>1, ByteTypes DEF IInv, OrderInv, Owed, OwedOf
<1>3. \A i, j \in heads : txs[i] = txs[j] => i = j
  <2>1. \A i, j \in 1..Len(out) : i = j \/ i < j \/ j < i
    BY <1>1
  <2>2. \A i, j \in heads : i < j => out[i].tx # out[j].tx
    BY <1>2 DEF WireInv
  <2>3. QED
    BY <1>2, <2>1, <2>2
<1>4. txs \in [heads -> Owed]
  BY <1>2
<1>5. txs \in Injection(heads, Owed)
  BY <1>3, <1>4 DEF Injection, IsInjective
<1>6. IsFiniteSet(Owed)
  BY <1>1, OwedFinite DEF Owed
<1> HIDE DEF heads, txs
<1>7. Cardinality(heads) <= Cardinality(Owed)
  BY <1>5, <1>6, FS_Injection
<1>8. QED
  BY <1>7 DEF heads

\* The depth after the first p characters of an answer.
LEMMA DepthFacts ==
  ASSUME NEW f \in Frames, NEW p \in 1..Len(f)
  PROVE  /\ Depth(f, p) \in Nat /\ Depth(f, p - 1) \in Int
         /\ OpensAt(f, p) => Depth(f, p) = Depth(f, p - 1) + 1
         /\ ShutsAt(f, p) => Depth(f, p) = Depth(f, p - 1) - 1
         /\ ~OpensAt(f, p) /\ ~ShutsAt(f, p) => Depth(f, p) = Depth(f, p - 1)
         /\ Depth(f, p) = 0 <=> p = Len(f)
<1>1. f \in Seq([ch : Chars, depth : Nat]) /\ Len(f) \in Nat
  BY FrameType
<1>2. \A i \in 1..Len(f) : f[i].depth \in Nat
  <2>1. \A i \in 1..Len(f) : f[i] \in [ch : Chars, depth : Nat]
    BY <1>1, ElementOfSeq
  <2>2. QED
    BY <2>1, Zenon
<1> DEFINE before == IF p = 1 THEN 0 ELSE f[p - 1].depth
<1>3. before = Depth(f, p - 1)
  <2>1. p = 1 <=> p - 1 = 0
    BY <1>1
  <2>2. QED
    BY <2>1 DEF Depth
<1>4. Depth(f, p) = f[p].depth
  <2>1. p # 0
    BY <1>1
  <2>2. QED
    BY <2>1 DEF Depth
<1>5. /\ f[p].depth = IF f[p].ch = "(" THEN before + 1
                      ELSE IF f[p].ch = ")" THEN before - 1 ELSE before
      /\ (f[p].depth = 0) <=> (p = Len(f))
  BY FramesAssumption, Zenon DEF WellFormed
<1> HIDE DEF before
<1>6. OpensAt(f, p) => f[p].depth = before + 1
  BY <1>5, Zenon DEF OpensAt
<1>7. ShutsAt(f, p) => f[p].depth = before - 1
  <2>1. ")" # "("
    BY Zenon
  <2>2. QED
    BY <1>5, <2>1, Zenon DEF ShutsAt
<1>8. ~OpensAt(f, p) /\ ~ShutsAt(f, p) => f[p].depth = before
  BY <1>5, Zenon DEF OpensAt, ShutsAt
<1>9. (f[p].depth = 0) <=> (p = Len(f))
  BY <1>5, Zenon
<1>10. before \in Int
  <2>1. p # 1 => p - 1 \in 1..Len(f)
    BY <1>1
  <2>2. QED
    BY <1>2, <2>1 DEF before
<1>11. QED
  BY <1>2, <1>3, <1>4, <1>6, <1>7, <1>8, <1>9, <1>10

\* A byte of the own answer moves the loop by one character of it.
LEMMA OwnByte ==
  ASSUME IInv, NEW t \in Threads, OwnAnswer(t), Takes, UNCHANGED <<txn, inbox>>
  PROVE  /\ inbox' = <<>> /\ out[1].tx = txn
         /\ \E f \in Frames : \E p \in 1..Len(f) :
              /\ (Rest(f, p))' /\ Len(out') = Len(f) - p /\ Len(f) \in Nat
              /\ rx[t].paren = Depth(f, p - 1)
              /\ Opens(out[1]) <=> OpensAt(f, p)
              /\ Shuts(out[1]) <=> ShutsAt(f, p)
<1>1. /\ Len(out) \in Nat /\ Len(out') \in Nat /\ Len(out) = Len(out') + 1
      /\ 1 \in 1..Len(out) /\ out # <<>>
      /\ \A i \in 1..Len(out') : i + 1 \in 1..Len(out) /\ out'[i] = out[i + 1]
  BY TakesFirst DEF IInv, Takes
<1>2. inbox = <<>>
  BY <1>1 DEF OwnAnswer
<1>13. PICK f \in Frames : \E q \in 0..Len(f) : Rest(f, q) /\ rx[t].paren = Depth(f, q)
  BY <1>1 DEF OwnAnswer
<1>3. PICK q \in 0..Len(f) : Rest(f, q) /\ rx[t].paren = Depth(f, q)
  BY <1>13
<1>4. Len(f) \in Nat
  BY FrameType
<1>5. q + 1 \in 1..Len(f) /\ q + 1 - 1 = q /\ Len(out') = Len(f) - (q + 1)
  <2>1. Len(out) = Len(f) - q
    BY <1>3 DEF Rest
  <2>2. q \in Nat /\ q <= Len(f)
    BY <1>4
  <2>3. Len(out) >= 1
    BY <1>1
  <2>4. q + 1 <= Len(f)
    BY <1>1, <1>4, <2>1, <2>2, <2>3
  <2>5. q + 1 \in 1..Len(f) /\ q + 1 - 1 = q
    BY <1>4, <2>2, <2>4
  <2>6. Len(out') = Len(f) - (q + 1)
    <3>1. /\ Len(out) \in Int /\ Len(out') \in Int /\ Len(f) \in Int /\ q \in Int
          /\ Len(out) = Len(out') + 1
      BY <1>1, <1>4, <2>2
    <3>2. \A a, b, c, d \in Int : a = b + 1 /\ a = c - d => b = c - (d + 1)
      OBVIOUS
    <3>3. QED
      BY <2>1, <3>1, <3>2
  <2>7. QED
    BY <2>5, <2>6
<1>6. out[1] = Byte(txn, f, q + 1)
  BY <1>1, <1>3 DEF Rest
<1>7. ASSUME NEW i \in 1..Len(out')
      PROVE  out'[i] = Byte(txn', f, q + 1 + i)
  <2>1. i + 1 \in 1..Len(out) /\ out'[i] = out[i + 1]
    BY <1>1
  <2>2. out[i + 1] = Byte(txn, f, q + (i + 1))
    BY <1>3, <2>1 DEF Rest
  <2>3. q + (i + 1) = q + 1 + i
    BY <1>1, <1>4
  <2>4. QED
    BY <2>1, <2>2, <2>3
<1>8. (Rest(f, q + 1))'
  BY <1>5, <1>7 DEF Rest
<1>14. Ch(out[1]) = f[q + 1].ch
  BY <1>6 DEF Ch, Byte
<1>9. Opens(out[1]) <=> OpensAt(f, q + 1)
  BY <1>14, Zenon DEF Opens, OpensAt
<1>10. Shuts(out[1]) <=> ShutsAt(f, q + 1)
  BY <1>14, Zenon DEF Shuts, ShutsAt
<1>11. out[1].tx = txn
  BY <1>6 DEF Byte
<1>12. rx[t].paren = Depth(f, q + 1 - 1)
  BY <1>3, <1>5
<1>15. \E p \in 1..Len(f) :
         /\ (Rest(f, p))' /\ Len(out') = Len(f) - p /\ Len(f) \in Nat
         /\ rx[t].paren = Depth(f, p - 1)
         /\ Opens(out[1]) <=> OpensAt(f, p)
         /\ Shuts(out[1]) <=> ShutsAt(f, p)
  BY <1>4, <1>5, <1>8, <1>9, <1>10, <1>12
<1>16. QED
  BY <1>2, <1>11, <1>15

\* A loop in step takes a byte of its own answer, and stops at its last one.
LEMMA StepRead ==
  ASSUME IInv, StepInv, NEW t \in Threads, Read(t)
  PROVE  StepInv'
<1>0. /\ TypeOK /\ TypeOK' /\ broken \in Nat /\ broken' \in Nat /\ pc \in [Threads -> Pcs]
      /\ rx[t].paren \in Int /\ rx'[t].paren \in Int /\ rx[t].buf \in Seq(WireByte)
      /\ resp \in [Threads -> Seq(WireByte)]
  <2>1. TypeOK'
    BY StepType DEF IInv, Step
  <2>2. QED
    BY <2>1 DEF IInv, TypeOK, RxState
<1>1. /\ pc[t] = "read" /\ UNCHANGED <<inbox, given, txn, own>>
      /\ \A u \in Threads : pc[u] = "read" => u = t
      /\ \A u \in Threads : pc'[u] = "read" => pc[u] = "read"
  <2>1. pc[t] = "read" /\ \A u \in Threads : pc[u] = "read" => u = t
    BY ReadCases DEF IInv, OneTransaction, InTransaction
  <2>2. pc' = pc \/ pc' = [pc EXCEPT ![t] = "unlock"]
    BY ReadFrame
  <2>3. \A u \in Threads : pc'[u] = "read" => pc[u] = "read"
    BY <1>0, <2>2
  <2>4. QED
    BY <2>1, <2>3, ReadCases
<1>2. \A u \in Threads : pc'[u] = "read" => own'[u] = txn'
  BY <1>1 DEF StepInv
<1>3. CASE broken' # 0
  BY <1>2, <1>3 DEF StepInv, InStep
<1>4. CASE broken' = 0
  <2>1. broken = 0 /\ ~GivesUp(t)
    <3>1. broken' = broken \/ broken' = broken + 1
      BY <1>0, ReadFrame
    <3>2. QED
      BY <1>0, <1>4, <3>1 DEF GivesUp
  <2>2. OwnAnswer(t) /\ own[t] = txn /\ InStep
    BY <1>1, <2>1 DEF StepInv
  <2>3. ASSUME Stays, (OwnAnswer(t))'
        PROVE  StepInv'
    <3>1. Reading' /\ InStep'
      BY <1>1, <2>1, <2>2, <2>3 DEF Stays, Reading, InStep
    <3>2. \A u \in Threads : pc'[u] = "read" => (OwnAnswer(u))'
      BY <1>1, <2>3
    <3>3. QED
      BY <1>2, <3>1, <3>2 DEF StepInv
  <2>4. CASE TakesNothing(t)
    <3>1. /\ Stays /\ out' = out /\ rx'[t].paren = rx[t].paren
          /\ rx'[t].buf = rx[t].buf
      BY <2>1, <2>4 DEF TakesNothing
    <3>2. (OwnAnswer(t))'
      BY <1>1, <2>2, <3>1 DEF OwnAnswer, Rest
    <3>3. QED
      BY <2>3, <3>1, <3>2
  <2>5. CASE Takes
    <3>1. inbox' = <<>> /\ out[1].tx = txn /\ Head(out) = out[1]
      BY <1>0, <1>1, <2>2, <2>5, OwnByte, TakesFirst
    <3> DEFINE At(f, p) ==
            /\ (Rest(f, p))' /\ Len(out') = Len(f) - p /\ Len(f) \in Nat
            /\ rx[t].paren = Depth(f, p - 1)
            /\ Opens(out[1]) <=> OpensAt(f, p)
            /\ Shuts(out[1]) <=> ShutsAt(f, p)
    <3>9. PICK f \in Frames : \E p \in 1..Len(f) : At(f, p)
      BY <1>1, <2>2, <2>5, OwnByte
    <3>2. PICK p \in 1..Len(f) : At(f, p)
      BY <3>9
    <3>3. ASSUME Stays, rx'[t].paren = Depth(f, p),
                 rx'[t].buf = rx[t].buf \/ rx'[t].buf = Append(rx[t].buf, out[1])
          PROVE  StepInv'
      <4>1. \A i \in 1..Len(rx'[t].buf) : rx'[t].buf[i].tx = txn'
        <5>1. CASE rx'[t].buf = rx[t].buf
          BY <1>1, <2>2, <5>1 DEF OwnAnswer
        <5>2. CASE rx'[t].buf = Append(rx[t].buf, out[1])
          <6>1. out[1] \in WireByte
            BY <1>0, <2>5, TakesFirst, ElementOfSeq
          <6>2. /\ Len(rx[t].buf) \in Nat /\ Len(rx'[t].buf) = Len(rx[t].buf) + 1
                /\ \A i \in 1..Len(rx[t].buf) : rx'[t].buf[i] = rx[t].buf[i]
                /\ rx'[t].buf[Len(rx[t].buf) + 1] = out[1]
            BY <1>0, <5>2, <6>1, AppendProperties, LenProperties
          <6>3. ASSUME NEW i \in 1..Len(rx'[t].buf)
                PROVE  rx'[t].buf[i].tx = txn'
            <7>1. CASE i \in 1..Len(rx[t].buf)
              BY <1>1, <2>2, <6>2, <7>1 DEF OwnAnswer
            <7>2. CASE i = Len(rx[t].buf) + 1
              BY <1>1, <3>1, <6>2, <7>2
            <7>3. QED
              BY <6>2, <7>1, <7>2
          <6>4. QED
            BY <6>3
        <5>3. QED
          BY <3>3, <5>1, <5>2
      <4>2. \E g \in Frames : \E q \in 0..Len(g) :
              (Rest(g, q))' /\ rx'[t].paren = Depth(g, q)
        <5>1. p \in 0..Len(f)
          BY <3>2
        <5>2. QED
          BY <3>2, <3>3, <5>1
      <4>3. (OwnAnswer(t))'
        BY <3>1, <4>1, <4>2 DEF OwnAnswer, Depth, Rest
      <4>4. QED
        BY <2>3, <3>3, <4>3
    <3>4. CASE TakesOpen(t)
      <4>1. rx'[t].paren = Depth(f, p)
        BY <3>1, <3>2, <3>4, DepthFacts DEF TakesOpen
      <4>2. QED
        BY <3>3, <3>4, <4>1 DEF TakesOpen
    <3>5. CASE TakesOther(t)
      <4>1. rx'[t].paren = Depth(f, p)
        BY <3>1, <3>2, <3>5, DepthFacts DEF TakesOther
      <4>2. Stays
        BY <2>1, <3>5 DEF TakesOther
      <4>3. QED
        BY <3>1, <3>3, <3>5, <4>1, <4>2 DEF TakesOther
    <3>6. CASE TakesShut(t) /\ rx[t].paren # 1
      <4>1. rx'[t].paren = Depth(f, p)
        BY <3>1, <3>2, <3>6, DepthFacts DEF TakesShut
      <4>2. QED
        BY <3>3, <3>6, <4>1 DEF TakesShut
    <3>7. CASE TakesShut(t) /\ rx[t].paren = 1
      <4>1. Depth(f, p) = 0
        BY <3>1, <3>2, <3>7, DepthFacts DEF TakesShut
      <4>2. out' = <<>>
        <5>1. Len(out') = 0
          BY <3>2, <4>1, DepthFacts
        <5>2. out' \in Seq(WireByte)
          BY <1>0 DEF TypeOK
        <5>3. QED
          BY <5>1, <5>2, EmptySeq
      <4>3. Ends(t)
        BY <3>7 DEF TakesShut
      <4>4. \A u \in Threads : pc'[u] # "read"
        BY <1>0, <1>1, <4>3 DEF Ends
      <4>5. InStep'
        <5>1. CASE resp' = resp
          BY <1>1, <2>1, <2>2, <5>1 DEF InStep
        <5>2. CASE rx[t].buf # <<>> /\ resp' = [resp EXCEPT ![t] = rx[t].buf]
          <6>1. 1 \in 1..Len(rx[t].buf)
            BY <1>0, <5>2, EmptySeq, LenProperties
          <6>2. rx[t].buf[1].tx = own[t]
            BY <2>2, <6>1 DEF OwnAnswer
          <6>3. QED
            BY <1>0, <1>1, <2>1, <2>2, <5>2, <6>2 DEF InStep
        <5>3. QED
          BY <4>3, <5>1, <5>2 DEF Ends
      <4>6. QED
        BY <1>2, <3>1, <4>2, <4>4, <4>5 DEF StepInv, Reading
    <3>8. QED
      BY <2>1, <2>5, <3>4, <3>5, <3>6, <3>7, ReadCases DEF Breaks, TakesNothing, Takes
  <2>6. QED
    BY <2>1, <2>4, <2>5, ReadCases DEF TakesOpen, TakesShut, TakesOther, Breaks
<1>5. QED
  BY <1>3, <1>4

\* The answer to the only request is that of the transaction.
LEMMA StepServe ==
  ASSUME IInv, StepInv, Serve
  PROVE  StepInv'
<1>1. UNCHANGED <<pc, rx, resp, txn, own, newest, broken>>
  BY ServeAnswer
<1>2. InStep' /\ \A u \in Threads : pc'[u] = "read" => own'[u] = txn'
  BY <1>1 DEF StepInv, InStep
<1> SUFFICES ASSUME broken = 0
             PROVE  Reading' /\ \A u \in Threads : pc[u] = "read" => (OwnAnswer(u))'
  BY <1>1, <1>2 DEF StepInv
<1>3. inbox # <<>> /\ inbox \in Seq(Requests) /\ out \in Seq(WireByte)
  BY DEF Serve, IInv, TypeOK
<1>4. Reading
  BY <1>3 DEF StepInv
<1>5. Reading'
  BY <1>1, <1>4 DEF Reading
<1> SUFFICES ASSUME NEW u \in Threads, pc[u] = "read"
             PROVE  (OwnAnswer(u))'
  BY <1>5
<1>6. /\ out = <<>> /\ rx[u].paren = 0 /\ Len(inbox) <= 1
      /\ \A i \in 1..Len(inbox) : inbox[i].tx = txn
      /\ \A i \in 1..Len(rx[u].buf) : rx[u].buf[i].tx = txn
  BY <1>3 DEF StepInv, OwnAnswer
<1>7. given' = txn /\ inbox' = <<>>
  <2>1. 1 \in 1..Len(inbox) /\ given' = inbox[1].tx
    BY ServeBytes
  <2>2. inbox' = Tail(inbox)
    BY DEF Serve
  <2>3. /\ Len(inbox) \in Nat /\ Len(inbox') = Len(inbox) - 1 /\ inbox' \in Seq(Requests)
    BY <1>3, <2>2, HeadTailProperties, LenProperties
  <2>4. Len(inbox') = 0
    BY <1>6, <2>1, <2>3
  <2>5. QED
    BY <1>6, <2>1, <2>3, <2>4, EmptySeq
<1>8. PICK f \in Frames :
        /\ Len(f) \in Nat /\ Len(out') = Len(out) + Len(f)
        /\ \A i \in 1..Len(f) : out'[Len(out) + i] = Byte(given', f, i)
  BY ServeAnswer
<1>9. Len(out) = 0
  BY <1>6, EmptySeq
<1>10. Len(out') = Len(f) - 0
  BY <1>8, <1>9
<1>11. ASSUME NEW i \in 1..Len(out')
       PROVE  out'[i] = Byte(txn', f, 0 + i)
  <2>1. i \in 1..Len(f) /\ Len(out) + i = i /\ 0 + i = i
    BY <1>8, <1>9
  <2>2. QED
    BY <1>1, <1>7, <1>8, <2>1
<1>12. (Rest(f, 0))' /\ Depth(f, 0) = 0 /\ 0 \in 0..Len(f)
  BY <1>8, <1>10, <1>11 DEF Rest, Depth
<1>13. QED
  BY <1>1, <1>6, <1>7, <1>12 DEF OwnAnswer, Depth, Rest

\* A transaction in step finds the wire empty.
LEMMA StepSend ==
  ASSUME IInv, StepInv, NEW t \in Threads, Send(t)
  PROVE  StepInv'
<1>0. /\ pc \in [Threads -> Pcs] /\ rx \in [Threads -> RxState] /\ txn \in Nat
      /\ own \in [Threads -> Nat] /\ cmd[t] \in Commands
  BY DEF IInv, TypeOK
<1>1. /\ pc[t] = "send" /\ pc' = [pc EXCEPT ![t] = "read"]
      /\ rx' = [rx EXCEPT ![t] = FreshRx] /\ txn' = txn + 1
      /\ own' = [own EXCEPT ![t] = txn + 1] /\ UNCHANGED <<resp, out, broken>>
  BY DEF Send, Go
<1>2. \A u \in Threads : pc[u] # "read" /\ (pc'[u] = "read" => u = t)
  BY <1>0, <1>1 DEF IInv, OneTransaction, InTransaction
<1>3. own'[t] = txn' /\ resp[t] = <<>> /\ rx'[t] = FreshRx
  BY <1>0, <1>1 DEF IInv, ReaderInv
<1>4. InStep'
  BY <1>0, <1>1, <1>3 DEF InStep, StepInv
<1>5. Reading'
  BY <1>0, <1>1 DEF Reading
<1>6. ASSUME broken = 0
      PROVE  (OwnAnswer(t))'
  <2>1. inbox = <<>> /\ out = <<>>
    BY <1>2, <1>6 DEF StepInv, Reading
  <2>2. PICK c \in {cmd[t], "garbled"} :
          inbox' = Append(inbox, Request(txn + 1, c)) \/ inbox' = inbox
    BY DEF Send
  <2>3. Request(txn + 1, c) \in Requests /\ Request(txn + 1, c).tx = txn + 1
    BY <1>0 DEF Request, Requests
  <2>4. Len(inbox') <= 1 /\ \A i \in 1..Len(inbox') : inbox'[i].tx = txn'
    <3>1. CASE inbox' = inbox
      BY <2>1, <3>1, EmptySeq
    <3>2. CASE inbox' = Append(inbox, Request(txn + 1, c))
      <4>1. /\ inbox \in Seq(Requests) /\ Len(inbox) = 0
        BY <2>1, EmptySeq
      <4>2. /\ Len(inbox') = Len(inbox) + 1
            /\ inbox'[Len(inbox) + 1] = Request(txn + 1, c)
        BY <2>3, <3>2, <4>1, AppendProperties
      <4>3. QED
        BY <1>1, <2>3, <4>1, <4>2
    <3>3. QED
      BY <2>2, <3>1, <3>2
  <2>5. rx'[t].paren = 0 /\ rx'[t].buf = <<>>
    BY <1>3 DEF FreshRx
  <2>6. QED
    BY <1>1, <2>1, <2>4, <2>5 DEF OwnAnswer
<1>7. QED
  BY <1>1, <1>2, <1>3, <1>4, <1>5, <1>6 DEF StepInv

\* Every step keeps the loop in step until a transaction is abandoned.
LEMMA StepStep == IInv /\ StepInv /\ [Next]_vars => StepInv'
<1> SUFFICES ASSUME IInv, StepInv, [Next]_vars
             PROVE  StepInv'
  OBVIOUS
<1>1. CASE Quiet
  BY <1>1 DEF Quiet, StepInv, InStep, Reading, OwnAnswer, Rest
<1>2. QED
  BY <1>1, NextCases, StepRead, StepServe, StepSend

\* All of it holds before the first command.
LEMMA InitWhole == Init => WholeInv
<1> SUFFICES ASSUME Init
             PROVE  WholeInv
  OBVIOUS
<1>1. IInv /\ WireInv /\ SpentInv
  BY InitIInv DEF Init, WireInv, SpentInv
<1>2. BacklogInv
  <2>1. Owed = {}
    BY DEF Init, Owed, OwedOf
  <2>2. Total = 0
    BY <2>1, FS_EmptySet, EmptySeq DEF Init, Total
  <2>3. \A t \in Threads : pc[t] # "read"
    BY DEF Init
  <2>4. QED
    BY <2>2, <2>3 DEF Init, BacklogInv, Reading
<1>3. StepInv
  BY DEF Init, StepInv, InStep, Reading
<1>4. QED
  BY <1>1, <1>2, <1>3 DEF WholeInv

\* All invariants of the command channel together: besides IInv, that the bytes
\* of an answer stay together on the wire, that nothing can be taken of an
\* accepted answer, where the loop stands in an answer, and how many are left.
THEOREM Invariant == Spec => []WholeInv
<1>1. WholeInv /\ [Next]_vars => WholeInv'
  BY NextIInv, WireStep, SpentStep, BacklogStep, StepStep DEF WholeInv
<1>2. QED
  BY <1>1, InitWhole, PTL DEF Spec

\* No answer is used twice, nor one older than what was used before, whatever
\* was lost, late or read in part.
THEOREM NeverTwice == Spec => FreshAnswers
<1> DEFINE Fresh == \A t \in Threads :
       resp'[t] # resp[t] /\ resp'[t] # <<>> => newest < resp'[t][1].tx
<1>1. ASSUME WholeInv, [Next]_vars
      PROVE  [Fresh]_vars
  BY <1>1, FreshStep DEF WholeInv
<1>2. QED
  BY <1>1, Invariant, PTL DEF Spec, FreshAnswers

\* As long as nothing was abandoned a value answers the transaction that
\* returns it.
THEOREM AnswersInStep == Spec => []InStep
<1>1. WholeInv => InStep
  BY DEF WholeInv, StepInv
<1>2. QED
  BY <1>1, Invariant, PTL

\* An abandoned transaction leaves at most one answer behind.
THEOREM OneLeftBehind == Spec => []Backlog
<1>1. WholeInv => Backlog
  <2> SUFFICES ASSUME WholeInv
               PROVE  Backlog
    OBVIOUS
  <2>1. Len(inbox) \in Nat /\ out \in Seq(WireByte) /\ broken \in Nat /\ given \in Nat
    BY LenProperties DEF WholeInv, IInv, TypeOK
  <2> DEFINE heads == {i \in DOMAIN out : out[i].pos = 1}
  <2>2. Cardinality(heads) <= Cardinality(Owed)
    BY HeadsOwed DEF WholeInv
  <2>3. Cardinality(Owed) \in Nat
    BY <2>1, OwedFinite DEF Owed
  <2>4. Cardinality(heads) \in Nat
    <3>1. Len(out) \in Nat /\ DOMAIN out = 1..Len(out)
      BY <2>1, LenProperties
    <3>2. IsFiniteSet(1..Len(out))
      BY <3>1, FS_Interval
    <3>3. heads \in SUBSET (1..Len(out))
      BY <3>1
    <3>4. QED
      BY <3>2, <3>3, FS_Subset, FS_CardinalityType
  <2>5. Len(inbox) + Cardinality(Owed) <= broken + (IF Reading THEN 1 ELSE 0)
    BY DEF WholeInv, BacklogInv, Total
  <2> HIDE DEF heads
  <2>6. Len(inbox) + Cardinality(heads) <= broken + (IF Reading THEN 1 ELSE 0)
    BY <2>1, <2>2, <2>3, <2>4, <2>5
  <2>7. QED
    BY <2>6 DEF Backlog, Reading, heads
<1>2. QED
  BY <1>1, Invariant, PTL

-----------------------------------------------------------------------------
(* What is in rxbuf is what an answer has between its parentheses.           *)

\* On the wire a byte is followed by the next one of its answer, or after the
\* last one by the first byte of another.
Follows(b, c) ==
  IF b.pos = Len(b.of) THEN c.pos = 1 ELSE c = Byte(b.tx, b.of, b.pos + 1)

Linked ==
  \A i \in 1..Len(out) :
    IF i = Len(out) THEN out[i].pos = Len(out[i].of) ELSE Follows(out[i], out[i + 1])

\* How deep the answer is before the next byte.
Level == IF out = <<>> THEN 0 ELSE Depth(out[1].of, out[1].pos - 1)

\* The byte b comes after the text, and that after a parenthesis, which is an
\* open one unless there is no text.
After(b, text) ==
  \E f \in Frames : \E n \in Nat : \E a \in 1..Len(f) :
    /\ OpensAt(f, a) \/ (ShutsAt(f, a) /\ text = <<>>)
    /\ a + Len(text) + 1 \in 1..Len(f)
    /\ b = Byte(n, f, a + Len(text) + 1)
    /\ \A i \in 1..Len(text) : /\ text[i] = Byte(n, f, a + i)
                               /\ ~OpensAt(f, a + i) /\ ~ShutsAt(f, a + i)

\* The next byte comes after what is in rxbuf.
Inside(t) == out # <<>> /\ After(out[1], rx[t].buf)

\* A loop is never deeper than the answer it reads, since it begins at depth 0.
LevelInv ==
  \A t \in Threads : pc[t] = "read" =>
    /\ rx[t].paren <= Level
    /\ rx[t].paren = 1 => Inside(t)
    /\ rx[t].paren # 1 => rx[t].buf = <<>>

ValueInv == Linked /\ LevelInv /\ WholeNumber

\* The depth before the next byte is a number.
LEMMA LevelNat == TypeOK => Level \in Nat
<1> SUFFICES ASSUME TypeOK, out # <<>>
             PROVE  Depth(out[1].of, out[1].pos - 1) \in Nat
  BY DEF Level
<1>1. out \in Seq(WireByte) /\ 1 \in 1..Len(out)
  BY EmptySeq, LenProperties DEF TypeOK
<1>2. out[1].of \in Frames /\ out[1].pos \in 1..Len(out[1].of) /\ out[1].pos \in Nat
  BY <1>1, ByteTypes
<1>3. Len(out[1].of) \in Nat
  BY <1>2, FrameType
<1>4. CASE out[1].pos - 1 = 0
  BY <1>4 DEF Depth
<1>5. CASE out[1].pos - 1 # 0
  <2>1. out[1].pos - 1 \in 1..Len(out[1].of)
    BY <1>2, <1>3, <1>5
  <2>2. QED
    BY <1>2, <2>1, DepthFacts
<1>6. QED
  BY <1>4, <1>5

\* The byte taken is one of an answer, and the next one follows it there.
LEMMA NextByte ==
  ASSUME TypeOK, TypeOK', Linked, Takes
  PROVE  \E f \in Frames : \E n \in Nat : \E p \in 1..Len(f) :
           /\ Len(f) \in Nat /\ out[1] = Byte(n, f, p)
           /\ Opens(Head(out)) <=> OpensAt(f, p)
           /\ Shuts(Head(out)) <=> ShutsAt(f, p)
           /\ Level = Depth(f, p - 1) /\ Level' = Depth(f, p)
           /\ Level' # 0 => /\ p + 1 \in 1..Len(f)
                            /\ out' # <<>> /\ out'[1] = Byte(n, f, p + 1)
<1>1. /\ Len(out) \in Nat /\ Len(out') \in Nat /\ Len(out) = Len(out') + 1
      /\ Head(out) = out[1] /\ 1 \in 1..Len(out) /\ out # <<>>
      /\ out \in Seq(WireByte) /\ out' \in Seq(WireByte)
      /\ \A i \in 1..Len(out') : i + 1 \in 1..Len(out) /\ out'[i] = out[i + 1]
  BY TakesFirst DEF Takes
<1> DEFINE f == out[1].of
           n == out[1].tx
           p == out[1].pos
<1>2. /\ f \in Frames /\ n \in Nat /\ p \in Nat /\ p \in 1..Len(f)
  BY <1>1, ByteTypes
<1>3. out[1] = Byte(n, f, p)
  <2>1. out[1] \in WireByte
    BY <1>1, ElementOfSeq
  <2>2. QED
    BY <2>1 DEF WireByte, Byte
<1>4. Len(f) \in Nat
  BY <1>2, FrameType
<1>5. Ch(out[1]) = f[p].ch
  BY DEF Ch
<1>6. Opens(Head(out)) <=> OpensAt(f, p)
  BY <1>1, <1>5, Zenon DEF Opens, OpensAt
<1>7. Shuts(Head(out)) <=> ShutsAt(f, p)
  BY <1>1, <1>5, Zenon DEF Shuts, ShutsAt
<1>8. Level = Depth(f, p - 1)
  BY <1>1 DEF Level
<1>9. IF 1 = Len(out) THEN p = Len(f) ELSE Follows(out[1], out[2])
  BY <1>1 DEF Linked
<1>10. Depth(f, p) = 0 <=> p = Len(f)
  BY <1>2, DepthFacts
<1>11. CASE p = Len(f)
  <2>1. Level' = 0
    <3>1. CASE out' = <<>>
      BY <3>1 DEF Level
    <3>2. CASE out' # <<>>
      <4>1. 1 \in 1..Len(out')
        BY <1>1, <3>2, EmptySeq
      <4>2. out'[1] = out[2] /\ 1 # Len(out)
        BY <1>1, <4>1
      <4>3. out'[1].pos = 1
        BY <1>9, <1>11, <4>2 DEF Follows
      <4>4. QED
        BY <3>2, <4>3 DEF Level, Depth
    <3>3. QED
      BY <3>1, <3>2
  <2>2. Level' = Depth(f, p)
    BY <1>10, <1>11, <2>1
  <2>3. QED
    BY <1>2, <1>3, <1>4, <1>6, <1>7, <1>8, <2>1, <2>2
<1>12. CASE p # Len(f)
  <2>1. 1 # Len(out) /\ out[2] = Byte(n, f, p + 1)
    BY <1>9, <1>12 DEF Follows
  <2>2. 1 \in 1..Len(out') /\ out' # <<>>
    BY <1>1, <2>1, EmptySeq
  <2>3. out'[1] = Byte(n, f, p + 1)
    BY <1>1, <2>1, <2>2
  <2>4. out'[1].of = f /\ out'[1].pos = p + 1 /\ p + 1 - 1 = p
    BY <1>2, <2>3 DEF Byte
  <2>5. Level' = Depth(f, p)
    <3>1. out'[1].pos - 1 = p
      BY <1>2, <2>4
    <3>2. QED
      BY <2>2, <2>4, <3>1, Zenon DEF Level, Depth
  <2>6. p + 1 \in 1..Len(f)
    BY <1>2, <1>4, <1>12
  <2>7. QED
    BY <1>2, <1>3, <1>4, <1>6, <1>7, <1>8, <2>2, <2>3, <2>5, <2>6
<1>13. QED
  BY <1>11, <1>12

\* Taking the first byte leaves every byte its follower.
LEMMA LinkedRead ==
  ASSUME IInv, Linked, NEW t \in Threads, Read(t)
  PROVE  Linked'
<1>1. out' = out \/ Takes
  BY ReadCases DEF TakesOpen, TakesShut, TakesOther, TakesNothing, Breaks
<1>2. CASE out' = out
  BY <1>2 DEF Linked
<1>3. CASE Takes
  <2>1. /\ Len(out) \in Nat /\ Len(out') \in Nat /\ Len(out) = Len(out') + 1
        /\ \A i \in 1..Len(out') : i + 1 \in 1..Len(out) /\ out'[i] = out[i + 1]
    BY <1>3, TakesFirst DEF IInv
  <2>2. ASSUME NEW i \in 1..Len(out')
        PROVE  IF i = Len(out') THEN out'[i].pos = Len(out'[i].of)
                                ELSE Follows(out'[i], out'[i + 1])
    <3>1. i + 1 \in 1..Len(out) /\ out'[i] = out[i + 1]
      BY <2>1
    <3>2. IF i + 1 = Len(out) THEN out[i + 1].pos = Len(out[i + 1].of)
                              ELSE Follows(out[i + 1], out[i + 1 + 1])
      BY <3>1 DEF Linked
    <3>3. CASE i = Len(out')
      BY <2>1, <3>1, <3>2, <3>3
    <3>4. CASE i # Len(out')
      <4>1. i + 1 \in 1..Len(out') /\ i + 1 # Len(out)
        BY <2>1, <3>4
      <4>2. out'[i + 1] = out[i + 1 + 1]
        BY <2>1, <4>1
      <4>3. QED
        BY <3>1, <3>2, <3>4, <4>1, <4>2
    <3>5. QED
      BY <3>3, <3>4
  <2>3. QED
    BY <2>2 DEF Linked, Follows
<1>4. QED
  BY <1>1, <1>2, <1>3

\* A new answer follows the last byte of the one before, and is complete.
LEMMA LinkedServe ==
  ASSUME IInv, Linked, Serve
  PROVE  Linked'
<1>1. PICK f \in Frames :
        /\ Len(f) \in Nat /\ Len(out') = Len(out) + Len(f)
        /\ \A i \in 1..Len(out) : out'[i] = out[i]
        /\ \A i \in 1..Len(f) : out'[Len(out) + i] = Byte(given', f, i)
  BY ServeAnswer
<1>2. Len(out) \in Nat
  BY ServeBytes
<1>3. 1 \in 1..Len(f)
  <2>1. f # <<>> /\ f \in Seq([ch : Chars, depth : Nat])
    BY FrameType, FramesAssumption, Zenon DEF WellFormed
  <2>2. QED
    BY <1>1, <2>1, EmptySeq
<1> SUFFICES ASSUME NEW i \in 1..Len(out')
             PROVE  IF i = Len(out') THEN out'[i].pos = Len(out'[i].of)
                                     ELSE Follows(out'[i], out'[i + 1])
  BY DEF Linked, Follows
<1>4. CASE i < Len(out)
  <2>1. /\ i \in 1..Len(out) /\ i + 1 \in 1..Len(out) /\ i # Len(out) /\ i # Len(out')
    BY <1>1, <1>2, <1>4
  <2>2. out'[i] = out[i] /\ out'[i + 1] = out[i + 1] /\ Follows(out[i], out[i + 1])
    BY <1>1, <2>1 DEF Linked
  <2>3. QED
    BY <2>1, <2>2
<1>5. CASE i = Len(out)
  <2>1. i \in 1..Len(out) /\ i # Len(out')
    BY <1>1, <1>2, <1>3, <1>5
  <2>2. out'[i] = out[i] /\ out[i].pos = Len(out[i].of)
    BY <1>1, <1>5, <2>1 DEF Linked
  <2>3. out'[i + 1].pos = 1
    <3>1. out'[i + 1] = Byte(given', f, 1)
      BY <1>1, <1>3, <1>5
    <3>2. QED
      BY <3>1 DEF Byte
  <2>4. QED
    BY <2>1, <2>2, <2>3 DEF Follows
<1>6. CASE i > Len(out)
  <2> DEFINE k == i - Len(out)
  <2>1. k \in 1..Len(f) /\ Len(out) + k = i
    BY <1>1, <1>2, <1>6
  <2>2. out'[i] = Byte(given', f, k)
    BY <1>1, <2>1
  <2>3. CASE i = Len(out')
    <3>1. k = Len(f)
      BY <1>1, <1>2, <2>3
    <3>2. QED
      BY <2>2, <2>3, <3>1 DEF Byte
  <2>4. CASE i # Len(out')
    <3>1. k + 1 \in 1..Len(f) /\ Len(out) + (k + 1) = i + 1 /\ k # Len(f)
      BY <1>1, <1>2, <2>1, <2>4
    <3>2. out'[i + 1] = Byte(given', f, k + 1)
      BY <1>1, <3>1
    <3>3. QED
      BY <2>2, <2>4, <3>1, <3>2 DEF Follows, Byte
  <2>5. QED
    BY <2>3, <2>4
<1>7. QED
  BY <1>1, <1>2, <1>4, <1>5, <1>6

\* What stands beside the next byte of an answer, from the form of answers.
LEMMA BareFacts ==
  ASSUME NEW f \in Frames, NEW i \in 1..Len(f), NEW j \in 1..Len(f), i < j
  PROVE  /\ OpensAt(f, j) => OpensAt(f, i)
         /\ ShutsAt(f, i) => ShutsAt(f, j)
BY BareListAssumption, Zenon DEF BareList, OpensAt, ShutsAt

\* A byte moves loop and answer by the same depth; only what stands between an
\* opening parenthesis and the next one gets into rxbuf.
LEMMA LevelRead ==
  ASSUME IInv, Linked, LevelInv, NEW t \in Threads, Read(t)
  PROVE  LevelInv'
<1>0. /\ TypeOK /\ TypeOK' /\ pc \in [Threads -> Pcs]
      /\ rx[t].paren \in Int /\ rx'[t].paren \in Int /\ rx[t].buf \in Seq(WireByte)
  <2>1. TypeOK'
    BY StepType DEF IInv, Step
  <2>2. QED
    BY <2>1 DEF IInv, TypeOK, RxState
<1>1. /\ pc[t] = "read" /\ UNCHANGED given
      /\ \A u \in Threads : pc[u] = "read" => u = t
      /\ \A u \in Threads : pc'[u] = "read" => u = t /\ pc' = pc
  <2>1. pc[t] = "read" /\ \A u \in Threads : pc[u] = "read" => u = t
    BY ReadCases DEF IInv, OneTransaction, InTransaction
  <2>2. pc' = pc \/ pc' = [pc EXCEPT ![t] = "unlock"]
    BY ReadFrame
  <2>3. \A u \in Threads : pc'[u] = "read" => u = t /\ pc' = pc
    BY <1>0, <2>1, <2>2
  <2>4. QED
    BY <2>1, <2>3, ReadCases
<1>2. /\ rx[t].paren <= Level
      /\ rx[t].paren = 1 => Inside(t)
      /\ rx[t].paren # 1 => rx[t].buf = <<>>
  BY <1>1 DEF LevelInv
<1> SUFFICES ASSUME pc' = pc
             PROVE  /\ rx'[t].paren <= Level'
                    /\ rx'[t].paren = 1 => (Inside(t))'
                    /\ rx'[t].paren # 1 => rx'[t].buf = <<>>
  BY <1>1 DEF LevelInv
<1>3. ~GivesUp(t) /\ ~Ends(t)
  BY <1>0, <1>1 DEF GivesUp, Ends
<1>4. CASE TakesNothing(t)
  <2>1. out' = out /\ rx'[t].paren = rx[t].paren /\ rx'[t].buf = rx[t].buf
    BY <1>4 DEF TakesNothing
  <2>2. Level' = Level
    BY <2>1 DEF Level, Depth
  <2>3. Inside(t) => (Inside(t))'
    BY <2>1 DEF Inside, After, OpensAt, ShutsAt, Byte
  <2>4. QED
    BY <1>2, <2>1, <2>2, <2>3
<1>5. CASE Takes
  <2> DEFINE At(f, n, p) ==
          /\ Len(f) \in Nat /\ out[1] = Byte(n, f, p)
          /\ Opens(Head(out)) <=> OpensAt(f, p)
          /\ Shuts(Head(out)) <=> ShutsAt(f, p)
          /\ Level = Depth(f, p - 1) /\ Level' = Depth(f, p)
          /\ Level' # 0 => /\ p + 1 \in 1..Len(f)
                           /\ out' # <<>> /\ out'[1] = Byte(n, f, p + 1)
  <2>1. PICK f \in Frames : \E n \in Nat : \E p \in 1..Len(f) : At(f, n, p)
    BY <1>0, <1>5, NextByte
  <2>2. PICK n \in Nat : \E p \in 1..Len(f) : At(f, n, p)
    BY <2>1
  <2>3. PICK p \in 1..Len(f) : At(f, n, p)
    BY <2>2
  <2>4. Level \in Int /\ Level' \in Int
    BY <2>3, DepthFacts
  <2>5. ASSUME rx[t].paren = 1
        PROVE  \E a \in 1..Len(f) :
                 /\ OpensAt(f, a) \/ (ShutsAt(f, a) /\ rx[t].buf = <<>>)
                 /\ p = a + Len(rx[t].buf) + 1
                 /\ \A i \in 1..Len(rx[t].buf) :
                      /\ rx[t].buf[i] = Byte(n, f, a + i)
                      /\ ~OpensAt(f, a + i) /\ ~ShutsAt(f, a + i)
    <3> DEFINE In(g, m, a) ==
            /\ OpensAt(g, a) \/ (ShutsAt(g, a) /\ rx[t].buf = <<>>)
            /\ out[1] = Byte(m, g, a + Len(rx[t].buf) + 1)
            /\ \A i \in 1..Len(rx[t].buf) :
                 /\ rx[t].buf[i] = Byte(m, g, a + i)
                 /\ ~OpensAt(g, a + i) /\ ~ShutsAt(g, a + i)
    <3>1. \E g \in Frames : \E m \in Nat : \E a \in 1..Len(g) : In(g, m, a)
      BY <1>2, <2>5 DEF Inside, After
    <3>2. PICK g \in Frames : \E m \in Nat : \E a \in 1..Len(g) : In(g, m, a)
      BY <3>1
    <3>3. PICK m \in Nat : \E a \in 1..Len(g) : In(g, m, a)
      BY <3>2
    <3>4. PICK a \in 1..Len(g) : In(g, m, a)
      BY <3>3
    <3>5. g = f /\ m = n /\ p = a + Len(rx[t].buf) + 1
      BY <2>3, <3>4 DEF Byte
    <3>6. QED
      BY <3>4, <3>5
  <2>6. CASE TakesOpen(t)
    <3>1. /\ OpensAt(f, p) /\ rx'[t].paren = rx[t].paren + 1 /\ rx'[t].buf = rx[t].buf
      BY <2>3, <2>6 DEF TakesOpen
    <3>2. rx'[t].paren <= Level'
      BY <1>0, <1>2, <2>3, <2>4, <3>1, DepthFacts
    <3>3. rx[t].buf = <<>>
      <4>1. CASE rx[t].paren = 1
        <5>1. PICK a \in 1..Len(f) :
                /\ p = a + Len(rx[t].buf) + 1
                /\ \A i \in 1..Len(rx[t].buf) : ~OpensAt(f, a + i)
          BY <2>5, <4>1
        <5>2. SUFFICES ASSUME rx[t].buf # <<>>
                       PROVE  FALSE
          OBVIOUS
        <5>3. Len(rx[t].buf) \in Nat /\ Len(rx[t].buf) >= 1
          BY <1>0, <5>2, EmptySeq, LenProperties
        <5>4. a + Len(rx[t].buf) \in 1..Len(f) /\ a + Len(rx[t].buf) < p
          BY <2>3, <5>1, <5>3
        <5>5. ~OpensAt(f, a + Len(rx[t].buf))
          BY <5>1, <5>3
        <5>6. QED
          BY <3>1, <5>4, <5>5, BareFacts
      <4>2. QED
        BY <1>2, <4>1
    <3>4. ASSUME rx'[t].paren = 1
          PROVE  (Inside(t))'
      <4>1. Level' # 0
        BY <2>4, <3>2, <3>4
      <4>2. p + Len(rx'[t].buf) + 1 = p + 1 /\ Len(rx'[t].buf) = 0
        BY <2>3, <3>1, <3>3, EmptySeq
      <4>3. QED
        BY <2>3, <3>1, <3>3, <4>1, <4>2 DEF Inside, After
    <3>5. QED
      BY <3>1, <3>2, <3>3, <3>4
  <2>7. CASE TakesShut(t)
    <3>1. rx[t].paren # 1
      BY <1>3, <2>7 DEF TakesShut
    <3>2. /\ ShutsAt(f, p) /\ rx'[t].paren = rx[t].paren - 1 /\ rx'[t].buf = <<>>
      BY <1>2, <2>3, <2>7, <3>1 DEF TakesShut
    <3>3. rx'[t].paren <= Level'
      BY <1>0, <1>2, <2>3, <2>4, <3>2, DepthFacts
    <3>4. ASSUME rx'[t].paren = 1
          PROVE  (Inside(t))'
      <4>1. Level' # 0
        BY <2>4, <3>3, <3>4
      <4>2. p + Len(rx'[t].buf) + 1 = p + 1 /\ Len(rx'[t].buf) = 0
        BY <2>3, <3>2, EmptySeq
      <4>3. QED
        BY <2>3, <3>2, <4>1, <4>2 DEF Inside, After
    <3>5. QED
      BY <3>2, <3>3, <3>4
  <2>8. CASE TakesOther(t)
    <3>1. ~OpensAt(f, p) /\ ~ShutsAt(f, p) /\ rx'[t].paren = rx[t].paren
      BY <2>3, <2>8 DEF TakesOther
    <3>2. rx'[t].paren <= Level'
      BY <1>2, <2>3, <3>1, DepthFacts
    <3>3. CASE rx[t].paren # 1
      BY <1>2, <2>8, <3>1, <3>2, <3>3 DEF TakesOther
    <3>4. CASE rx[t].paren = 1
      <4>1. PICK a \in 1..Len(f) :
              /\ OpensAt(f, a) \/ (ShutsAt(f, a) /\ rx[t].buf = <<>>)
              /\ p = a + Len(rx[t].buf) + 1
              /\ \A i \in 1..Len(rx[t].buf) :
                   /\ rx[t].buf[i] = Byte(n, f, a + i)
                   /\ ~OpensAt(f, a + i) /\ ~ShutsAt(f, a + i)
        BY <2>5, <3>4
      <4>2. rx'[t].buf = Append(rx[t].buf, out[1]) /\ out[1] \in WireByte
        BY <1>0, <1>5, <2>8, <3>4, TakesFirst, ElementOfSeq DEF TakesOther
      <4>3. /\ Len(rx[t].buf) \in Nat /\ Len(rx'[t].buf) = Len(rx[t].buf) + 1
            /\ \A i \in 1..Len(rx[t].buf) : rx'[t].buf[i] = rx[t].buf[i]
            /\ rx'[t].buf[Len(rx[t].buf) + 1] = out[1]
        BY <1>0, <4>2, AppendProperties, LenProperties
      <4>4. OpensAt(f, a)
        <5>1. a < p
          BY <2>3, <4>1, <4>3
        <5>2. QED
          BY <3>1, <4>1, <5>1, BareFacts
      <4>5. Level' # 0
        BY <2>4, <3>1, <3>2, <3>4
      <4>6. a + Len(rx'[t].buf) + 1 = p + 1
        BY <2>3, <4>1, <4>3
      <4>7. ASSUME NEW i \in 1..Len(rx'[t].buf)
            PROVE  /\ rx'[t].buf[i] = Byte(n, f, a + i)
                   /\ ~OpensAt(f, a + i) /\ ~ShutsAt(f, a + i)
        <5>1. CASE i \in 1..Len(rx[t].buf)
          BY <4>1, <4>3, <5>1
        <5>2. CASE i = Len(rx[t].buf) + 1
          <6>1. a + i = p
            BY <2>3, <4>1, <4>3, <5>2
          <6>2. QED
            BY <2>3, <3>1, <4>3, <5>2, <6>1
        <5>3. QED
          BY <4>3, <5>1, <5>2
      <4>8. (Inside(t))'
        BY <2>3, <4>4, <4>5, <4>6, <4>7 DEF Inside, After, OpensAt, ShutsAt, Byte
      <4>9. QED
        BY <3>1, <3>2, <3>4, <4>8
    <3>5. QED
      BY <3>3, <3>4
  <2>9. QED
    BY <1>3, <1>5, <2>6, <2>7, <2>8, ReadCases DEF Breaks, TakesNothing, Takes
<1>6. QED
  BY <1>3, <1>4, <1>5, ReadCases DEF TakesOpen, TakesShut, TakesOther, Breaks

\* An answer comes to the end of the wire, or to a loop that is at no depth.
LEMMA LevelServe ==
  ASSUME IInv, LevelInv, Serve
  PROVE  LevelInv'
<1>1. UNCHANGED <<pc, rx>>
  BY ServeAnswer
<1>2. PICK f \in Frames :
        /\ Len(f) \in Nat /\ Len(out') = Len(out) + Len(f)
        /\ \A i \in 1..Len(out) : out'[i] = out[i]
        /\ \A i \in 1..Len(f) : out'[Len(out) + i] = Byte(given', f, i)
  BY ServeAnswer
<1>3. out \in Seq(WireByte) /\ out' \in Seq(WireByte) /\ Len(out) \in Nat
  <2>1. TypeOK'
    BY NextType DEF IInv, Next
  <2>2. QED
    BY <2>1, LenProperties DEF IInv, TypeOK
<1>4. CASE out # <<>>
  <2>1. 1 \in 1..Len(out)
    BY <1>3, <1>4, EmptySeq
  <2>2. out'[1] = out[1] /\ Len(out') # 0
    BY <1>2, <1>3, <2>1
  <2>3. out' # <<>>
    BY <2>2, EmptySeq
  <2>4. Level' = Level
    BY <1>4, <2>2, <2>3 DEF Level, Depth
  <2>5. ASSUME NEW t \in Threads, Inside(t)
        PROVE  (Inside(t))'
    <3>1. After(out'[1], rx'[t].buf)
      BY <1>1, <2>2, <2>5 DEF Inside
    <3>2. QED
      BY <2>3, <3>1, Zenon DEF Inside, After, OpensAt, ShutsAt, Byte
  <2>6. QED
    BY <1>1, <2>4, <2>5 DEF LevelInv
<1>5. CASE out = <<>>
  <2>1. Level' = 0
    <3>1. CASE out' = <<>>
      BY <3>1 DEF Level
    <3>2. CASE out' # <<>>
      <4>1. Len(out) = 0 /\ 1 \in 1..Len(out')
        BY <1>3, <1>5, <3>2, EmptySeq, LenProperties
      <4>2. 1 \in 1..Len(f) /\ Len(out) + 1 = 1
        BY <1>2, <4>1
      <4>3. out'[1] = Byte(given', f, 1)
        BY <1>2, <4>2
      <4>4. out'[1].pos - 1 = 0
        BY <4>3 DEF Byte
      <4>5. QED
        BY <3>2, <4>4, Zenon DEF Level, Depth
    <3>3. QED
      BY <3>1, <3>2
  <2>2. Level = 0
    BY <1>5 DEF Level
  <2>3. \A t \in Threads : ~Inside(t)
    BY <1>5 DEF Inside, After
  <2>4. QED
    BY <1>1, <2>1, <2>2, <2>3 DEF LevelInv
<1>6. QED
  BY <1>4, <1>5

\* A transaction begins at depth 0 with an empty rxbuf.
LEMMA LevelSend ==
  ASSUME IInv, LevelInv, NEW t \in Threads, Send(t)
  PROVE  LevelInv'
<1>1. /\ pc \in [Threads -> Pcs] /\ rx \in [Threads -> RxState]
      /\ pc[t] = "send" /\ pc' = [pc EXCEPT ![t] = "read"]
      /\ rx' = [rx EXCEPT ![t] = FreshRx] /\ out' = out
  BY DEF Send, Go, IInv, TypeOK
<1>2. \A u \in Threads : pc'[u] = "read" => u = t
  BY <1>1 DEF IInv, OneTransaction, InTransaction
<1>3. rx'[t].paren = 0 /\ rx'[t].buf = <<>>
  BY <1>1 DEF FreshRx
<1>4. Level' = Level /\ Level \in Nat
  BY <1>1, LevelNat DEF Level, Depth, IInv
<1>5. QED
  BY <1>2, <1>3, <1>4 DEF LevelInv

\* A loop ends with a value when it takes the byte after it, a closing parenthesis.
LEMMA NumberRead ==
  ASSUME IInv, Linked, LevelInv, WholeNumber, NEW t \in Threads, Read(t)
  PROVE  WholeNumber'
<1>0. /\ TypeOK /\ TypeOK' /\ resp \in [Threads -> Seq(WireByte)]
      /\ rx[t].paren \in Int /\ rx[t].buf \in Seq(WireByte)
  <2>1. TypeOK'
    BY StepType DEF IInv, Step
  <2>2. QED
    BY <2>1 DEF IInv, TypeOK, RxState
<1>1. CASE resp' = resp
  BY <1>1 DEF WholeNumber, Number, WholeText, Byte, Ch
<1>2. CASE resp' # resp
  <2>1. Number(rx[t].buf) /\ resp' = [resp EXCEPT ![t] = rx[t].buf]
    BY <1>2, ReadFrame
  <2>2. TakesShut(t) /\ rx[t].paren = 1
    BY <1>2, ReadCases DEF TakesOpen, TakesShut, TakesOther, TakesNothing, Breaks, Stays, GivesUp
  <2>3. Takes /\ Shuts(Head(out)) /\ rx[t].buf # <<>>
    BY <2>1, <2>2 DEF TakesShut, Number
  <2> DEFINE In(g, m, a) ==
          /\ OpensAt(g, a)
          /\ a + Len(rx[t].buf) + 1 \in 1..Len(g)
          /\ out[1] = Byte(m, g, a + Len(rx[t].buf) + 1)
          /\ \A i \in 1..Len(rx[t].buf) : rx[t].buf[i] = Byte(m, g, a + i)
  <2>4. \E g \in Frames : \E m \in Nat : \E a \in 1..Len(g) : In(g, m, a)
    <3>1. Inside(t)
      BY <2>2, ReadCases DEF LevelInv
    <3>2. QED
      BY <2>3, <3>1 DEF Inside, After
  <2>5. PICK g \in Frames : \E m \in Nat : \E a \in 1..Len(g) : In(g, m, a)
    BY <2>4
  <2>6. PICK m \in Nat : \E a \in 1..Len(g) : In(g, m, a)
    BY <2>5
  <2>7. PICK a \in 1..Len(g) : In(g, m, a)
    BY <2>6
  <2> DEFINE z == a + Len(rx[t].buf) + 1
  <2>8. g[z].ch = ")"
    <3>1. Head(out) = out[1]
      BY <1>0, <2>3, TakesFirst
    <3>2. Ch(out[1]) = ")"
      BY <2>3, <3>1, Zenon DEF Shuts
    <3>3. out[1] = Byte(m, g, z)
      BY <2>7
    <3>4. Ch(out[1]) = g[z].ch
      BY <3>3 DEF Ch, Byte
    <3>5. QED
      BY <3>2, <3>4, Zenon
  <2>9. g[a].ch = "("
    BY <2>7, Zenon DEF OpensAt
  <2>10. rx[t].buf[1].tx = m
    <3>1. 1 \in 1..Len(rx[t].buf)
      BY <1>0, <2>3, EmptySeq, LenProperties
    <3>2. rx[t].buf[1] = Byte(m, g, a + 1)
      BY <2>7, <3>1
    <3>3. QED
      BY <3>2 DEF Byte
  <2>11. /\ resp'[t] = rx[t].buf
         /\ \A u \in Threads \ {t} : resp'[u] = resp[u]
    BY <1>0, <2>1
  <2>12. WholeText(rx[t].buf)
    BY <2>7, <2>8, <2>9, <2>10 DEF WholeText
  <2>13. \A u \in Threads : resp'[u] # <<>> => Number(resp'[u]) /\ WholeText(resp'[u])
    BY <2>1, <2>11, <2>12 DEF WholeNumber
  <2>14. QED
    BY <2>13, Zenon DEF WholeNumber, WholeText, Number, Byte, Ch
<1>3. QED
  BY <1>1, <1>2

\* Every step keeps what rxbuf and the values delivered hold.
LEMMA ValueStep == IInv /\ ValueInv /\ [Next]_vars => ValueInv'
<1> SUFFICES ASSUME IInv, ValueInv, [Next]_vars
             PROVE  ValueInv'
  OBVIOUS
<1>1. CASE Quiet
  <2>1. UNCHANGED <<rx, out>> /\ \A u \in Threads : pc'[u] = "read" <=> pc[u] = "read"
    BY <1>1 DEF Quiet
  <2>2. Linked' /\ LevelInv'
    <3>1. Linked'
      BY <2>1 DEF ValueInv, Linked, Follows
    <3>2. Level' = Level
      BY <2>1 DEF Level, Depth
    <3>3. ASSUME NEW u \in Threads, Inside(u)
          PROVE  (Inside(u))'
      <4>1. out' # <<>> /\ After(out'[1], rx'[u].buf)
        BY <2>1, <3>3 DEF Inside
      <4>2. QED
        BY <4>1, Zenon DEF Inside, After, OpensAt, ShutsAt, Byte
    <3>4. QED
      BY <2>1, <3>1, <3>2, <3>3 DEF ValueInv, LevelInv
  <2>3. WholeNumber'
    <3>1. ASSUME NEW u \in Threads, resp'[u] # <<>>
          PROVE  Number(resp'[u]) /\ WholeText(resp'[u])
      <4>1. resp'[u] = resp[u]
        BY <1>1, <3>1 DEF Quiet
      <4>2. QED
        BY <3>1, <4>1 DEF ValueInv, WholeNumber
    <3>2. QED
      BY <3>1, Zenon DEF WholeNumber, WholeText, Number, Byte, Ch
  <2>4. QED
    BY <2>2, <2>3 DEF ValueInv
<1>2. CASE Serve
  <2>1. resp' = resp
    BY <1>2, ServeAnswer
  <2>2. WholeNumber'
    BY <2>1 DEF ValueInv, WholeNumber, Number, WholeText, Byte, Ch
  <2>3. QED
    BY <1>2, <2>2, LinkedServe, LevelServe DEF ValueInv
<1>3. ASSUME NEW t \in Threads, Send(t)
      PROVE  ValueInv'
  <2>1. resp' = resp /\ out' = out
    BY <1>3 DEF Send
  <2>2. WholeNumber' /\ Linked'
    BY <2>1 DEF ValueInv, WholeNumber, Number, WholeText, Byte, Ch, Linked, Follows
  <2>3. QED
    BY <1>3, <2>2, LevelSend DEF ValueInv
<1>4. ASSUME NEW t \in Threads, Read(t)
      PROVE  ValueInv'
  BY <1>4, LinkedRead, LevelRead, NumberRead DEF ValueInv
<1>5. QED
  BY <1>1, <1>2, <1>3, <1>4, NextCases

\* Every value delivered is all that one answer has between its parentheses,
\* wherever in an older answer the read loop began.
THEOREM WholeValues == Spec => []WholeNumber
<1>1. Init => ValueInv
  <2> SUFFICES ASSUME Init
               PROVE  ValueInv
    OBVIOUS
  <2>1. Len(out) = 0 /\ \A t \in Threads : resp[t] = <<>> /\ pc[t] # "read"
    BY EmptySeq DEF Init
  <2>2. QED
    BY <2>1 DEF ValueInv, Linked, LevelInv, WholeNumber
<1>2. ValueInv => WholeNumber
  BY DEF ValueInv
<1>3. QED
  BY <1>1, <1>2, ValueStep, InOrder, PTL DEF Spec
=============================================================================
