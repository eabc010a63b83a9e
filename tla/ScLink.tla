------------------------------- MODULE ScLink -------------------------------
(***************************************************************************)
(* The command channel of system-controller/mnt-sc.c: threads that call    *)
(* sc_cmdresp_retry, the mutex, the loop of sc_cmdresp that reads the      *)
(* answer one byte at a time, its timeout and its retries, against a       *)
(* system controller (SC, external: its firmware is not in this            *)
(* repository) that answers every command it receives, in order, as late   *)
(* as it likes.  Nothing is drained before a command is sent, so an answer *)
(* that comes after its command timed out is read by the next transaction. *)
(***************************************************************************)
EXTENDS Integers, Sequences, FiniteSets

CONSTANTS
  Threads,     \* kernel threads that call the driver
  Commands,    \* command strings
  NoThread,    \* the value of a free mutex
  Frames,      \* the answers the SC can give: sequences of characters, each
               \* with the nesting depth of parentheses after it
  MaxRetries,  \* MNTSC_MAX_RETRIES
  RxMaxDelay,  \* MNTSC_RX_MAX_DELAY: empty bytes a transaction waits for
  RxSz,        \* MNTSC_RX_SZ: size of rxbuf
  MayJam,      \* whether the bus may jam (TRUE; FALSE keeps a run small)
  MaxCalls     \* bound on the calls of a behaviour (the driver has none)

DigitChars == {"1", "2"}
Chars == {"(", ")", "-", "e"} \cup DigitChars

\* An answer is one balanced list.
WellFormed(f) ==
  /\ f \in Seq([ch : Chars, depth : Nat])
  /\ f # <<>>
  /\ \A i \in 1..Len(f) :
       LET before == IF i = 1 THEN 0 ELSE f[i - 1].depth
       IN  /\ f[i].depth = IF f[i].ch = "(" THEN before + 1
                           ELSE IF f[i].ch = ")" THEN before - 1
                           ELSE before
           /\ (f[i].depth = 0) <=> (i = Len(f))

\* It has one innermost list, its value: nothing opens after a list has closed.
OneList(f) ==
  \A i, j \in 1..Len(f) : i < j /\ f[i].ch = ")" => f[j].ch # "("

\* Nothing stands beside that list: it opens all lists before its value and
\* closes them after it.
BareList(f) ==
  \A i, j \in 1..Len(f) : i < j => /\ f[j].ch = "(" => f[i].ch = "("
                                   /\ f[i].ch = ")" => f[j].ch = ")"

ASSUME FramesAssumption == \A f \in Frames : WellFormed(f)
ASSUME OneListAssumption == \A f \in Frames : OneList(f)
ASSUME BareListAssumption == \A f \in Frames : BareList(f)

ASSUME ConstantsAssumption ==
  /\ NoThread \notin Threads
  /\ MaxRetries \in Nat \ {0}
  /\ RxMaxDelay \in Nat \ {0}
  /\ RxSz \in Nat \ {0}
  /\ MayJam \in BOOLEAN
  /\ MaxCalls \in Nat

VARIABLES
  lock,        \* mntsc->lock
  pc,          \* where each thread is in sc_cmdresp_retry
  cmd,         \* the command string it sends
  tries,       \* the loop counter i of sc_cmdresp_retry, counted at each send
  rx,          \* the locals paren, delayed and rxbuf of sc_cmdresp
  ret,         \* the result of its last sc_cmdresp
  resp,        \* the response buffer: <<>> while zero
  inbox,       \* external: requests the SC has received and not yet served
  out,         \* external: answer bytes not yet read by the driver
  bus,         \* external: "clear", or "jammed": it repeats one byte for ever
  given,       \* history: the last transaction answered
  txn,         \* history: transactions started
  own,         \* history: the number of each thread's last transaction
  newest,      \* history: the last transaction whose answer was accepted
  broken,      \* history: transactions that gave up before their last byte
  calls        \* calls made, bounded by MaxCalls

scVars == <<inbox, out, bus, given>>
historyVars == <<txn, own, newest, broken, calls>>
vars == <<lock, pc, cmd, tries, rx, ret, resp, inbox, out, bus, given,
          txn, own, newest, broken, calls>>

\* A byte on the wire: character pos of the frame `of` that answers tx.
Byte(n, f, i) == [tx |-> n, of |-> f, pos |-> i]
Ch(b) == b.of[b.pos].ch
Request(n, c) == [tx |-> n, cmd |-> c]

Go(t, from, to) == pc[t] = from /\ pc' = [pc EXCEPT ![t] = to]

-----------------------------------------------------------------------------
FreshRx == [paren |-> 0, delayed |-> 0, buf |-> <<>>]

Init ==
  /\ lock = NoThread
  /\ pc = [t \in Threads |-> "idle"]
  /\ cmd \in [Threads -> Commands]
  /\ tries = [t \in Threads |-> 0]
  /\ rx = [t \in Threads |-> FreshRx]
  /\ ret = [t \in Threads |-> "OK"]
  /\ resp = [t \in Threads |-> <<>>]
  /\ inbox = <<>> /\ out = <<>> /\ bus = "clear" /\ given = 0
  /\ txn = 0
  /\ own = [t \in Threads |-> 0]
  /\ newest = 0 /\ broken = 0 /\ calls = 0

\* sc_cmdresp_retry is called with command c.
Call(t, c) ==
  /\ calls < MaxCalls
  /\ Go(t, "idle", "lock")
  /\ cmd' = [cmd EXCEPT ![t] = c]
  /\ tries' = [tries EXCEPT ![t] = 0]
  /\ ret' = [ret EXCEPT ![t] = "EAGAIN"]
  /\ resp' = [resp EXCEPT ![t] = <<>>]
  /\ calls' = calls + 1
  /\ UNCHANGED <<lock, rx, scVars, txn, own, newest, broken>>

\* Mutant of Lock: the mutex is not taken.
LockUnguarded(t) ==
  /\ Go(t, "lock", "send")
  /\ lock' = t
  /\ resp' = [resp EXCEPT ![t] = <<>>]
  /\ UNCHANGED <<cmd, tries, rx, ret, scVars, historyVars>>

\* mutex_lock, with the memset of the caller's own buffer just before it.
Lock(t) ==
  /\ lock = NoThread
  /\ Go(t, "lock", "send")
  /\ lock' = t
  /\ resp' = [resp EXCEPT ![t] = <<>>]
  /\ UNCHANGED <<cmd, tries, rx, ret, scVars, historyVars>>

\* Mutant of Send: the command is written a second time.
SendTwice(t) ==
  /\ Go(t, "send", "read")
  /\ tries' = [tries EXCEPT ![t] = @ + 1]
  /\ txn' = txn + 1
  /\ own' = [own EXCEPT ![t] = txn + 1]
  /\ rx' = [rx EXCEPT ![t] = FreshRx]
  /\ LET r == Request(txn + 1, cmd[t]) IN inbox' = inbox \o <<r, r>>
  /\ UNCHANGED <<lock, cmd, ret, resp, out, bus, given, newest, broken, calls>>

\* Mutant of Send: paren and rxbuf survive from the transaction before.
SendKeepsRx(t) ==
  /\ Go(t, "send", "read")
  /\ tries' = [tries EXCEPT ![t] = @ + 1]
  /\ txn' = txn + 1
  /\ own' = [own EXCEPT ![t] = txn + 1]
  /\ inbox' = Append(inbox, Request(txn + 1, cmd[t]))
  /\ UNCHANGED <<lock, cmd, rx, ret, resp, out, bus, given, newest, broken,
                 calls>>

\* The chunks of the command go out; the results of spi_write are overwritten
\* unread, so a failing write garbles or loses the command unnoticed.
Send(t) ==
  /\ Go(t, "send", "read")
  /\ tries' = [tries EXCEPT ![t] = @ + 1]
  /\ txn' = txn + 1
  /\ own' = [own EXCEPT ![t] = txn + 1]
  /\ rx' = [rx EXCEPT ![t] = FreshRx]
  /\ \/ /\ bus = "clear"
        /\ \E c \in {cmd[t], "garbled"} :
             inbox' = Append(inbox, Request(txn + 1, c))
     \/ UNCHANGED inbox
  /\ UNCHANGED <<lock, cmd, ret, resp, out, bus, given, newest, broken, calls>>

\* The read loop ends with result r; lost: the answer was not read to its end.
Finish(t, r, lost) ==
  /\ Go(t, "read", "unlock")
  /\ ret' = [ret EXCEPT ![t] = r]
  /\ broken' = broken + (IF lost THEN 1 ELSE 0)
  /\ UNCHANGED <<lock, cmd, tries, inbox, given, txn, own, calls>>

Continue(t) ==
  /\ pc[t] = "read"
  /\ UNCHANGED <<lock, pc, cmd, tries, ret, resp, inbox, given, historyVars>>

\* The bytes that come are those the SC sent.
Clear == bus = "clear" /\ UNCHANGED bus

\* Mutant of ReadNothing: empty bytes are not counted.
ReadNothingForever(t) ==
  Clear /\ out = <<>> /\ Continue(t) /\ UNCHANGED <<rx, out>>

\* Nothing to read: the SC shifts out 0x00 or 0xff.
ReadNothing(t) ==
  /\ Clear /\ out = <<>>
  /\ rx' = [rx EXCEPT ![t].delayed = @ + 1]
  /\ IF rx[t].delayed + 1 >= RxMaxDelay
     THEN Finish(t, "EAGAIN", TRUE) /\ UNCHANGED <<resp, newest>>
     ELSE Continue(t)
  /\ UNCHANGED out

\* spi_read fails; the byte in transit may be gone.
ReadError(t) ==
  /\ Finish(t, "EIO", TRUE)
  /\ out' \in {out} \cup (IF out = <<>> \/ bus = "jammed" THEN {} ELSE {Tail(out)})
  /\ UNCHANGED <<rx, bus, resp, newest>>

ReadOpen(t) ==
  /\ Clear /\ out # <<>> /\ Ch(Head(out)) = "("
  /\ out' = Tail(out)
  /\ rx' = [rx EXCEPT ![t].paren = @ + 1]
  /\ Continue(t)

\* What kstrtoull and the tests before it accept: a word made of digits.  A
\* leading minus sign is let through by the tests and refused by kstrtoull.
Number(buf) == buf # <<>> /\ \A i \in 1..Len(buf) : Ch(buf[i]) \in DigitChars

\* A closing parenthesis ends the transaction when it balances.
ReadClose(t) ==
  /\ Clear /\ out # <<>> /\ Ch(Head(out)) = ")"
  /\ out' = Tail(out)
  /\ rx' = [rx EXCEPT ![t].paren = @ - 1]
  /\ IF rx[t].paren = 1
     THEN \/ /\ Number(rx[t].buf)
             /\ resp' = [resp EXCEPT ![t] = rx[t].buf]
             /\ newest' = rx[t].buf[1].tx
             /\ Finish(t, "OK", FALSE)
          \/ /\ rx[t].buf = <<>>
             /\ UNCHANGED <<resp, newest>>
             /\ Finish(t, "OK", FALSE)
          \/ /\ rx[t].buf # <<>> /\ ~Number(rx[t].buf)
             /\ UNCHANGED <<resp, newest>>
             /\ Finish(t, "EAGAIN", FALSE)
     ELSE Continue(t)

\* Any other byte is kept inside one level of parentheses only; a full rxbuf
\* ends the transaction.
ReadOther(t) ==
  /\ Clear /\ out # <<>> /\ Ch(Head(out)) \notin {"(", ")"}
  /\ out' = Tail(out)
  /\ IF rx[t].paren = 1
     THEN /\ rx' = [rx EXCEPT ![t].buf = Append(@, Head(out))]
          /\ IF Len(rx[t].buf) + 1 >= RxSz
             THEN Finish(t, "EAGAIN", TRUE) /\ UNCHANGED <<resp, newest>>
             ELSE Continue(t)
     ELSE Continue(t) /\ UNCHANGED rx

\* A byte that is neither empty nor ")" from now on comes for ever.  It fills
\* rxbuf inside one level of parentheses; anywhere else neither count moves,
\* and the loop goes on, with the mutex held.
ReadJammed(t) ==
  /\ MayJam /\ bus' = "jammed"
  /\ \/ /\ rx[t].paren = 1
        /\ Finish(t, "EAGAIN", TRUE)
        /\ UNCHANGED <<rx, out, resp, newest>>
     \/ Continue(t) /\ UNCHANGED <<rx, out>>

\* Mutant of Unlock: the error path of spi_read returns with the mutex held.
UnlockLeaks(t) ==
  /\ Go(t, "unlock", "retry")
  /\ lock' = IF ret[t] = "EIO" THEN lock ELSE NoThread
  /\ UNCHANGED <<cmd, tries, rx, ret, resp, scVars, historyVars>>

Unlock(t) ==
  /\ Go(t, "unlock", "retry")
  /\ lock' = NoThread
  /\ UNCHANGED <<cmd, tries, rx, ret, resp, scVars, historyVars>>

\* Mutant of Retry: one retry too many.
RetryOnceMore(t) ==
  /\ Go(t, "retry", IF ret[t] = "EAGAIN" /\ tries[t] <= MaxRetries
                    THEN "lock" ELSE "idle")
  /\ UNCHANGED <<lock, cmd, tries, rx, ret, resp, scVars, historyVars>>

\* Mutant of Retry: success does not leave the retry loop.
RetryAfterSuccess(t) ==
  /\ Go(t, "retry", IF tries[t] < MaxRetries THEN "lock" ELSE "idle")
  /\ UNCHANGED <<lock, cmd, tries, rx, ret, resp, scVars, historyVars>>

Retry(t) ==
  /\ Go(t, "retry", IF ret[t] = "EAGAIN" /\ tries[t] < MaxRetries
                    THEN "lock" ELSE "idle")
  /\ UNCHANGED <<lock, cmd, tries, rx, ret, resp, scVars, historyVars>>

\* External: the SC serves its oldest request and queues an answer; on a
\* jammed bus none comes through.
Serve ==
  /\ Clear /\ inbox # <<>>
  /\ inbox' = Tail(inbox)
  /\ given' = Head(inbox).tx
  /\ \E f \in Frames :
       out' = out \o [i \in 1..Len(f) |-> Byte(Head(inbox).tx, f, i)]
  /\ UNCHANGED <<lock, pc, cmd, tries, rx, ret, resp, historyVars>>

Read(t) ==
  \/ ReadNothing(t) \/ ReadOpen(t) \/ ReadClose(t) \/ ReadOther(t)
  \/ ReadError(t) \/ ReadJammed(t)

Step(t) == Send(t) \/ Read(t) \/ Unlock(t) \/ Retry(t)

\* Everything has returned, the SC is idle or cut off, and the bound on calls is reached.
Done ==
  /\ calls = MaxCalls
  /\ \A t \in Threads : pc[t] = "idle"
  /\ inbox = <<>> \/ bus = "jammed"
  /\ UNCHANGED vars

Next ==
  \/ \E t \in Threads : (\E c \in Commands : Call(t, c)) \/ Lock(t) \/ Step(t)
  \/ Serve
  \/ Done

Spec == Init /\ [][Next]_vars

\* A thread inside the driver keeps running and a waiter gets a mutex that is
\* released again and again (kernel mutexes queue their waiters and hand over);
\* the SC owes no answer, spi_read no error, and a jammed bus nothing.
Progress(t) ==
  \/ Send(t) \/ Unlock(t) \/ Retry(t)
  \/ ReadNothing(t) \/ ReadOpen(t) \/ ReadClose(t) \/ ReadOther(t)

Fairness == \A t \in Threads : WF_vars(Progress(t)) /\ SF_vars(Lock(t))

FairSpec == Spec /\ Fairness

-----------------------------------------------------------------------------
Pcs == {"idle", "lock", "send", "read", "unlock", "retry"}
Results == {"OK", "EAGAIN", "EIO"}
WireByte == {b \in [tx : Nat, of : Frames, pos : Nat] : b.pos \in 1..Len(b.of)}
Requests == [tx : Nat, cmd : Commands \cup {"garbled"}]
RxState == [paren : Int, delayed : Nat, buf : Seq(WireByte)]

\* Types of all variables of the driver and of the SC.
TypeOK ==
  /\ lock \in Threads \cup {NoThread}
  /\ pc \in [Threads -> Pcs]
  /\ cmd \in [Threads -> Commands]
  /\ tries \in [Threads -> 0..MaxRetries]
  /\ rx \in [Threads -> RxState]
  /\ ret \in [Threads -> Results]
  /\ resp \in [Threads -> Seq(WireByte)]
  /\ inbox \in Seq(Requests)
  /\ out \in Seq(WireByte)
  /\ bus \in {"clear", "jammed"}
  /\ given \in Nat
  /\ txn \in Nat
  /\ own \in [Threads -> Nat]
  /\ newest \in Nat
  /\ broken \in Nat
  /\ calls \in 0..MaxCalls

InTransaction(t) == pc[t] \in {"send", "read", "unlock"}

\* The mutex covers a transaction from the first chunk sent to the last byte
\* read: no two threads are in one, and the mutex is free exactly when none is.
OneTransaction ==
  /\ \A t \in Threads : InTransaction(t) <=> lock = t
  /\ \A t, u \in Threads : InTransaction(t) /\ InTransaction(u) => t = u

\* All that an answer has between two parentheses.
WholeText(text) ==
  \E f \in Frames : \E a \in 1..Len(f) :
    LET z == a + Len(text) + 1
    IN  /\ z \in 1..Len(f) /\ f[a].ch = "(" /\ f[z].ch = ")"
        /\ \A i \in 1..Len(text) : text[i] = Byte(text[1].tx, f, a + i)

\* A command that returns a value returns one whole number of one answer: a
\* loop that starts in the middle of an older answer never delivers its tail,
\* nor digits of two answers (sc_cmdresp, paren and rxbuf).
WholeNumber ==
  \A t \in Threads : resp[t] # <<>> => Number(resp[t]) /\ WholeText(resp[t])

\* As long as no transaction was abandoned before the last byte of its answer,
\* every value returned answers the very transaction that returns it.
InStep ==
  broken = 0 =>
    \A t \in Threads : resp[t] # <<>> => resp[t][1].tx = own[t]

\* An abandoned transaction leaves at most one answer behind: the answers the
\* SC still owes or the driver has not begun to read never exceed the number
\* of abandoned transactions, plus one while a transaction is running.
Backlog ==
  Len(inbox) + Cardinality({i \in DOMAIN out : out[i].pos = 1})
    <= broken + (IF \E t \in Threads : pc[t] = "read" THEN 1 ELSE 0)

\* A transaction never accepts an answer that was accepted before, by its own
\* thread or another one, nor an older one.
FreshAnswers ==
  [][\A t \in Threads :
       resp'[t] # resp[t] /\ resp'[t] # <<>> => newest < resp'[t][1].tx]_vars

\* As long as the bus does not jam, every call of the driver returns, however
\* late or never the SC answers: the timeout bounds a transaction, and
\* MNTSC_MAX_RETRIES bounds the transactions of a call.  On a jammed bus none
\* need return: a loop outside one level of parentheses counts nothing.
CallReturns == \A t \in Threads : pc[t] = "lock" ~> (pc[t] = "idle" \/ bus = "jammed")

-----------------------------------------------------------------------------
\* The command channel implements the abstract one.
Abstract == INSTANCE ScCommand WITH
  busy  <- {t \in Threads : pc[t] # "idle"},
  sent  <- txn,
  taken <- [t \in Threads |-> IF resp[t] = <<>> THEN 0 ELSE resp[t][1].tx]

ImplementsScCommand == Abstract!AbstractSpec
=============================================================================
