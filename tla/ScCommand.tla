----------------------------- MODULE ScCommand -----------------------------
(***************************************************************************)
(* What sc_cmdresp_retry promises to its callers in                        *)
(* system-controller/mnt-sc.c, without mutex, bytes or timeouts: a call    *)
(* transmits its command at least once and at most MaxRetries times; every *)
(* transmission that arrives joins one queue from which the system         *)
(* controller (SC) serves all threads; an answer that is accepted is one   *)
(* the SC gave, and answers are never accepted out of order.  An answer    *)
(* need NOT belong to the command of the call that accepts it, and a       *)
(* command may still be served after its call has given up.                *)
(***************************************************************************)
EXTENDS Integers, Sequences

CONSTANTS
  Threads,     \* callers: sysfs readers and writers, pm notifier, power-off
  Commands,    \* the command strings, e.g. "(0q)" and "(set-lite 0)"
  MaxRetries   \* MNTSC_MAX_RETRIES

VARIABLES
  busy,        \* threads inside sc_cmdresp_retry
  cmd,         \* cmd[t]: the command of t's current or last call
  tries,       \* tries[t]: transmissions made by t's current or last call
  sent,        \* number of transmissions so far: their names are 1..sent
  inbox,       \* transmissions that reached the SC and are not served yet
  given,       \* the last transmission the SC has answered
  newest,      \* the newest answer any try has accepted
  taken        \* taken[t]: the answer t's last try accepted, 0 if none

abstractVars == <<busy, cmd, tries, sent, inbox, given, newest, taken>>

Request(n, c) == [tx |-> n, cmd |-> c]

AbstractInit ==
  /\ busy = {}
  /\ cmd \in [Threads -> Commands]
  /\ tries = [t \in Threads |-> 0]
  /\ sent = 0 /\ inbox = <<>> /\ given = 0 /\ newest = 0
  /\ taken = [t \in Threads |-> 0]

Begin(t, c) ==
  /\ t \notin busy
  /\ busy' = busy \cup {t}
  /\ cmd' = [cmd EXCEPT ![t] = c]
  /\ tries' = [tries EXCEPT ![t] = 0]
  /\ taken' = [taken EXCEPT ![t] = 0]
  /\ UNCHANGED <<sent, inbox, given, newest>>

\* A try sends the command (again); it arrives as it was meant, garbled, or
\* not at all.
Transmit(t) ==
  /\ t \in busy
  /\ tries[t] < MaxRetries
  /\ taken[t] = 0
  /\ tries' = [tries EXCEPT ![t] = @ + 1]
  /\ sent' = sent + 1
  /\ \/ \E c \in {cmd[t], "garbled"} :
          inbox' = Append(inbox, Request(sent + 1, c))
     \/ UNCHANGED inbox
  /\ UNCHANGED <<busy, cmd, given, newest, taken>>

Serve ==
  /\ inbox # <<>>
  /\ inbox' = Tail(inbox)
  /\ given' = Head(inbox).tx
  /\ UNCHANGED <<busy, cmd, tries, sent, newest, taken>>

\* A try accepts an answer that is not older than one accepted before.
Take(t) ==
  /\ t \in busy
  /\ tries[t] > 0
  /\ newest' \in newest..given /\ newest' > 0
  /\ taken' = [taken EXCEPT ![t] = newest']
  /\ UNCHANGED <<busy, cmd, tries, sent, inbox, given>>

Return(t) ==
  /\ t \in busy
  /\ tries[t] > 0
  /\ busy' = busy \ {t}
  /\ UNCHANGED <<cmd, tries, sent, inbox, given, newest, taken>>

AbstractNext ==
  \/ \E t \in Threads :
       \/ \E c \in Commands : Begin(t, c)
       \/ Transmit(t) \/ Take(t) \/ Return(t)
  \/ Serve

AbstractSpec == AbstractInit /\ [][AbstractNext]_abstractVars
=============================================================================
