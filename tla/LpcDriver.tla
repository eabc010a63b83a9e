----------------------------- MODULE LpcDriver -----------------------------
(***************************************************************************)
(* lpc/reform2_lpc.c: the driver of the older system controller (LPC).     *)
(* Sysfs files, battery, backlight, probe and power-off handler go through *)
(* lpc_command: write four bytes, wait, read eight back, under a mutex,    *)
(* and from the API version V3 on a checksum, checked after the mutex is   *)
(* released.  The battery is registered, and read, before the probe knows  *)
(* the API version.  The LPC itself is external.                           *)
(***************************************************************************)
EXTENDS Integers, FiniteSets, Sequences

CONSTANTS
  Readers,     \* threads in the battery, a sysfs file or the backlight
  Prober,      \* the thread in lpc_probe
  Stopper,     \* the thread in lpc_power_off
  NoThread,    \* the value of a free mutex
  Measures,    \* the LPC's answers to "q", eight bytes
  Versions,    \* its answers to "f", a date of eight digits
  Handlers,    \* what readers call: the commands of each handler, for example
               \* two "v" of show_cells, <<"n", "n", "f">> of show_firmware
               \* ("n" is an "f" that asks for a name), "b" of the backlight,
               \* a "z" per character of store_uart
  Flips,       \* bits of a byte, by weight, that a transfer can flip
  MaxFaults    \* bound on failing and damaged transfers

Threads == Readers \cup {Prober, Stopper}
Bytes == 0..255
Texts == {"n", "f"}
BitWeights == {1, 2, 4, 8, 16, 32, 64, 128}
Commands == {"q", "c", "v", "n", "f", "z", "b"}
Zeros == [i \in 1..8 |-> 0]

VARIABLES
  lock,        \* lpc->lock
  api,         \* lpc->api_version: 0 is unknown
  pc,          \* where each thread is in lpc_command
  cmd,         \* the command of its call: "f" of the probe, "p" of power-off,
               \* and the commands of Handlers
  rest,        \* the commands its handler has still to send
  buf,         \* its response buffer, the eight bytes that are read
  ret,         \* the result of lpc_command so far
  report,      \* what a reader's last call returned: [prop, val]
  measure,     \* external: what the LPC would answer to "q" now
  version,     \* external: its firmware
  answer,      \* external: the answer it has ready, [cmd, bytes]
  power,       \* external: the power it controls
  damaged,     \* history: bytes of buf that are not the LPC's
  got,         \* history: the command whose answer is in buf
  faults       \* faults so far, bounded by MaxFaults

lpcVars == <<measure, version, power>>
vars == <<lock, api, pc, cmd, rest, buf, ret, report, measure, version, answer, power,
          damaged, got, faults>>

Fault == faults < MaxFaults /\ faults' = faults + 1
Go(t, from, to) == pc[t] = from /\ pc' = [pc EXCEPT ![t] = to]

-----------------------------------------------------------------------------
\* lpc_calc_checksum is the XOR of all bytes but the last.  The buffer holds
\* LPC_RES_SZ = 9 bytes and eight are read: the ninth, which
\* lpc_confirm_checksum compares with, is the zero of the memset, so that every
\* bit must be set in an even number of the eight.
EvenBits(b, n) ==
  \A w \in BitWeights :
    Cardinality({i \in 1..n : (b[i] \div w) % 2 = 1}) % 2 = 0

\* Mutant of Confirm: the loop ends one byte early.
ConfirmSkipsLast(b) == EvenBits(b, 7)

Confirm(b) == EvenBits(b, 8)

ASSUME LpcAssumption ==
  /\ NoThread \notin Threads /\ Prober # Stopper
  /\ Readers \cap {Prober, Stopper} = {}
  /\ \A b \in Measures : b \in [1..8 -> Bytes] /\ EvenBits(b, 8)
  /\ \A v \in Versions : v \in [1..8 -> 48..57]
  /\ \A h \in Handlers : h \in Seq(Commands) /\ h # <<>>
  /\ Flips \subseteq BitWeights
  /\ MaxFaults \in Nat

\* The bit of weight w of a byte flips.
Flip(x, w) == IF (x \div w) % 2 = 1 THEN x - w ELSE x + w

\* kstrtou32 of eight digits.
DateOf(b) ==
  LET date[n \in 0..8] == IF n = 0 THEN 0 ELSE 10 * date[n - 1] + b[n] - 48
  IN  date[8]

\* Mutant of ApiOf: the raw version instead of the API version.
ApiOfRaw(b) == DateOf(b)

\* lpc_get_api_version: the ranges of the dates.
ApiOf(b) ==
  LET v == DateOf(b)
  IN  IF \E i \in 1..8 : b[i] \notin 48..57 THEN 0
      ELSE IF v > 20200000 /\ v < 20250526 THEN 1
      ELSE IF v >= 20250526 /\ v < 20260315 THEN 2
      ELSE IF v >= 20260315 /\ v <= 30000101 THEN 3
      ELSE 0

\* (int16_t)buffer[2] | (int16_t)buffer[3] << 8
Int16(lo, hi) == IF hi >= 128 THEN lo + 256 * hi - 65536 ELSE lo + 256 * hi

StatusOf(b) ==
  LET ma == Int16(b[3], b[4])
  IN  IF ma < -100 THEN "Charging"
      ELSE IF ma > 100 THEN "Discharging"
      ELSE IF b[5] = 100 THEN "Full" ELSE "Not charging"

VoltageOf(b) ==
  LET mv == b[1] + 256 * b[2]
  IN  IF mv < 5000 \/ mv >= 40000 THEN 0 ELSE mv * 1000

\* Mutant of CurrentOf: without the sign change.
CurrentOfUnsigned(b) ==
  LET ma == Int16(b[3], b[4])
  IN  IF ma < -20000 \/ ma >= 20000 THEN {0}
      ELSE {IF ma >= -5 /\ ma <= 5 THEN 0 ELSE ma * 1000}

\* An implausible current returns success with val->intval unset: some value.
CurrentOf(b) ==
  LET ma == Int16(b[3], b[4])
  IN  IF ma < -20000 \/ ma >= 20000 THEN {-1000000, 0, 1000000}
      ELSE {IF ma >= -5 /\ ma <= 5 THEN 0 ELSE -(ma * 1000)}

CapacityOf(b) ==
  IF b[5] < 6 THEN 6 ELSE IF b[5] > 100 THEN 100 ELSE b[5]

\* CHARGE_NOW, CHARGE_EMPTY and CHARGE_FULL, also as show_capacity prints them.
ChargesOf(b) == [k \in {"now", "empty", "full"} |->
  LET i == CASE k = "now" -> 1 [] k = "empty" -> 3 [] k = "full" -> 5
  IN  (b[i] + 256 * b[i + 1]) * 1000]

\* The result of an error, or of a handler that returns no property.
Nothing == [prop |-> "none", val |-> 0]

\* External: what the LPC answers.
AnswerTo(c) ==
  CASE c = "q" -> measure [] c = "f" -> version [] OTHER -> Zeros

-----------------------------------------------------------------------------
Init ==
  /\ lock = NoThread
  /\ api = 0
  /\ pc = [t \in Threads |-> "idle"]
  /\ cmd = [t \in Threads |-> "q"]
  /\ rest = [t \in Threads |-> <<>>]
  /\ buf = [t \in Threads |-> Zeros]
  /\ ret = [t \in Threads |-> "OK"]
  /\ report = [t \in Readers |-> Nothing]
  /\ measure \in Measures /\ version \in Versions
  /\ answer = [cmd |-> "none", bytes |-> Zeros]
  /\ power = "on"
  /\ damaged = [t \in Threads |-> {}]
  /\ got = [t \in Threads |-> "none"]
  /\ faults = 0

\* A handler enters its first lpc_command, with its buffer zeroed.
Call(t, cs) ==
  /\ Go(t, "idle", "lock")
  /\ cmd' = [cmd EXCEPT ![t] = Head(cs)]
  /\ rest' = [rest EXCEPT ![t] = Tail(cs)]
  /\ report' = [r \in Readers |-> IF r = t THEN Nothing ELSE report[r]]
  /\ UNCHANGED <<lock, api, buf, ret, lpcVars, answer, damaged, got, faults>>

\* The call is over: its locals are gone.
Forget(t) ==
  /\ buf' = [buf EXCEPT ![t] = Zeros]
  /\ ret' = [ret EXCEPT ![t] = "OK"]
  /\ damaged' = [damaged EXCEPT ![t] = {}]
  /\ got' = [got EXCEPT ![t] = "none"]

Lock(t) ==
  /\ lock = NoThread
  /\ Go(t, "lock", "write")
  /\ lock' = t
  /\ UNCHANGED <<api, cmd, rest, buf, ret, report, lpcVars, answer, damaged, got,
                 faults>>

\* Mutant of Write: the mutex is released during the delay before the read.
WriteUnlocks(t) ==
  /\ Go(t, "write", "read")
  /\ answer' = [cmd |-> cmd[t], bytes |-> AnswerTo(cmd[t])]
  /\ lock' = NoThread
  /\ UNCHANGED <<api, cmd, rest, buf, ret, report, lpcVars, damaged, got, faults>>

\* spi_write: the LPC has the command, or the call returns the error.
Write(t) ==
  \/ /\ Go(t, "write", "read")
     /\ answer' = [cmd |-> cmd[t], bytes |-> AnswerTo(cmd[t])]
     /\ power' = IF cmd[t] = "p" THEN "off" ELSE power
     /\ UNCHANGED <<lock, api, cmd, rest, buf, ret, report, measure, version, damaged,
                    got, faults>>
  \/ /\ Fault
     /\ Go(t, "write", "return")
     /\ ret' = [ret EXCEPT ![t] = "error"]
     /\ lock' = NoThread
     /\ UNCHANGED <<api, cmd, rest, buf, report, lpcVars, answer, damaged, got>>

\* spi_read: the answer, one byte of it damaged, or an error.
Read(t) ==
  /\ Go(t, "read", "unlock")
  /\ \/ /\ buf' = [buf EXCEPT ![t] = answer.bytes]
        /\ got' = [got EXCEPT ![t] = answer.cmd]
        /\ UNCHANGED <<ret, damaged, faults>>
     \/ /\ Fault
        /\ \E i \in 1..8, w \in Flips :
             /\ buf' = [buf EXCEPT ![t] =
                          [answer.bytes EXCEPT ![i] = Flip(@, w)]]
             /\ damaged' = [damaged EXCEPT ![t] = {i}]
        /\ got' = [got EXCEPT ![t] = answer.cmd]
        /\ UNCHANGED ret
     \/ /\ Fault
        /\ ret' = [ret EXCEPT ![t] = "error"]
        /\ UNCHANGED <<buf, damaged, got>>
  /\ UNCHANGED <<lock, api, cmd, rest, report, lpcVars, answer>>

\* The mutex is released, then the checksum is checked.
Unlock(t) ==
  /\ Go(t, "unlock", "check")
  /\ lock' = NoThread
  /\ UNCHANGED <<api, cmd, rest, buf, ret, report, lpcVars, answer, damaged, got,
                 faults>>

Check(t) ==
  /\ Go(t, "check", "return")
  /\ ret' = IF api >= 3 /\ ~Confirm(buf[t])
            THEN [ret EXCEPT ![t] = "error"] ELSE ret
  /\ UNCHANGED <<lock, api, cmd, rest, buf, report, lpcVars, answer, damaged, got,
                 faults>>

\* store_uart and bl_update_status do not look at the result.
Careless == {"z", "b"}
Fails(t) == ret[t] = "error" /\ cmd[t] \notin Careless

\* The next command of the same handler, into a part of its buffers of its own.
NextCommand(t) ==
  /\ t \in Readers
  /\ rest[t] # <<>> /\ ~Fails(t)
  /\ Go(t, "return", "lock")
  /\ cmd' = [cmd EXCEPT ![t] = Head(rest[t])]
  /\ rest' = [rest EXCEPT ![t] = Tail(@)]
  /\ Forget(t)
  /\ UNCHANGED <<lock, api, report, lpcVars, answer, faults>>

\* What a handler may report: one property of get_bat_property, a file.
Reports(t) ==
  LET b == buf[t]
      charges == [prop |-> "charges", val |-> ChargesOf(b)]
      failed == ret[t] = "error"
  IN  CASE cmd[t] = "q" /\ ~failed ->
             {[prop |-> "status", val |-> StatusOf(b)],
              [prop |-> "voltage", val |-> VoltageOf(b)],
              [prop |-> "capacity", val |-> CapacityOf(b)]}
               \cup {[prop |-> "current", val |-> v] : v \in CurrentOf(b)}
        [] cmd[t] = "c" /\ ~failed -> {charges}
        [] cmd[t] = "c" /\ failed -> {Nothing, charges}   \* show_capacity
        [] OTHER -> {Nothing}

\* The handler returns; but for show_capacity, an error (-EBUSY of a property,
\* an empty file) reports nothing, also that of the first of two commands.
ReturnReport(t) ==
  /\ t \in Readers
  /\ rest[t] = <<>> \/ Fails(t)
  /\ Go(t, "return", "idle")
  /\ \E r \in Reports(t) : report' = [report EXCEPT ![t] = r]
  /\ rest' = [rest EXCEPT ![t] = <<>>]
  /\ Forget(t)
  /\ UNCHANGED <<lock, api, cmd, lpcVars, answer, faults>>

\* lpc_probe stores the version, once.
ReturnVersion ==
  /\ Go(Prober, "return", "probed")
  /\ api' = IF ret[Prober] = "error" THEN 0 ELSE ApiOf(buf[Prober])
  /\ Forget(Prober)
  /\ UNCHANGED <<lock, cmd, rest, report, lpcVars, answer, faults>>

\* Mutant of TryAgain: the handler gives up after one command.
TryOnce ==
  /\ Go(Stopper, "return", "stuck")
  /\ Forget(Stopper)
  /\ UNCHANGED <<lock, api, cmd, rest, report, lpcVars, answer, faults>>

\* lpc_power_off: try to shut down power, forever.
TryAgain ==
  /\ Go(Stopper, "return", "idle")
  /\ Forget(Stopper)
  /\ UNCHANGED <<lock, api, cmd, rest, report, lpcVars, answer, faults>>

\* External: the measurements change.
Measure ==
  /\ measure' \in Measures
  /\ UNCHANGED <<lock, api, pc, cmd, rest, buf, ret, report, version, answer, power,
                 damaged, got, faults>>

\* The steps of a call.
Run(t) == Write(t) \/ Read(t) \/ Unlock(t) \/ Check(t)
Return(t) ==
  NextCommand(t) \/ ReturnReport(t) \/ (t = Prober /\ ReturnVersion) \/ (t = Stopper /\ TryAgain)

Next ==
  /\ power = "on"
  /\ \/ \E t \in Readers, h \in Handlers : Call(t, h)
     \/ Call(Prober, <<"f">>)
     \/ Call(Stopper, <<"p">>)
     \/ \E t \in Threads : Lock(t) \/ Run(t) \/ Return(t)
     \/ Measure

Spec == Init /\ [][Next]_vars

\* Threads inside the driver keep running and waiters get the mutex.
Fairness ==
  /\ \A t \in Threads : WF_vars(power = "on" /\ (Run(t) \/ Return(t)))
                        /\ SF_vars(power = "on" /\ Lock(t))
  /\ WF_vars(power = "on" /\ pc[Stopper] = "idle" /\ cmd[Stopper] = "p"
               /\ Call(Stopper, <<"p">>))

FairSpec == Spec /\ Fairness

-----------------------------------------------------------------------------
\* Types of all variables.
TypeOK ==
  /\ lock \in Threads \cup {NoThread}
  /\ api \in 0..3
  /\ pc \in [Threads -> {"idle", "lock", "write", "read", "unlock", "check",
                         "return", "probed"}]
  /\ cmd \in [Threads -> Commands \cup {"p"}]
  /\ rest \in [Threads -> Seq(Commands)]
  /\ buf \in [Threads -> [1..8 -> Bytes]]
  /\ ret \in [Threads -> {"OK", "error"}]
  /\ \A t \in Readers : report[t].prop \in {"none", "status", "voltage",
                                            "current", "capacity", "charges"}
  /\ got \in [Threads -> Commands \cup {"p", "none"}]
  /\ measure \in Measures /\ version \in Versions
  /\ answer.cmd \in Commands \cup {"p", "none"}
  /\ answer.bytes \in [1..8 -> Bytes]
  /\ power \in {"on", "off"}
  /\ damaged \in [Threads -> SUBSET (1..8)]
  /\ faults \in 0..MaxFaults

\* A thread never decodes the answer to another thread's command: the mutex
\* covers the delay between the write and the read.
OwnAnswer ==
  \A t \in Threads : pc[t] \in {"check", "return"} => got[t] \in {cmd[t], "none"}

\* Once the probe has seen a V3 firmware, a transfer that worked is an error
\* exactly when a byte of it is damaged, even for a call that began before; a
\* transfer that failed stays one.  (But for texts: the eight digits of the
\* version leave no byte for a checksum, so that what the comparison says of
\* them depends on the date.)
DamageCaught ==
  [][\A t \in Threads :
       Go(t, "check", "return") /\ api = 3 /\ cmd[t] \notin Texts =>
         (ret'[t] = "error" <=> (ret[t] = "error" \/ damaged[t] # {}))]_vars

\* Whatever was read, the capacity that is reported stays between 6 and 100
\* percent, so that zeroed or damaged bytes never look like an empty battery,
\* and for a current within 20 A status and current of one answer agree (Linux
\* counts a charging current positive, the LPC negative).
ReportPlausible ==
  /\ \A t \in Threads : \A c \in CurrentOf(buf[t]) :
       LET ma == Int16(buf[t][3], buf[t][4])
       IN  ma >= -20000 /\ ma < 20000 =>
             /\ StatusOf(buf[t]) = "Charging" => c > 0
             /\ StatusOf(buf[t]) = "Discharging" => c < 0
  /\ \A t \in Readers : report[t].prop = "capacity" => report[t].val \in 6..100

\* Once the power-off handler runs, the power goes off, although single
\* transfers fail and other threads use the mutex.
PowersOff == cmd[Stopper] = "p" ~> power = "off"
=============================================================================
