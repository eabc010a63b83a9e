------------------------------ MODULE ScCallers ------------------------------
(***************************************************************************)
(* Who calls the command channel of system-controller/mnt-sc.c, on top of  *)
(* what ScCommand says of a call: the sysfs files and the battery, the     *)
(* backlight, the pm notifier, the gpio lines and the power-off handler,   *)
(* which all ignore whether a setting arrived, and mntsc_probe and         *)
(* mntsc_remove, which bring them up and take them away.  The backlight is *)
(* changed under a lock of its class that the notifier does not take.  No  *)
(* handler here looks at what an answer says, so Take of ScCommand, which  *)
(* changes nothing else, is left out: a call may return after any try.     *)
(***************************************************************************)
EXTENDS ScCommand

CONSTANTS
  Users,       \* threads that read, change the backlight or set a gpio line
  Suspender,   \* the thread that suspends the machine
  Stopper,     \* the thread that powers it off
  Reads,       \* what is read, as the commands of its handler: "(0q)" or "(0c)"
               \* for most, two for show_cells, three for show_firmware
  MaxEvents,   \* bound on the calls from outside
  MaxLost,     \* bound on transmissions that are lost or garbled
  MaxInbox,    \* bound on commands that wait at the SC
  MaxProbes    \* bound on probes

\* The commands that set something at the SC.
Settings == {"(set-lite 0)", "(set-lite 1)", "(set-lite 2)", "(soc-susp)",
             "(soc-psus)", "(set-gpio 0 0)", "(set-gpio 0 1)", "(0p)"}

ASSUME CallersAssumption ==
  /\ Threads = Users \cup {Suspender, Stopper}
  /\ Suspender # Stopper /\ Users \cap {Suspender, Stopper} = {}
  /\ {MaxEvents, MaxLost, MaxInbox, MaxProbes, MaxRetries} \subseteq Nat \ {0}
  /\ Settings \subseteq Commands
  /\ \A prog \in Reads : prog \in Seq(Commands \ Settings)

VARIABLES
  stage,       \* of the driver: unbound, probing, bound, or one of the
               \* steps of mntsc_remove
  files,       \* how many of the device's five sysfs files exist
  screen,      \* data->backlight: "none", "made", or "failed", an ERR_PTR
  listening,   \* suspend_notifier is registered
  doing,       \* per user: the handler it is in, "none", "show", "backlight"
               \* or "gpio"
  todo,        \* per thread: the commands its handler has still to send
  level, blank,\* bl->props.brightness, and backlight_is_blank
  line,        \* external: what the consumer of a gpio line has set
  phase,       \* external: awake, prepared (userspace still runs), asleep,
               \* or stuck in the notifier
  reg,         \* external: what the SC does: light, rails, line and power
  told,        \* history: what the notifier was told last
  stored,      \* history: the backlight was changed since PM_SUSPEND_PREPARE
  arrived,     \* history: registers whose last handler's command reached the SC
  clash,       \* history: registers whose last handlers overlapped
  botched,     \* history: a probe failed after it had created a file
  oops,        \* history: a handler used a pointer that is not one
  events, lost, probes   \* bounded by MaxEvents, MaxLost and MaxProbes

driverVars == <<stage, files, screen, listening, botched, probes>>
propVars == <<level, blank, line, phase, told, stored>>
historyVars == <<arrived, clash>>
vars == <<abstractVars, driverVars, propVars, historyVars, doing, todo, reg, oops,
          events, lost>>

-----------------------------------------------------------------------------
\* What a command sets at the SC.
Sets(c) ==
  CASE c = "(set-lite 0)" -> <<"light", 0>>
    [] c = "(set-lite 1)" -> <<"light", 1>>
    [] c = "(set-lite 2)" -> <<"light", 2>>
    [] c = "(soc-susp)" -> <<"rails", 0>>
    [] c = "(soc-psus)" -> <<"rails", 1>>
    [] c = "(set-gpio 0 0)" -> <<"line", 0>>
    [] c = "(set-gpio 0 1)" -> <<"line", 1>>
    [] c = "(0p)" -> <<"power", 0>>
    [] OTHER -> <<"none", 0>>

Levels == 1..2
Registers == {"light", "rails", "line"}
SetLite(n) == IF n = 0 THEN "(set-lite 0)"
              ELSE IF n = 1 THEN "(set-lite 1)" ELSE "(set-lite 2)"
SetGpio(v) == IF v = 0 THEN "(set-gpio 0 0)" ELSE "(set-gpio 0 1)"
SetBy(prog) == {Sets(prog[k])[1] : k \in DOMAIN prog}

Bound == stage # "unbound"
Idle(t) == todo[t] = <<>> /\ t \notin busy
Free(kind) == \A t \in Users : doing[t] # kind

\* The registers that the handler of t is about to set, or is setting.
Touches(t) ==
  SetBy(todo[t]) \cup (IF t \in busy THEN {Sets(cmd[t])[1]} ELSE {})

Event == events < MaxEvents /\ events' = events + 1

\* A handler starts: what it sends is decided here.
Handle(t, prog) ==
  /\ Idle(t)
  /\ todo' = [todo EXCEPT ![t] = prog]
  /\ arrived' = arrived \ SetBy(prog)
  /\ clash' = {r \in clash \cup SetBy(prog) :
                 r \in SetBy(prog) => \E u \in Threads \ {t} : r \in Touches(u)}
  /\ UNCHANGED <<abstractVars, reg, lost>>

\* A user enters a handler; no two are in the same one of "backlight" (a lock
\* of the backlight class) and "gpio" (of the consumer).
Enter(t, kind, prog) ==
  /\ doing[t] = "none" /\ (kind # "show" => Free(kind))
  /\ doing' = [doing EXCEPT ![t] = kind]
  /\ Event
  /\ Handle(t, prog)

\* bl_update_status, with the properties that it reads.
BlUpdateStatus(l, b) == <<SetLite(IF b THEN 0 ELSE l)>>

-----------------------------------------------------------------------------
Init ==
  /\ cmd = [t \in Threads |-> "(0p)"]
  /\ AbstractInit
  /\ stage = "unbound" /\ files = 0 /\ screen = "none"
  /\ listening = FALSE
  /\ doing = [t \in Users |-> "none"]
  /\ todo = [t \in Threads |-> <<>>]
  /\ level = 2 /\ blank = FALSE /\ line = 0
  /\ phase = "awake" /\ told = "awake" /\ stored = FALSE
  /\ reg = [r \in Registers \cup {"power"} |->
              IF r = "light" THEN 2 ELSE IF r = "line" THEN 0 ELSE 1]
  /\ arrived = {} /\ clash = {}
  /\ botched = FALSE /\ oops = FALSE
  /\ events = 0 /\ lost = 0 /\ probes = 0

\* mntsc_probe, up to the driver's data.
ProbeBegins ==
  /\ stage = "unbound" /\ probes < MaxProbes
  /\ probes' = probes + 1
  /\ stage' = "probing"
  /\ UNCHANGED <<abstractVars, propVars, historyVars, files, screen, listening,
                 botched, doing, todo, reg, oops, events, lost>>

\* The next sysfs file, which may be read from now on.
CreateFile ==
  /\ stage = "probing" /\ files < 5 /\ ~botched
  /\ files' = files + 1
  /\ UNCHANGED <<abstractVars, propVars, historyVars, stage, screen, listening,
                 botched, probes, doing, todo, reg, oops, events, lost>>

\* It fails, with no more than an error code: its files stay, also while one is
\* being read, and the driver's data goes (external).  Where there is a file of
\* an earlier probe it fails with -EEXIST.
ProbeFails ==
  /\ stage = "probing"
  /\ stage' = "unbound"
  /\ botched' = (files > 0)
  /\ oops' = (oops \/ ~Free("show"))
  /\ UNCHANGED <<abstractVars, propVars, historyVars, files, screen, listening,
                 probes, doing, todo, reg, events, lost>>

\* It succeeds: battery and power-off handler are there as well.  The notifier
\* is registered where there is a backlight node, even if the creation of the
\* backlight failed; where adding the gpio chip failed nobody sets its lines.
ProbeSucceeds ==
  /\ stage = "probing" /\ files = 5 /\ ~botched
  /\ stage' = "bound"
  /\ screen' \in {"none", "made", "failed"}
  /\ listening' = (screen' # "none")
  /\ level' = 2 /\ blank' = FALSE
  /\ arrived' = {} /\ clash' = {}
  /\ UNCHANGED <<abstractVars, line, phase, told, stored, files, botched, probes,
                 doing, todo, reg, oops, events, lost>>

\* Mutant of RemoveNotifier: it stays registered.
RemoveNotifierNot ==
  /\ stage = "bound" /\ Idle(Suspender) /\ phase # "stuck"
  /\ stage' = "files"
  /\ UNCHANGED <<abstractVars, propVars, historyVars, files, screen, listening, botched, probes, doing, todo, reg, oops, events, lost>>

\* mntsc_remove: every step waits for the handlers it takes away.
RemoveNotifier ==
  /\ stage = "bound" /\ Idle(Suspender) /\ phase # "stuck"
  /\ stage' = "files" /\ listening' = FALSE
  /\ UNCHANGED <<abstractVars, propVars, historyVars, files, screen,
                 botched, probes, doing, todo, reg, oops, events, lost>>

RemoveFiles ==
  /\ stage = "files" /\ Free("show")
  /\ stage' = "release" /\ files' = 0
  /\ UNCHANGED <<abstractVars, propVars, historyVars, screen, listening,
                 botched, probes, doing, todo, reg, oops, events, lost>>

\* External: devm releases gpio chip, backlight, power-off handler, battery
\* and the driver's data.
Release ==
  /\ stage = "release"
  /\ \A t \in Users : doing[t] = "none"
  /\ Idle(Stopper)
  /\ stage' = "unbound" /\ screen' = "none"
  /\ UNCHANGED <<abstractVars, propVars, historyVars, files, listening, botched,
                 probes, doing, todo, reg, oops, events, lost>>

-----------------------------------------------------------------------------
\* brightness is written, or bl_power, or the console blanked.
SetBacklight(t, l, b) ==
  /\ <<l, b>> # <<level, blank>> /\ (l = level \/ b = blank)
  /\ screen = "made" /\ phase \in {"awake", "prepared"}
  /\ Enter(t, "backlight", BlUpdateStatus(l, b))
  /\ level' = l /\ blank' = b
  /\ stored' = TRUE
  /\ UNCHANGED <<driverVars, line, phase, told, oops>>

\* PM_SUSPEND_PREPARE of mntsc_suspend_cb.
SuspendPrepare ==
  /\ phase = "awake" /\ Idle(Suspender) /\ Idle(Stopper)
  /\ Event
  /\ phase' = "prepared"
  /\ IF listening
     THEN told' = "asleep" /\ stored' = FALSE
          /\ Handle(Suspender, <<SetLite(0), "(soc-susp)">>)
     ELSE UNCHANGED <<abstractVars, historyVars, todo, reg, lost, told, stored>>
  /\ UNCHANGED <<doing, driverVars, level, blank, line, oops>>

\* External: userspace is frozen, once no thread is inside the driver.
Freeze ==
  /\ phase = "prepared" /\ \A t \in Threads : Idle(t)
  /\ phase' = "asleep"
  /\ UNCHANGED <<abstractVars, driverVars, historyVars, level, blank, line, told,
                 stored, doing, todo, reg, oops, events, lost>>

\* Mutant of PostSuspend: the full brightness is restored.
PostSuspendFull ==
  /\ phase \in {"prepared", "asleep"} /\ Idle(Suspender)
  /\ listening /\ screen = "made"
  /\ phase' = "awake" /\ told' = "awake"
  /\ Handle(Suspender, BlUpdateStatus(2, FALSE) \o <<"(soc-psus)">>)
  /\ UNCHANGED <<doing, driverVars, level, blank, line, stored, oops, events>>

\* PM_POST_SUSPEND, also after a suspend that was given up, when userspace runs
\* again.  The backlight is used without a look at whether there is one.
PostSuspend ==
  /\ phase \in {"prepared", "asleep"} /\ Idle(Suspender)
  /\ IF ~listening
     THEN /\ phase' = "awake"
          /\ UNCHANGED <<abstractVars, historyVars, todo, reg, lost, told, oops>>
     ELSE IF screen = "failed"
     THEN /\ phase' = "stuck" /\ oops' = TRUE
          /\ UNCHANGED <<abstractVars, historyVars, todo, reg, lost, told>>
     ELSE /\ phase' = "awake" /\ told' = "awake"
          /\ Handle(Suspender, BlUpdateStatus(level, blank) \o <<"(soc-psus)">>)
          /\ UNCHANGED oops
  /\ UNCHANGED <<doing, driverVars, level, blank, line, stored, events>>

\* mntsc_gpio_set for a consumer of the line.
GpioSet(t, v) ==
  /\ stage \notin {"unbound", "probing"} /\ v # line /\ phase \in {"awake", "prepared"}
  /\ Enter(t, "gpio", <<SetGpio(v)>>)
  /\ line' = v
  /\ UNCHANGED <<driverVars, level, blank, phase, told, stored, oops>>

\* A sysfs file, or a property of the battery (until the release), is read.
Show(t, prog) ==
  /\ Bound /\ (files > 0 \/ stage = "release") /\ phase \in {"awake", "prepared"}
  /\ Enter(t, "show", prog)
  /\ UNCHANGED <<driverVars, propVars, oops>>

\* A file that a failed probe has left is read: the driver's data is NULL.
ShowUnbound ==
  /\ ~Bound /\ files > 0
  /\ oops' = TRUE
  /\ UNCHANGED <<abstractVars, driverVars, propVars, historyVars, doing, todo, reg,
                 events, lost>>

\* mntsc_power_off is called, once, and not while the machine is on its way to
\* sleep or back (external: a lock of the kernel).
PowerOff ==
  /\ stage \notin {"unbound", "probing"}
  /\ phase = "awake" /\ Idle(Suspender)
  /\ Handle(Stopper, <<"(0p)">>)
  /\ UNCHANGED <<doing, driverVars, propVars, oops, events>>

-----------------------------------------------------------------------------
\* The next sc_cmdresp_retry of a handler.
Issue(t) ==
  /\ todo[t] # <<>>
  /\ Begin(t, Head(todo[t]))
  /\ todo' = [todo EXCEPT ![t] = Tail(@)]
  /\ UNCHANGED <<driverVars, propVars, historyVars, doing, reg, oops, events, lost>>

Send(t) ==
  /\ Len(inbox) < MaxInbox
  /\ Transmit(t)
  /\ IF inbox' # inbox /\ inbox'[Len(inbox')].cmd = cmd[t]
     THEN arrived' = arrived \cup {Sets(cmd[t])[1]} /\ UNCHANGED lost
     ELSE lost < MaxLost /\ lost' = lost + 1 /\ UNCHANGED arrived
  /\ UNCHANGED <<driverVars, propVars, clash, doing, todo, reg, oops, events>>

\* Mutant of Again: the power-off handler gives up.
AgainNot(t) == {todo[t]}

\* What a handler does after a call: power-off tries again, forever; a reader
\* whose call failed returns at once; the others go on either way.
Again(t) ==
  IF t = Stopper THEN {<<"(0p)">>}
  ELSE IF t \in Users /\ doing[t] = "show" THEN {todo[t], <<>>}
  ELSE {todo[t]}

Finish(t) ==
  /\ Return(t)
  /\ \E rest \in Again(t) :
       /\ todo' = [todo EXCEPT ![t] = rest]
       /\ doing' = IF t \in Users /\ rest = <<>>
                   THEN [doing EXCEPT ![t] = "none"] ELSE doing
  /\ UNCHANGED <<driverVars, propVars, historyVars, reg, oops, events, lost>>

\* External: the SC does what the oldest command says.
Obey ==
  /\ Serve
  /\ reg' = LET s == Sets(Head(inbox).cmd)
            IN  IF s[1] = "none" THEN reg ELSE [reg EXCEPT ![s[1]] = s[2]]
  /\ UNCHANGED <<driverVars, propVars, historyVars, doing, todo, oops, events, lost>>

Next ==
  /\ reg["power"] = 1
  /\ \/ ProbeBegins \/ CreateFile \/ ProbeFails \/ ProbeSucceeds
     \/ RemoveNotifier \/ RemoveFiles \/ Release
     \/ \E t \in Users :
          \/ \E l \in Levels, b \in BOOLEAN : SetBacklight(t, l, b)
          \/ \E v \in {0, 1} : GpioSet(t, v)
          \/ \E prog \in Reads : Show(t, prog)
     \/ SuspendPrepare \/ Freeze \/ PostSuspend
     \/ ShowUnbound \/ PowerOff
     \/ \E t \in Threads : Issue(t) \/ Send(t) \/ Finish(t)
     \/ Obey

Spec == Init /\ [][Next]_vars

\* Calls return (CallReturns of ScLink), handlers go on, and the SC obeys.
Fairness ==
  /\ \A t \in Threads :
       /\ WF_vars(reg["power"] = 1 /\ Issue(t))
       /\ WF_vars(reg["power"] = 1 /\ Send(t))
       /\ WF_vars(reg["power"] = 1 /\ Finish(t))
  /\ WF_vars(reg["power"] = 1 /\ Obey)

FairSpec == Spec /\ Fairness

-----------------------------------------------------------------------------
Quiet == inbox = <<>> /\ \A t \in Threads : Idle(t)

\* What each register of the SC should hold.  A change of the backlight after
\* PM_SUSPEND_PREPARE lights the screen again, and stays so while asleep.
Wanted(r) ==
  CASE r = "light" -> IF blank \/ (told = "asleep" /\ ~stored) THEN 0 ELSE level
    [] r = "rails" -> IF told = "awake" THEN 1 ELSE 0
    [] r = "line" -> line

\* When all is quiet, light, rails and gpio line are what the driver's state
\* calls for, whatever was retried, served late or given up before: awake the
\* brightness is the one set last, also if it was set on the way to sleep;
\* provided that the last handler's command reached the SC at all, which nobody
\* checks, and that no other handler of the register ran at the same time,
\* which nothing prevents for notifier and backlight.
Settled ==
  Quiet => \A r \in arrived \cap Registers : r \notin clash => reg[r] = Wanted(r)

\* Through all orders of probe, remove, suspend and calls no handler runs, and
\* the notifier is not called, without the driver's data, except for what two
\* errors of mntsc_probe leave behind: files when it fails, and the notifier
\* when only the backlight fails.
LiveData ==
  /\ (\E t \in Threads : ~Idle(t)) \/ listening => Bound \/ oops
  /\ oops => botched \/ screen = "failed"

\* Once mntsc_power_off is called the power goes off, although transmissions
\* are lost and other threads' commands wait before its own.
PowersOff == ~Idle(Stopper) ~> reg["power"] = 0
=============================================================================
