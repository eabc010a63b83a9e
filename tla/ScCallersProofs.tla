--------------------------- MODULE ScCallersProofs ---------------------------
(***************************************************************************)
(* Theorems about ScCallers, for any users, reads, retries and bounds: the *)
(* driver's data is there whenever a handler runs (LiveData), and when all *)
(* is quiet the SC holds what was asked of it last (Settled).  The first   *)
(* needs to know who may be in a handler at which step of mntsc_probe and  *)
(* mntsc_remove (DataInv).  The second needs, of every register, that what *)
(* the handlers have still to send is what it should hold (Meant), unless  *)
(* two of them overlapped, and that so is the last command that waits for  *)
(* it at the SC or, with none waiting, its value (Fits).                   *)
(***************************************************************************)
EXTENDS ScCallers, SequenceTheorems, TLAPS

Message == [tx : Nat, cmd : Commands \cup {"garbled"}]

\* Types of what the proofs are about.
TypeInv ==
  /\ busy \subseteq Threads /\ cmd \in [Threads -> Commands]
  /\ todo \in [Threads -> Seq(Commands)]
  /\ sent \in Nat /\ inbox \in Seq(Message)
  /\ reg \in [Registers \cup {"power"} -> 0..2]
  /\ doing \in [Users -> {"none", "show", "backlight", "gpio"}]
  /\ stage \in {"unbound", "probing", "bound", "files", "release"}
  /\ files \in 0..5
  /\ phase \in {"awake", "prepared", "asleep", "stuck"}
  /\ told \in {"awake", "asleep"}
  /\ level \in Levels /\ line \in {0, 1}
  /\ {listening, blank, stored, botched, oops} \subseteq BOOLEAN

Unready == {"unbound", "probing"}

\* Who may be in a handler at which stage of the driver, and what the errors
\* of mntsc_probe leave behind.
DataInv ==
  /\ \A t \in Users : /\ ~Idle(t) => doing[t] # "none"
                      /\ doing[t] \in {"backlight", "gpio"} => stage \notin Unready
                      /\ doing[t] = "show" /\ stage = "probing" => files > 0
                      /\ doing[t] = "show" /\ stage = "unbound" => oops
  /\ ~Idle(Suspender) => listening
  /\ ~Idle(Stopper) => stage \notin Unready
  /\ listening => stage = "bound"
  /\ screen # "none" => stage \notin Unready
  /\ botched => files > 0 /\ stage \in Unready
  /\ stage = "unbound" /\ files > 0 => botched
  /\ stage = "release" => files = 0
  /\ oops => botched \/ (screen = "failed" /\ phase = "stuck" /\ stage = "bound")

RegOf(c) == Sets(c)[1]
ValOf(c) == Sets(c)[2]

\* A reader sets nothing.
ReadInv ==
  \A t \in Users : doing[t] = "show" =>
    /\ \A k \in 1..Len(todo[t]) : RegOf(todo[t][k]) \notin Registers
    /\ t \in busy => RegOf(cmd[t]) \notin Registers

\* All that the handlers still set, or are setting, is what r should hold.
Meant(r) ==
  \A t \in Threads :
    /\ \A k \in 1..Len(todo[t]) :
         RegOf(todo[t][k]) = r => ValOf(todo[t][k]) = Wanted(r)
    /\ t \in busy /\ RegOf(cmd[t]) = r => ValOf(cmd[t]) = Wanted(r)

\* The last that waits for r at the SC, or if nothing does what r holds, is
\* what r should hold.
Fits(r) ==
  /\ (\A k \in 1..Len(inbox) : RegOf(inbox[k].cmd) # r) => reg[r] = Wanted(r)
  /\ \A k \in 1..Len(inbox) :
       /\ RegOf(inbox[k].cmd) = r
       /\ \A j \in k + 1..Len(inbox) : RegOf(inbox[j].cmd) # r
       => ValOf(inbox[k].cmd) = Wanted(r)

SettleInv ==
  \A r \in Registers : r \notin clash => Meant(r) /\ (r \in arrived => Fits(r))

IInv == TypeInv /\ DataInv /\ ReadInv /\ SettleInv

-----------------------------------------------------------------------------
\* Sets, command by command.
LEMMA SetsTable ==
  /\ Sets("(set-lite 0)") = <<"light", 0>>
  /\ Sets("(set-lite 1)") = <<"light", 1>>
  /\ Sets("(set-lite 2)") = <<"light", 2>>
  /\ Sets("(soc-susp)") = <<"rails", 0>>
  /\ Sets("(soc-psus)") = <<"rails", 1>>
  /\ Sets("(set-gpio 0 0)") = <<"line", 0>>
  /\ Sets("(set-gpio 0 1)") = <<"line", 1>>
  /\ Sets("(0p)") = <<"power", 0>>
  /\ \A c : c \notin Settings => Sets(c) = <<"none", 0>>
<1>1. Sets("(set-lite 0)") = <<"light", 0>> BY Zenon DEF Sets
<1>2. Sets("(set-lite 1)") = <<"light", 1>> BY Zenon DEF Sets
<1>3. Sets("(set-lite 2)") = <<"light", 2>> BY Zenon DEF Sets
<1>4. Sets("(soc-susp)") = <<"rails", 0>> BY Zenon DEF Sets
<1>5. Sets("(soc-psus)") = <<"rails", 1>> BY Zenon DEF Sets
<1>6. Sets("(set-gpio 0 0)") = <<"line", 0>> BY Zenon DEF Sets
<1>7. Sets("(set-gpio 0 1)") = <<"line", 1>> BY Zenon DEF Sets
<1>8. Sets("(0p)") = <<"power", 0>> BY Zenon DEF Sets
<1>9. ASSUME NEW c, c \notin Settings PROVE Sets(c) = <<"none", 0>>
  BY <1>9, Zenon DEF Sets, Settings
<1> QED BY <1>1, <1>2, <1>3, <1>4, <1>5, <1>6, <1>7, <1>8, <1>9

\* The registers and values of the commands, and of those that set nothing.
LEMMA SetsFacts ==
  /\ RegOf("(set-lite 0)") = "light" /\ ValOf("(set-lite 0)") = 0
  /\ RegOf("(set-lite 1)") = "light" /\ ValOf("(set-lite 1)") = 1
  /\ RegOf("(set-lite 2)") = "light" /\ ValOf("(set-lite 2)") = 2
  /\ RegOf("(soc-susp)") = "rails" /\ ValOf("(soc-susp)") = 0
  /\ RegOf("(soc-psus)") = "rails" /\ ValOf("(soc-psus)") = 1
  /\ RegOf("(set-gpio 0 0)") = "line" /\ ValOf("(set-gpio 0 0)") = 0
  /\ RegOf("(set-gpio 0 1)") = "line" /\ ValOf("(set-gpio 0 1)") = 1
  /\ RegOf("(0p)") = "power" /\ ValOf("(0p)") = 0
  /\ \A c : c \notin Settings => RegOf(c) = "none"
  /\ RegOf("garbled") = "none"
  /\ \A c : /\ RegOf(c) \in Registers \cup {"power", "none"}
            /\ ValOf(c) \in 0..2
<1>1. ASSUME NEW c, NEW x, NEW y, Sets(c) = <<x, y>>
      PROVE  RegOf(c) = x /\ ValOf(c) = y
  BY <1>1 DEF RegOf, ValOf
<1>2. ASSUME NEW c, NEW x \in Registers \cup {"power", "none"}, NEW y \in 0..2,
             Sets(c) = <<x, y>>
      PROVE  RegOf(c) \in Registers \cup {"power", "none"} /\ ValOf(c) \in 0..2
  BY <1>1, <1>2
<1>3. "garbled" \notin Settings
  BY Zenon DEF Settings
<1>4. \A c : c \notin Settings => RegOf(c) = "none"
  BY <1>1, SetsTable, Zenon
<1>5. /\ RegOf("(set-lite 0)") = "light" /\ ValOf("(set-lite 0)") = 0
      /\ RegOf("(set-lite 1)") = "light" /\ ValOf("(set-lite 1)") = 1
      /\ RegOf("(set-lite 2)") = "light" /\ ValOf("(set-lite 2)") = 2
  BY <1>1, SetsTable, Zenon
<1>6. /\ RegOf("(soc-susp)") = "rails" /\ ValOf("(soc-susp)") = 0
      /\ RegOf("(soc-psus)") = "rails" /\ ValOf("(soc-psus)") = 1
      /\ RegOf("(set-gpio 0 0)") = "line" /\ ValOf("(set-gpio 0 0)") = 0
      /\ RegOf("(set-gpio 0 1)") = "line" /\ ValOf("(set-gpio 0 1)") = 1
      /\ RegOf("(0p)") = "power" /\ ValOf("(0p)") = 0
  BY <1>1, SetsTable, Zenon
<1>7. ASSUME NEW c
      PROVE  RegOf(c) \in Registers \cup {"power", "none"} /\ ValOf(c) \in 0..2
  <2>1. /\ 0 \in 0..2 /\ 1 \in 0..2 /\ 2 \in 0..2
        /\ {"light", "rails", "line"} \subseteq Registers
    BY DEF Registers
  <2>2. CASE c \notin Settings
    BY <1>2, <2>1, <2>2, SetsTable, Zenon
  <2>3. CASE c \in Settings
    BY <1>2, <2>1, <2>3, SetsTable, Zenon DEF Settings
  <2> QED BY <2>2, <2>3
<1> QED BY <1>3, <1>4, <1>5, <1>6, <1>7, Zenon

\* The same, without the commands that set something.
LEMMA SetsRange ==
  /\ \A c : c \notin Settings => RegOf(c) = "none"
  /\ RegOf("garbled") = "none"
  /\ \A c : /\ RegOf(c) \in Registers \cup {"power", "none"}
            /\ ValOf(c) \in 0..2
BY SetsFacts, Zenon

\* What each register should hold.
LEMMA WantedFacts ==
  /\ blank \in BOOLEAN /\ stored \in BOOLEAN =>
       Wanted("light") = IF blank \/ (told = "asleep" /\ ~stored) THEN 0 ELSE level
  /\ Wanted("rails") = IF told = "awake" THEN 1 ELSE 0
  /\ Wanted("line") = line
BY Zenon DEF Wanted

\* What is asked of the constants.
LEMMA Assumed ==
  /\ Threads = Users \cup {Suspender, Stopper}
  /\ Suspender # Stopper /\ Suspender \notin Users /\ Stopper \notin Users
  /\ Settings \subseteq Commands
  /\ \A prog \in Reads : prog \in Seq(Commands \ Settings)
BY CallersAssumption DEF CallersAssumption

\* The programs of the handlers, and what they set.
LEMMA Programs ==
  ASSUME NEW l \in Levels, NEW b \in BOOLEAN
  PROVE  /\ BlUpdateStatus(l, b) \in Seq(Settings) /\ Len(BlUpdateStatus(l, b)) = 1
         /\ RegOf(BlUpdateStatus(l, b)[1]) = "light"
         /\ ValOf(BlUpdateStatus(l, b)[1]) = IF b THEN 0 ELSE l
<1>1. 1 # 0 /\ 2 # 0 /\ 2 # 1
  OBVIOUS
<1>2. \A n \in 0..2 : SetLite(n) \in Settings /\ RegOf(SetLite(n)) = "light"
                      /\ ValOf(SetLite(n)) = n
  <2>1. /\ SetLite(0) = "(set-lite 0)" /\ SetLite(1) = "(set-lite 1)"
        /\ SetLite(2) = "(set-lite 2)"
    BY <1>1, Zenon DEF SetLite
  <2>2. \A n \in {0, 1, 2} : SetLite(n) \in Settings /\ RegOf(SetLite(n)) = "light"
                             /\ ValOf(SetLite(n)) = n
    BY <2>1, SetsFacts, Zenon DEF Settings
  <2>3. 0..2 = {0, 1, 2}
    OBVIOUS
  <2> QED BY <2>2, <2>3, Zenon
<1> DEFINE n == IF b THEN 0 ELSE l
<1>3. n \in 0..2
  BY DEF Levels
<1>4. BlUpdateStatus(l, b) = <<SetLite(n)>>
  BY DEF BlUpdateStatus
<1> HIDE DEF n
<1>5. /\ <<SetLite(n)>> \in Seq(Settings) /\ Len(<<SetLite(n)>>) = 1
      /\ <<SetLite(n)>>[1] = SetLite(n)
  BY <1>2, <1>3
<1> QED BY <1>2, <1>3, <1>4, <1>5 DEF n

\* What PM_SUSPEND_PREPARE, PM_POST_SUSPEND and mntsc_gpio_set send.
LEMMA MorePrograms ==
  /\ <<SetLite(0), "(soc-susp)">> \in Seq(Settings)
  /\ Len(<<SetLite(0), "(soc-susp)">>) = 2
  /\ RegOf(<<SetLite(0), "(soc-susp)">>[1]) = "light"
  /\ ValOf(<<SetLite(0), "(soc-susp)">>[1]) = 0
  /\ RegOf(<<SetLite(0), "(soc-susp)">>[2]) = "rails"
  /\ ValOf(<<SetLite(0), "(soc-susp)">>[2]) = 0
  /\ \A l \in Levels, b \in BOOLEAN :
       LET prog == BlUpdateStatus(l, b) \o <<"(soc-psus)">>
       IN  /\ prog \in Seq(Settings) /\ Len(prog) = 2
           /\ prog[1] = BlUpdateStatus(l, b)[1]
           /\ RegOf(prog[2]) = "rails" /\ ValOf(prog[2]) = 1
  /\ \A v \in {0, 1} : /\ SetGpio(v) \in Settings
                       /\ RegOf(SetGpio(v)) = "line" /\ ValOf(SetGpio(v)) = v
  /\ "(0p)" \in Settings
<1>1. \A S : \A x, y \in S : LET prog == <<x, y>>
                             IN  prog \in Seq(S) /\ Len(prog) = 2 /\ prog[1] = x /\ prog[2] = y
  OBVIOUS
<1>2. ASSUME NEW p \in Seq(Settings), Len(p) = 1, NEW x \in Settings
      PROVE  /\ p \o <<x>> \in Seq(Settings) /\ Len(p \o <<x>>) = 2
             /\ (p \o <<x>>)[1] = p[1] /\ (p \o <<x>>)[2] = x
  <2>1. <<x>> \in Seq(Settings) /\ Len(<<x>>) = 1 /\ <<x>>[1] = x
    OBVIOUS
  <2> QED BY <1>2, <2>1, ConcatProperties
<1>3. SetLite(0) = "(set-lite 0)"
  BY Zenon DEF SetLite
<1>4. /\ "(set-lite 0)" \in Settings /\ "(soc-susp)" \in Settings
      /\ "(soc-psus)" \in Settings /\ "(0p)" \in Settings
  BY Zenon DEF Settings
<1>5. \A v \in {0, 1} : /\ SetGpio(v) \in Settings
                       /\ RegOf(SetGpio(v)) = "line" /\ ValOf(SetGpio(v)) = v
  <2>1. 1 # 0
    OBVIOUS
  <2>2. SetGpio(0) = "(set-gpio 0 0)" /\ SetGpio(1) = "(set-gpio 0 1)"
    BY <2>1, Zenon DEF SetGpio
  <2> QED BY <2>2, SetsFacts, Zenon DEF Settings
<1>6. /\ <<SetLite(0), "(soc-susp)">> \in Seq(Settings)
      /\ Len(<<SetLite(0), "(soc-susp)">>) = 2
      /\ <<SetLite(0), "(soc-susp)">>[1] = "(set-lite 0)"
      /\ <<SetLite(0), "(soc-susp)">>[2] = "(soc-susp)"
  BY <1>1, <1>3, <1>4, Zenon
<1>7. ASSUME NEW l \in Levels, NEW b \in BOOLEAN
      PROVE  LET prog == BlUpdateStatus(l, b) \o <<"(soc-psus)">>
             IN  /\ prog \in Seq(Settings) /\ Len(prog) = 2
                 /\ prog[1] = BlUpdateStatus(l, b)[1]
                 /\ RegOf(prog[2]) = "rails" /\ ValOf(prog[2]) = 1
  BY <1>2, <1>4, Programs, SetsFacts, Zenon
<1> QED BY <1>4, <1>5, <1>6, <1>7, SetsFacts, Zenon

-----------------------------------------------------------------------------
\* Probe, remove and the handlers keep out of each other's way.
LEMMA StepData ==
  ASSUME TypeInv, DataInv, Next
  PROVE  DataInv'
<1> USE DEF TypeInv, DataInv, Unready
<1>1. CASE ProbeBegins
  BY <1>1 DEF ProbeBegins, abstractVars, propVars, Idle
<1>2. CASE CreateFile
  BY <1>2 DEF CreateFile, abstractVars, propVars, Idle
<1>3. CASE ProbeFails
  BY <1>3 DEF ProbeFails, abstractVars, propVars, Idle, Free
<1>4. CASE ProbeSucceeds
  BY <1>4 DEF ProbeSucceeds, abstractVars, Idle
<1>5. CASE RemoveNotifier
  BY <1>5 DEF RemoveNotifier, abstractVars, propVars, Idle
<1>6. CASE RemoveFiles
  BY <1>6 DEF RemoveFiles, abstractVars, propVars, Idle, Free
<1>7. CASE Release
  BY <1>7 DEF Release, abstractVars, propVars, Idle
<1>8. ASSUME NEW t \in Users, NEW kind \in {"backlight", "gpio"}, NEW prog,
             Enter(t, kind, prog), stage \notin Unready, UNCHANGED driverVars,
             UNCHANGED <<oops, phase>>
      PROVE  DataInv'
  BY <1>8, Assumed DEF Enter, Handle, abstractVars, driverVars, Idle
<1>9. ASSUME NEW t \in Users, NEW l \in Levels, NEW b \in BOOLEAN, SetBacklight(t, l, b)
      PROVE  DataInv'
  BY <1>8, <1>9 DEF SetBacklight
<1>10. ASSUME NEW t \in Users, NEW v \in {0, 1}, GpioSet(t, v)
       PROVE  DataInv'
  BY <1>8, <1>10 DEF GpioSet
<1>11. ASSUME NEW t \in Users, NEW prog \in Reads, Show(t, prog)
       PROVE  DataInv'
  BY <1>11, Assumed DEF Show, Enter, Handle, abstractVars, driverVars, propVars, Idle, Bound
<1>12. CASE SuspendPrepare
  BY <1>12, Assumed DEF SuspendPrepare, Handle, abstractVars, driverVars, Idle
<1>13. CASE Freeze
  BY <1>13 DEF Freeze, abstractVars, driverVars, Idle
<1>14. CASE PostSuspend
  BY <1>14, Assumed DEF PostSuspend, Handle, abstractVars, driverVars, Idle
<1>15. CASE ShowUnbound
  BY <1>15, Assumed DEF ShowUnbound, abstractVars, driverVars, propVars, Idle, Bound
<1>16. CASE PowerOff
  BY <1>16, Assumed DEF PowerOff, Handle, abstractVars, driverVars, propVars, Idle
<1>17. ASSUME NEW t \in Threads, Issue(t)
       PROVE  DataInv'
  BY <1>17, Assumed DEF Issue, Begin, driverVars, propVars, Idle
<1>18. ASSUME NEW t \in Threads, Send(t)
       PROVE  DataInv'
  BY <1>18, Assumed DEF Send, Transmit, driverVars, propVars, Idle
<1>19. ASSUME NEW t \in Threads, Finish(t)
       PROVE  DataInv'
  BY <1>19, Assumed DEF Finish, Return, Again, driverVars, propVars, Idle
<1>20. CASE Obey
  BY <1>20 DEF Obey, Serve, driverVars, propVars, Idle
<1> QED
  BY <1>1, <1>2, <1>3, <1>4, <1>5, <1>6, <1>7, <1>9, <1>10, <1>11, <1>12, <1>13,
     <1>14, <1>15, <1>16, <1>17, <1>18, <1>19, <1>20, Zenon DEF Next

\* What a handler that starts leaves.
LEMMA HandleTypes ==
  ASSUME TypeInv, NEW t \in Threads, NEW prog \in Seq(Commands), Handle(t, prog)
  PROVE  /\ busy' \subseteq Threads /\ cmd' \in [Threads -> Commands]
         /\ todo' \in [Threads -> Seq(Commands)]
         /\ sent' \in Nat /\ inbox' \in Seq(Message)
         /\ reg' \in [Registers \cup {"power"} -> 0..2]
BY DEF TypeInv, Handle, abstractVars

\* Every step keeps the types.
LEMMA StepType ==
  ASSUME TypeInv, Next
  PROVE  TypeInv'
<1> USE DEF TypeInv
<1>0. \A p \in Seq(Settings) : p \in Seq(Commands)
  BY Assumed
<1>1. CASE ProbeBegins
  BY <1>1 DEF ProbeBegins, abstractVars, propVars
<1>2. CASE CreateFile
  BY <1>2 DEF CreateFile, abstractVars, propVars
<1>3. CASE ProbeFails
  <2>1. (files > 0) \in BOOLEAN
    OBVIOUS
  <2>2. botched' \in BOOLEAN /\ oops' \in BOOLEAN
    BY <1>3, <2>1, Zenon DEF ProbeFails
  <2> QED BY <1>3, <2>2 DEF ProbeFails, abstractVars, propVars
<1>4. CASE ProbeSucceeds
  <2>1. listening' \in BOOLEAN /\ blank' \in BOOLEAN
    BY <1>4, Zenon DEF ProbeSucceeds
  <2> QED BY <1>4, <2>1 DEF ProbeSucceeds, abstractVars, Levels
<1>5. CASE RemoveNotifier
  BY <1>5 DEF RemoveNotifier, abstractVars, propVars
<1>6. CASE RemoveFiles
  BY <1>6 DEF RemoveFiles, abstractVars, propVars
<1>7. CASE Release
  BY <1>7 DEF Release, abstractVars, propVars
<1>9. ASSUME NEW t \in Users, NEW l \in Levels, NEW b \in BOOLEAN, SetBacklight(t, l, b)
      PROVE  TypeInv'
  <2>1. BlUpdateStatus(l, b) \in Seq(Commands) /\ t \in Threads
    BY <1>0, Programs, Assumed
  <2>2. Handle(t, BlUpdateStatus(l, b))
    BY <1>9 DEF SetBacklight, Enter
  <2> QED BY <1>9, <2>1, <2>2, HandleTypes DEF SetBacklight, Enter, driverVars
<1>10. ASSUME NEW t \in Users, NEW v \in {0, 1}, GpioSet(t, v)
       PROVE  TypeInv'
  <2>1. <<SetGpio(v)>> \in Seq(Commands) /\ t \in Threads
    BY MorePrograms, Assumed
  <2>2. Handle(t, <<SetGpio(v)>>)
    BY <1>10 DEF GpioSet, Enter
  <2> QED BY <1>10, <2>1, <2>2, HandleTypes DEF GpioSet, Enter, driverVars
<1>11. ASSUME NEW t \in Users, NEW prog \in Reads, Show(t, prog)
       PROVE  TypeInv'
  <2>1. prog \in Seq(Commands) /\ t \in Threads
    BY Assumed
  <2>2. Handle(t, prog)
    BY <1>11 DEF Show, Enter
  <2> QED BY <1>11, <2>1, <2>2, HandleTypes DEF Show, Enter, driverVars, propVars
<1>12. CASE SuspendPrepare
  <2>1. CASE listening
    <3>1. <<SetLite(0), "(soc-susp)">> \in Seq(Commands) /\ Suspender \in Threads
      BY <1>0, MorePrograms, Assumed
    <3>2. Handle(Suspender, <<SetLite(0), "(soc-susp)">>) /\ told' = "asleep" /\ stored' = FALSE
      BY <1>12, <2>1 DEF SuspendPrepare
    <3> QED BY <1>12, <3>1, <3>2, HandleTypes DEF SuspendPrepare, driverVars
  <2>2. CASE ~listening
    BY <1>12, <2>2 DEF SuspendPrepare, abstractVars, driverVars
  <2> QED BY <2>1, <2>2
<1>13. CASE Freeze
  BY <1>13 DEF Freeze, abstractVars, driverVars
<1>14. CASE PostSuspend
  <2>1. CASE listening /\ screen # "failed"
    <3> DEFINE prog == BlUpdateStatus(level, blank) \o <<"(soc-psus)">>
    <3>1. prog \in Seq(Commands) /\ Suspender \in Threads
      BY <1>0, MorePrograms, Assumed
    <3>2. Handle(Suspender, prog) /\ phase' = "awake" /\ told' = "awake" /\ oops' = oops
      BY <1>14, <2>1 DEF PostSuspend
    <3> HIDE DEF prog
    <3> QED BY <1>14, <3>1, <3>2, HandleTypes DEF PostSuspend, driverVars
  <2>2. CASE ~listening \/ screen = "failed"
    BY <1>14, <2>2 DEF PostSuspend, abstractVars, driverVars
  <2> QED BY <2>1, <2>2
<1>15. CASE ShowUnbound
  BY <1>15 DEF ShowUnbound, abstractVars, driverVars, propVars
<1>16. CASE PowerOff
  <2>1. <<"(0p)">> \in Seq(Commands) /\ Stopper \in Threads
    BY MorePrograms, Assumed
  <2>2. Handle(Stopper, <<"(0p)">>)
    BY <1>16 DEF PowerOff
  <2> QED BY <1>16, <2>1, <2>2, HandleTypes DEF PowerOff, driverVars, propVars
<1>17. ASSUME NEW t \in Threads, Issue(t)
       PROVE  TypeInv'
  BY <1>17 DEF Issue, Begin, driverVars, propVars
<1>18. ASSUME NEW t \in Threads, Send(t)
       PROVE  TypeInv'
  <2>1. inbox' \in Seq(Message)
    <3>1. CASE inbox' = inbox
      BY <3>1
    <3>2. CASE inbox' # inbox
      <4>1. PICK c \in {cmd[t], "garbled"} : inbox' = Append(inbox, Request(sent + 1, c))
        BY <1>18, <3>2 DEF Send, Transmit
      <4>2. Request(sent + 1, c) \in Message
        BY <4>1 DEF Request, Message
      <4> QED BY <4>1, <4>2
    <3> QED BY <3>1, <3>2
  <2> QED BY <1>18, <2>1 DEF Send, Transmit, driverVars, propVars
<1>19. ASSUME NEW t \in Threads, Finish(t)
       PROVE  TypeInv'
  <2>1. \A rest \in Again(t) : rest \in Seq(Commands)
    <3>1. \A c \in Commands : <<c>> \in Seq(Commands)
      OBVIOUS
    <3>2. <<>> \in Seq(Commands) /\ todo[t] \in Seq(Commands)
      OBVIOUS
    <3>3. <<"(0p)">> \in Seq(Commands)
      BY <3>1, MorePrograms, Assumed, Zenon
    <3>4. \A rest \in Again(t) : rest \in {<<"(0p)">>, todo[t], <<>>}
      BY Zenon DEF Again
    <3> QED BY <3>2, <3>3, <3>4, Zenon
  <2>2. PICK rest \in Again(t) :
          /\ todo' = [todo EXCEPT ![t] = rest]
          /\ doing' = IF t \in Users /\ rest = <<>>
                      THEN [doing EXCEPT ![t] = "none"] ELSE doing
    BY <1>19 DEF Finish
  <2> QED BY <1>19, <2>1, <2>2 DEF Finish, Return, driverVars, propVars
<1>20. CASE Obey
  <2>1. inbox' \in Seq(Message)
    BY <1>20 DEF Obey, Serve
  <2>2. reg' \in [Registers \cup {"power"} -> 0..2]
    <3> DEFINE c == Head(inbox).cmd
    <3>1. reg' = IF RegOf(c) = "none" THEN reg ELSE [reg EXCEPT ![RegOf(c)] = ValOf(c)]
      BY <1>20 DEF Obey, RegOf, ValOf
    <3>2. RegOf(c) \in Registers \cup {"power", "none"} /\ ValOf(c) \in 0..2
      BY SetsRange
    <3> HIDE DEF c
    <3> QED BY <3>1, <3>2
  <2> QED BY <1>20, <2>1, <2>2 DEF Obey, Serve, driverVars, propVars
<1> QED
  BY <1>1, <1>2, <1>3, <1>4, <1>5, <1>6, <1>7, <1>9, <1>10, <1>11, <1>12, <1>13,
     <1>14, <1>15, <1>16, <1>17, <1>18, <1>19, <1>20, Zenon DEF Next

-----------------------------------------------------------------------------
\* A reader's commands are those of Reads.
LEMMA StepRead ==
  ASSUME TypeInv, DataInv, ReadInv, Next
  PROVE  ReadInv'
<1> USE DEF TypeInv, ReadInv
<1>0. /\ "none" \notin Registers /\ "power" \notin Registers
      /\ \A u \in Users : u \in Threads
  BY Assumed DEF Registers
<1>1. ASSUME UNCHANGED <<busy, cmd, todo, doing>>
      PROVE  ReadInv'
  BY <1>1
<1>2. ASSUME NEW t \in Threads, NEW prog, Handle(t, prog),
             t \in Users => doing'[t] # "show" \/ \A k \in 1..Len(prog) : RegOf(prog[k]) = "none",
             \A u \in Users \ {t} : doing'[u] = doing[u]
      PROVE  ReadInv'
  BY <1>0, <1>2 DEF Handle, abstractVars, Idle
<1>9. ASSUME NEW t \in Users, NEW l \in Levels, NEW b \in BOOLEAN, SetBacklight(t, l, b)
      PROVE  ReadInv'
  BY <1>0, <1>2, <1>9 DEF SetBacklight, Enter
<1>10. ASSUME NEW t \in Users, NEW v \in {0, 1}, GpioSet(t, v)
       PROVE  ReadInv'
  BY <1>0, <1>2, <1>10 DEF GpioSet, Enter
<1>11. ASSUME NEW t \in Users, NEW prog \in Reads, Show(t, prog)
       PROVE  ReadInv'
  <2>1. prog \in Seq(Commands \ Settings)
    BY Assumed
  <2>2. \A k \in 1..Len(prog) : RegOf(prog[k]) = "none"
    BY <2>1, SetsRange
  <2> QED BY <1>0, <1>2, <1>11, <2>2 DEF Show, Enter
<1>12. CASE SuspendPrepare
  BY <1>1, <1>2, <1>12, Assumed DEF SuspendPrepare, abstractVars
<1>14. CASE PostSuspend
  BY <1>1, <1>2, <1>14, Assumed DEF PostSuspend, abstractVars
<1>16. CASE PowerOff
  BY <1>2, <1>16, Assumed DEF PowerOff
<1>17. ASSUME NEW t \in Threads, Issue(t)
       PROVE  ReadInv'
  <2>1. todo[t] \in Seq(Commands) /\ todo[t] # <<>>
    BY <1>17 DEF Issue
  <2>2. /\ Head(todo[t]) = todo[t][1] /\ Len(todo[t]) > 0
        /\ Len(Tail(todo[t])) = Len(todo[t]) - 1
        /\ \A k \in 1..Len(Tail(todo[t])) : Tail(todo[t])[k] = todo[t][k + 1]
    BY <2>1
  <2>3. /\ busy' = busy \cup {t} /\ cmd' = [cmd EXCEPT ![t] = Head(todo[t])]
        /\ todo' = [todo EXCEPT ![t] = Tail(@)] /\ doing' = doing
    BY <1>17 DEF Issue, Begin
  <2>4. ASSUME NEW u \in Users, doing'[u] = "show", u # t
        PROVE  /\ \A k \in 1..Len(todo'[u]) : RegOf(todo'[u][k]) \notin Registers
               /\ u \in busy' => RegOf(cmd'[u]) \notin Registers
    BY <1>0, <2>3, <2>4
  <2>5. ASSUME t \in Users, doing'[t] = "show"
        PROVE  /\ \A k \in 1..Len(todo'[t]) : RegOf(todo'[t][k]) \notin Registers
               /\ RegOf(cmd'[t]) \notin Registers
    <3>1. \A k \in 1..Len(todo[t]) : RegOf(todo[t][k]) \notin Registers
      BY <2>3, <2>5
    <3>2. todo'[t] = Tail(todo[t]) /\ cmd'[t] = todo[t][1]
      BY <2>2, <2>3
    <3> QED BY <2>1, <2>2, <3>1, <3>2
  <2> QED BY <2>4, <2>5
<1>19. ASSUME NEW t \in Threads, Finish(t)
       PROVE  ReadInv'
  <2>1. PICK rest \in Again(t) :
          /\ todo' = [todo EXCEPT ![t] = rest]
          /\ doing' = IF t \in Users /\ rest = <<>>
                      THEN [doing EXCEPT ![t] = "none"] ELSE doing
    BY <1>19 DEF Finish
  <2>2. t \in Users => rest = todo[t] \/ rest = <<>>
    BY Assumed, Zenon DEF Again
  <2> QED BY <1>0, <1>19, <2>1, <2>2 DEF Finish, Return
<1> QED
  <2> USE DEF abstractVars
  <2> HIDE DEF TypeInv, ReadInv
  <2>1. CASE ProbeBegins BY <1>1, <2>1 DEF ProbeBegins
  <2>2. CASE CreateFile BY <1>1, <2>2 DEF CreateFile
  <2>3. CASE ProbeFails BY <1>1, <2>3 DEF ProbeFails
  <2>4. CASE ProbeSucceeds BY <1>1, <2>4 DEF ProbeSucceeds
  <2>5. CASE RemoveNotifier BY <1>1, <2>5 DEF RemoveNotifier
  <2>6. CASE RemoveFiles BY <1>1, <2>6 DEF RemoveFiles
  <2>7. CASE Release BY <1>1, <2>7 DEF Release
  <2>8. CASE Freeze BY <1>1, <2>8 DEF Freeze
  <2>9. CASE ShowUnbound BY <1>1, <2>9 DEF ShowUnbound
  <2>10. CASE Obey BY <1>1, <2>10 DEF Obey, Serve
  <2>11. ASSUME NEW t \in Threads, Send(t) PROVE ReadInv'
    BY <1>1, <2>11 DEF Send, Transmit
  <2> QED
    BY <1>9, <1>10, <1>11, <1>12, <1>14, <1>16, <1>17, <1>19, <2>1, <2>2, <2>3, <2>4,
       <2>5, <2>6, <2>7, <2>8, <2>9, <2>10, <2>11, Zenon DEF Next

-----------------------------------------------------------------------------
\* What stays of SettleInv while a handler starts: the registers it sets are
\* meant as it says, unless another handler means them too.
LEMMA HandleSettles ==
  ASSUME TypeInv, SettleInv, NEW t \in Threads, NEW prog \in Seq(Commands), Handle(t, prog),
         \A r \in Registers \ SetBy(prog) : Wanted(r)' = Wanted(r),
         \A k \in 1..Len(prog) :
           RegOf(prog[k]) \in Registers => ValOf(prog[k]) = Wanted(RegOf(prog[k]))'
  PROVE  SettleInv'
<1> SUFFICES ASSUME NEW r \in Registers, r \notin clash'
             PROVE  Meant(r)' /\ (r \in arrived' => Fits(r)')
  BY DEF SettleInv
<1>1. \A p \in Seq(Commands) : r \in SetBy(p) <=> \E k \in 1..Len(p) : RegOf(p[k]) = r
  BY DEF SetBy, RegOf
<1>2. /\ t \notin busy /\ busy' = busy /\ cmd' = cmd /\ todo' = [todo EXCEPT ![t] = prog]
      /\ inbox' = inbox /\ reg' = reg
  BY DEF Handle, Idle, abstractVars
<1>3. todo'[t] = prog /\ \A u \in Threads \ {t} : todo'[u] = todo[u] /\ todo[u] \in Seq(Commands)
  BY <1>2 DEF TypeInv
<1>4. CASE r \in SetBy(prog)
  <2>1. r \notin arrived'
    BY <1>4 DEF Handle
  <2>2. \A u \in Threads \ {t} : r \notin Touches(u)
    BY <1>4 DEF Handle
  <2>3. \A u \in Threads \ {t} : /\ \A k \in 1..Len(todo[u]) : RegOf(todo[u][k]) # r
                                 /\ u \in busy => RegOf(cmd[u]) # r
    BY <1>1, <1>3, <2>2 DEF Touches, RegOf
  <2>4. Meant(r)'
    BY <1>2, <1>3, <2>3 DEF Meant
  <2> QED BY <2>1, <2>4
<1>5. CASE r \notin SetBy(prog)
  <2>1. Wanted(r)' = Wanted(r) /\ r \notin clash /\ (r \in arrived' => r \in arrived)
    BY <1>5 DEF Handle
  <2>2. Meant(r) /\ (r \in arrived => Fits(r))
    BY <2>1 DEF SettleInv
  <2>3. Meant(r)'
    <3>1. \A u \in Threads : cmd'[u] = cmd[u] /\ (u \in busy' <=> u \in busy)
      BY <1>2
    <3>2. \A k \in 1..Len(todo'[t]) : RegOf(todo'[t][k]) # r
      BY <1>1, <1>3, <1>5
    <3> QED BY <1>3, <2>1, <2>2, <3>1, <3>2 DEF Meant
  <2>4. r \in arrived' => Fits(r)'
    BY <1>2, <2>1, <2>2 DEF Fits
  <2> QED BY <2>3, <2>4
<1> QED BY <1>4, <1>5

\* What the registers should hold after a step that leaves it alone.
LEMMA WantedKept ==
  ASSUME UNCHANGED <<level, blank, line, told, stored>>
  PROVE  \A r : Wanted(r)' = Wanted(r)
BY Zenon DEF Wanted

\* mntsc_probe succeeds while no handler runs but those of readers.
LEMMA ProbeSettles ==
  ASSUME TypeInv, DataInv, ReadInv, ProbeSucceeds
  PROVE  SettleInv'
<1> SUFFICES ASSUME NEW r \in Registers
             PROVE  Meant(r)'
  BY DEF ProbeSucceeds, SettleInv
<1>1. UNCHANGED <<busy, cmd, todo>>
  BY DEF ProbeSucceeds, abstractVars
<1>2. Idle(Suspender) /\ Idle(Stopper)
  BY DEF ProbeSucceeds, DataInv, Unready
<1>3. ASSUME NEW t \in Users
      PROVE  /\ \A k \in 1..Len(todo[t]) : RegOf(todo[t][k]) # r
             /\ t \in busy => RegOf(cmd[t]) # r
  <2>1. doing[t] \in {"none", "show"}
    BY DEF ProbeSucceeds, DataInv, Unready, TypeInv
  <2>2. CASE doing[t] = "none"
    BY <2>2 DEF DataInv, Idle
  <2>3. CASE doing[t] = "show"
    BY <2>3 DEF ReadInv
  <2> QED BY <2>1, <2>2, <2>3
<1>4. \A t \in Threads : /\ \A k \in 1..Len(todo[t]) : RegOf(todo[t][k]) # r
                         /\ t \in busy => RegOf(cmd[t]) # r
  BY <1>2, <1>3, Assumed DEF Idle
<1> QED BY <1>1, <1>4 DEF Meant

\* A command that reaches the SC is the last one for its register.
LEMMA SendSettles ==
  ASSUME TypeInv, SettleInv, NEW t \in Threads, Send(t)
  PROVE  SettleInv'
<1> SUFFICES ASSUME NEW r \in Registers, r \notin clash'
             PROVE  Meant(r)' /\ (r \in arrived' => Fits(r)')
  BY DEF SettleInv
<1>1. /\ UNCHANGED <<busy, cmd, todo, reg, clash, level, blank, line, told, stored>>
      /\ t \in busy
  BY DEF Send, Transmit, driverVars, propVars
<1>2. Wanted(r)' = Wanted(r)
  BY <1>1, WantedKept
<1>3. Meant(r) /\ (r \in arrived => Fits(r))
  BY <1>1 DEF SettleInv
<1>4. Meant(r)'
  BY <1>1, <1>2, <1>3 DEF Meant
<1>5. CASE inbox' = inbox
  <2>1. arrived' = arrived
    BY <1>5 DEF Send
  <2> QED BY <1>1, <1>2, <1>3, <1>4, <1>5, <2>1 DEF Fits
<1>6. CASE inbox' # inbox
  <2>1. PICK c \in {cmd[t], "garbled"} : inbox' = Append(inbox, Request(sent + 1, c))
    BY <1>6 DEF Send, Transmit
  <2> DEFINE n == Len(inbox) + 1
  <2>2. /\ inbox \in Seq(Message) /\ Len(inbox) \in Nat /\ Len(inbox') = n
        /\ inbox'[n].cmd = c
        /\ \A k \in 1..Len(inbox) : inbox'[k] = inbox[k]
    BY <2>1 DEF TypeInv, Request
  <2>3. c = cmd[t] => arrived' = arrived \cup {RegOf(c)}
    BY <1>6, <2>2 DEF Send, RegOf
  <2>4. c # cmd[t] => arrived' = arrived
    BY <1>6, <2>2 DEF Send
  <2>5. RegOf(c) = r => c = cmd[t]
    BY SetsRange DEF Registers
  <2>6. RegOf(c) = r => ValOf(c) = Wanted(r)
    BY <1>1, <1>3, <2>5 DEF Meant
  <2> HIDE DEF n
  <2>7. CASE RegOf(c) = r
    <3>1. n \in 1..Len(inbox')
      BY <2>2 DEF n
    <3>2. \A k \in 1..Len(inbox') : k # n => n \in k + 1..Len(inbox')
      BY <2>2 DEF n
    <3> QED BY <1>2, <1>4, <2>2, <2>6, <2>7, <3>1, <3>2 DEF Fits
  <2>8. CASE RegOf(c) # r
    <3>1. r \in arrived' => Fits(r)
      BY <1>3, <2>3, <2>4, <2>8
    <3>2. \A k \in 1..Len(inbox') : RegOf(inbox'[k].cmd) = r =>
            k \in 1..Len(inbox) /\ inbox'[k] = inbox[k]
      BY <2>2, <2>8 DEF n
    <3>3. \A k \in 1..Len(inbox) : k \in 1..Len(inbox') /\ inbox'[k] = inbox[k]
      BY <2>2 DEF n
    <3>4. \A k \in 1..Len(inbox) : \A j \in k + 1..Len(inbox) :
            j \in k + 1..Len(inbox') /\ inbox'[j] = inbox[j]
      BY <2>2 DEF n
    <3>5. Fits(r) => Fits(r)'
      BY <1>1, <1>2, <3>2, <3>3, <3>4 DEF Fits
    <3> QED BY <1>4, <3>1, <3>5
  <2> QED BY <2>7, <2>8
<1> QED BY <1>5, <1>6

\* The SC takes the oldest command, and its register holds what it says.
LEMMA ObeySettles ==
  ASSUME TypeInv, SettleInv, Obey
  PROVE  SettleInv'
<1> SUFFICES ASSUME NEW r \in Registers, r \notin clash'
             PROVE  Meant(r)' /\ (r \in arrived' => Fits(r)')
  BY DEF SettleInv
<1>1. UNCHANGED <<busy, cmd, todo, arrived, clash, level, blank, line, told, stored>>
  BY DEF Obey, Serve, driverVars, propVars, historyVars
<1>2. Wanted(r)' = Wanted(r)
  BY <1>1, WantedKept
<1>3. Meant(r) /\ (r \in arrived => Fits(r))
  BY <1>1 DEF SettleInv
<1>4. Meant(r)'
  BY <1>1, <1>2, <1>3 DEF Meant
<1> DEFINE c == inbox[1].cmd
<1>5. /\ inbox \in Seq(Message) /\ inbox # <<>> /\ inbox' = Tail(inbox)
  BY DEF TypeInv, Obey, Serve
<1>6. /\ Len(inbox) \in Nat /\ Len(inbox) > 0 /\ Len(inbox') = Len(inbox) - 1
      /\ \A k \in 1..Len(inbox') : inbox'[k] = inbox[k + 1]
      /\ Head(inbox) = inbox[1]
  BY <1>5
<1>7. reg' = IF RegOf(c) = "none" THEN reg ELSE [reg EXCEPT ![RegOf(c)] = ValOf(c)]
  BY <1>6 DEF Obey, RegOf, ValOf
<1>8. reg'[r] = IF RegOf(c) = r THEN ValOf(c) ELSE reg[r]
  BY <1>7 DEF TypeInv, Registers
<1> HIDE DEF c
<1>9. ASSUME Fits(r), \A k \in 1..Len(inbox') : RegOf(inbox'[k].cmd) # r
      PROVE  reg'[r] = Wanted(r)
  <2>1. \A k \in 1..Len(inbox) : k # 1 => k - 1 \in 1..Len(inbox') /\ inbox[k] = inbox'[k - 1]
    BY <1>6
  <2>2. \A k \in 1..Len(inbox) : k # 1 => RegOf(inbox[k].cmd) # r
    BY <1>9, <2>1
  <2>3. CASE RegOf(c) = r
    <3>1. \A j \in 1 + 1..Len(inbox) : RegOf(inbox[j].cmd) # r
      BY <1>6, <2>2
    <3>2. 1 \in 1..Len(inbox)
      BY <1>6
    <3> QED BY <1>8, <1>9, <2>3, <3>1, <3>2 DEF Fits, c
  <2>4. CASE RegOf(c) # r
    BY <1>6, <1>8, <1>9, <2>2, <2>4 DEF Fits, c
  <2> QED BY <2>3, <2>4
<1>10. ASSUME Fits(r), NEW k \in 1..Len(inbox'), RegOf(inbox'[k].cmd) = r,
              \A j \in k + 1..Len(inbox') : RegOf(inbox'[j].cmd) # r
       PROVE  ValOf(inbox'[k].cmd) = Wanted(r)
  <2>1. k + 1 \in 1..Len(inbox) /\ inbox'[k] = inbox[k + 1]
    BY <1>6
  <2>2. \A j \in (k + 1) + 1..Len(inbox) : j - 1 \in k + 1..Len(inbox') /\ inbox[j] = inbox'[j - 1]
    BY <1>6
  <2>3. \A j \in (k + 1) + 1..Len(inbox) : RegOf(inbox[j].cmd) # r
    BY <1>10, <2>2
  <2> QED BY <1>10, <2>1, <2>3 DEF Fits
<1>11. Fits(r) => Fits(r)'
  BY <1>2, <1>9, <1>10 DEF Fits
<1> QED BY <1>1, <1>3, <1>4, <1>11

\* No step makes a register settle at what was not asked.
LEMMA StepSettle ==
  ASSUME TypeInv, DataInv, ReadInv, SettleInv, Next
  PROVE  SettleInv'
<1>0. \A p \in Seq(Settings) : p \in Seq(Commands)
  BY Assumed
<1>1. ASSUME UNCHANGED <<busy, cmd, todo, inbox, reg, arrived, clash>>,
             UNCHANGED <<level, blank, line, told, stored>>
      PROVE  SettleInv'
  <2> SUFFICES ASSUME NEW r \in Registers, r \notin clash'
               PROVE  Meant(r)' /\ (r \in arrived' => Fits(r)')
    BY DEF SettleInv
  <2>1. Meant(r) /\ (r \in arrived => Fits(r)) /\ Wanted(r)' = Wanted(r)
    BY <1>1, WantedKept DEF SettleInv
  <2> QED BY <1>1, <2>1 DEF Meant, Fits
<1>2. \A p \in Seq(Commands) : \A k \in 1..Len(p) : RegOf(p[k]) \in SetBy(p)
  BY DEF SetBy, RegOf
<1>9. ASSUME NEW t \in Users, NEW l \in Levels, NEW b \in BOOLEAN, SetBacklight(t, l, b)
      PROVE  SettleInv'
  <2> DEFINE prog == BlUpdateStatus(l, b)
  <2>1. prog \in Seq(Commands) /\ t \in Threads /\ Handle(t, prog)
    BY <1>0, <1>9, Programs, Assumed DEF SetBacklight, Enter
  <2>2. Len(prog) = 1 /\ RegOf(prog[1]) = "light" /\ ValOf(prog[1]) = IF b THEN 0 ELSE l
    BY Programs
  <2> HIDE DEF prog
  <2>3. Wanted("light")' = IF b THEN 0 ELSE l
    BY <1>9, Zenon DEF SetBacklight, Wanted
  <2>4. Wanted("rails")' = Wanted("rails") /\ Wanted("line")' = Wanted("line")
    BY <1>9, Zenon DEF SetBacklight, Wanted
  <2>5. "light" \in SetBy(prog)
    BY <1>2, <2>1, <2>2
  <2> QED BY <2>1, <2>2, <2>3, <2>4, <2>5, HandleSettles DEF Registers
<1>10. ASSUME NEW t \in Users, NEW v \in {0, 1}, GpioSet(t, v)
       PROVE  SettleInv'
  <2> DEFINE prog == <<SetGpio(v)>>
  <2>1. prog \in Seq(Commands) /\ t \in Threads /\ Handle(t, prog)
    BY <1>10, MorePrograms, Assumed DEF GpioSet, Enter
  <2>2. Len(prog) = 1 /\ RegOf(prog[1]) = "line" /\ ValOf(prog[1]) = v
    <3>1. Len(prog) = 1 /\ prog[1] = SetGpio(v)
      OBVIOUS
    <3> QED BY <3>1, MorePrograms, Zenon
  <2> HIDE DEF prog
  <2>3. Wanted("line")' = v
    BY <1>10, Zenon DEF GpioSet, Wanted
  <2>4. Wanted("rails")' = Wanted("rails") /\ Wanted("light")' = Wanted("light")
    BY <1>10, Zenon DEF GpioSet, Wanted
  <2>5. "line" \in SetBy(prog)
    BY <1>2, <2>1, <2>2
  <2> QED BY <2>1, <2>2, <2>3, <2>4, <2>5, HandleSettles DEF Registers
<1>11. ASSUME NEW t \in Users, NEW prog \in Reads, Show(t, prog)
       PROVE  SettleInv'
  <2>1. prog \in Seq(Commands \ Settings) /\ prog \in Seq(Commands)
    BY Assumed
  <2>2. \A k \in 1..Len(prog) : RegOf(prog[k]) \notin Registers
    BY <2>1, SetsRange DEF Registers
  <2>3. \A r : Wanted(r)' = Wanted(r)
    BY <1>11, WantedKept DEF Show, propVars
  <2>4. t \in Threads /\ Handle(t, prog)
    BY <1>11, Assumed DEF Show, Enter
  <2> QED BY <2>1, <2>2, <2>3, <2>4, HandleSettles
<1>12. CASE SuspendPrepare
  <2>1. CASE listening
    <3> DEFINE prog == <<SetLite(0), "(soc-susp)">>
    <3>1. prog \in Seq(Commands) /\ Suspender \in Threads
      BY <1>0, MorePrograms, Assumed
    <3>2. /\ Handle(Suspender, prog) /\ told' = "asleep" /\ stored' = FALSE
          /\ level' = level /\ blank' = blank /\ line' = line
      BY <1>12, <2>1 DEF SuspendPrepare
    <3>3. /\ Len(prog) = 2
          /\ RegOf(prog[1]) = "light" /\ ValOf(prog[1]) = 0
          /\ RegOf(prog[2]) = "rails" /\ ValOf(prog[2]) = 0
      BY MorePrograms, Zenon
    <3> HIDE DEF prog
    <3>4. Wanted("light")' = 0 /\ Wanted("rails")' = 0 /\ Wanted("line")' = Wanted("line")
      <4>1. "asleep" # "awake"
        OBVIOUS
      <4> QED BY <3>2, <4>1, Zenon DEF Wanted
    <3>5. {"light", "rails"} \subseteq SetBy(prog)
      BY <1>2, <3>1, <3>3
    <3> QED BY <3>1, <3>2, <3>3, <3>4, <3>5, HandleSettles DEF Registers
  <2>2. CASE ~listening
    BY <1>1, <1>12, <2>2 DEF SuspendPrepare, abstractVars, historyVars
  <2> QED BY <2>1, <2>2
<1>14. CASE PostSuspend
  <2>1. CASE listening /\ screen # "failed"
    <3> DEFINE prog == BlUpdateStatus(level, blank) \o <<"(soc-psus)">>
    <3>0. level \in Levels /\ blank \in BOOLEAN
      BY DEF TypeInv
    <3>1. prog \in Seq(Commands) /\ Suspender \in Threads
      BY <1>0, <3>0, MorePrograms, Assumed
    <3>2. /\ Handle(Suspender, prog) /\ told' = "awake"
          /\ level' = level /\ blank' = blank /\ line' = line
      BY <1>14, <2>1 DEF PostSuspend
    <3>3. /\ Len(prog) = 2
          /\ RegOf(prog[1]) = "light" /\ ValOf(prog[1]) = IF blank THEN 0 ELSE level
          /\ RegOf(prog[2]) = "rails" /\ ValOf(prog[2]) = 1
      <4>1. /\ Len(prog) = 2 /\ prog[1] = BlUpdateStatus(level, blank)[1]
            /\ RegOf(prog[2]) = "rails" /\ ValOf(prog[2]) = 1
        BY <3>0, MorePrograms, Zenon
      <4> HIDE DEF prog
      <4> QED BY <3>0, <4>1, Programs
    <3> HIDE DEF prog
    <3>4. /\ Wanted("light")' = IF blank THEN 0 ELSE level
          /\ Wanted("rails")' = 1 /\ Wanted("line")' = Wanted("line")
      <4>1. "asleep" # "awake"
        OBVIOUS
      <4> QED BY <3>2, <4>1, Zenon DEF Wanted
    <3>5. {"light", "rails"} \subseteq SetBy(prog)
      BY <1>2, <3>1, <3>3
    <3> QED BY <3>1, <3>2, <3>3, <3>4, <3>5, HandleSettles DEF Registers
  <2>2. CASE ~listening \/ screen = "failed"
    BY <1>1, <1>14, <2>2 DEF PostSuspend, abstractVars, historyVars
  <2> QED BY <2>1, <2>2
<1>16. CASE PowerOff
  <2> DEFINE prog == <<"(0p)">>
  <2>1. prog \in Seq(Commands) /\ Stopper \in Threads /\ Handle(Stopper, prog)
    BY <1>16, MorePrograms, Assumed DEF PowerOff
  <2>2. Len(prog) = 1 /\ RegOf(prog[1]) = "power"
    <3>1. \A c : Len(<<c>>) = 1 /\ <<c>>[1] = c
      OBVIOUS
    <3> QED BY <3>1, SetsFacts, Zenon
  <2> HIDE DEF prog
  <2>3. \A r : Wanted(r)' = Wanted(r)
    BY <1>16, WantedKept DEF PowerOff, propVars
  <2> QED BY <2>1, <2>2, <2>3, HandleSettles DEF Registers
<1>17. ASSUME NEW t \in Threads, Issue(t)
       PROVE  SettleInv'
  <2> SUFFICES ASSUME NEW r \in Registers, r \notin clash'
               PROVE  Meant(r)' /\ (r \in arrived' => Fits(r)')
    BY DEF SettleInv
  <2>1. /\ busy' = busy \cup {t} /\ cmd' = [cmd EXCEPT ![t] = Head(todo[t])]
        /\ todo' = [todo EXCEPT ![t] = Tail(@)]
        /\ UNCHANGED <<inbox, reg, arrived, clash, level, blank, line, told, stored>>
    BY <1>17 DEF Issue, Begin, propVars, historyVars
  <2>2. Meant(r) /\ (r \in arrived => Fits(r)) /\ Wanted(r)' = Wanted(r)
    BY <2>1, WantedKept DEF SettleInv
  <2>3. todo[t] \in Seq(Commands) /\ todo[t] # <<>>
    BY <1>17 DEF Issue, TypeInv
  <2>4. /\ Head(todo[t]) = todo[t][1] /\ 1 \in 1..Len(todo[t])
        /\ Tail(todo[t]) \in Seq(Commands)
        /\ \A k \in 1..Len(Tail(todo[t])) : /\ k + 1 \in 1..Len(todo[t])
                                           /\ Tail(todo[t])[k] = todo[t][k + 1]
    BY <2>3
  <2>5. /\ cmd'[t] = todo[t][1] /\ todo'[t] = Tail(todo[t])
        /\ \A u \in Threads \ {t} : cmd'[u] = cmd[u] /\ todo'[u] = todo[u]
    BY <2>1, <2>4 DEF TypeInv
  <2>6. Meant(r)'
    BY <2>1, <2>2, <2>4, <2>5 DEF Meant
  <2> QED BY <2>1, <2>2, <2>6 DEF Fits
<1>19. ASSUME NEW t \in Threads, Finish(t)
       PROVE  SettleInv'
  <2> SUFFICES ASSUME NEW r \in Registers, r \notin clash'
               PROVE  Meant(r)' /\ (r \in arrived' => Fits(r)')
    BY DEF SettleInv
  <2>1. PICK rest \in Again(t) : todo' = [todo EXCEPT ![t] = rest]
    BY <1>19 DEF Finish
  <2>2. /\ busy' = busy \ {t}
        /\ UNCHANGED <<cmd, inbox, reg, arrived, clash, level, blank, line, told, stored>>
    BY <1>19 DEF Finish, Return, propVars, historyVars
  <2>3. Meant(r) /\ (r \in arrived => Fits(r)) /\ Wanted(r)' = Wanted(r)
    BY <2>2, WantedKept DEF SettleInv
  <2>4. rest \in {<<"(0p)">>, todo[t], <<>>}
    BY <2>1, Zenon DEF Again
  <2>5. \A k \in 1..Len(rest) : RegOf(rest[k]) = r => ValOf(rest[k]) = Wanted(r)
    <3>1. CASE rest = <<"(0p)">>
      <4>1. \A c : Len(<<c>>) = 1 /\ <<c>>[1] = c
        OBVIOUS
      <4>2. Len(rest) = 1 /\ RegOf(rest[1]) = "power"
        BY <3>1, <4>1, SetsFacts, Zenon
      <4> HIDE <3>1
      <4> QED BY <4>2 DEF Registers
    <3>2. CASE rest = todo[t]
      BY <2>3, <3>2 DEF Meant
    <3>3. CASE rest = <<>>
      BY <3>3
    <3> QED BY <2>4, <3>1, <3>2, <3>3, Zenon
  <2>6. todo'[t] = rest /\ \A u \in Threads \ {t} : todo'[u] = todo[u]
    BY <2>1 DEF TypeInv
  <2>7. Meant(r)'
    BY <2>2, <2>3, <2>5, <2>6 DEF Meant
  <2> QED BY <2>2, <2>3, <2>7 DEF Fits
<1> QED
  <2>1. CASE ProbeBegins
    BY <1>1, <2>1 DEF ProbeBegins, abstractVars, propVars, historyVars
  <2>2. CASE CreateFile
    BY <1>1, <2>2 DEF CreateFile, abstractVars, propVars, historyVars
  <2>3. CASE ProbeFails
    BY <1>1, <2>3 DEF ProbeFails, abstractVars, propVars, historyVars
  <2>5. CASE RemoveNotifier
    BY <1>1, <2>5 DEF RemoveNotifier, abstractVars, propVars, historyVars
  <2>6. CASE RemoveFiles
    BY <1>1, <2>6 DEF RemoveFiles, abstractVars, propVars, historyVars
  <2>7. CASE Release
    BY <1>1, <2>7 DEF Release, abstractVars, propVars, historyVars
  <2>8. CASE Freeze
    BY <1>1, <2>8 DEF Freeze, abstractVars, historyVars
  <2>9. CASE ShowUnbound
    BY <1>1, <2>9 DEF ShowUnbound, abstractVars, propVars, historyVars
  <2> QED
    BY <1>9, <1>10, <1>11, <1>12, <1>14, <1>16, <1>17, <1>19, <2>1, <2>2, <2>3,
       <2>5, <2>6, <2>7, <2>8, <2>9, ProbeSettles, SendSettles, ObeySettles,
       Zenon DEF Next

-----------------------------------------------------------------------------
\* No thread is in a handler when the module is loaded.
LEMMA InitIInv == Init => IInv
<1> SUFFICES ASSUME Init PROVE IInv
  OBVIOUS
<1>1. cmd \in [Threads -> Commands]
  BY Assumed, MorePrograms, Zenon DEF Init, AbstractInit
<1>2. TypeInv
  <2>1. reg \in [Registers \cup {"power"} -> 0..2]
    BY DEF Init
  <2>2. 2 \in Levels
    BY DEF Levels
  <2>3. /\ busy \subseteq Threads /\ todo \in [Threads -> Seq(Commands)]
        /\ sent \in Nat /\ inbox \in Seq(Message)
        /\ doing \in [Users -> {"none", "show", "backlight", "gpio"}]
    BY DEF Init, AbstractInit
  <2>4. /\ stage = "unbound" /\ files \in 0..5 /\ phase = "awake" /\ told = "awake"
        /\ level \in Levels /\ line \in {0, 1}
    BY <2>2 DEF Init
  <2>5. {listening, blank, stored, botched, oops} \subseteq BOOLEAN
    BY Zenon DEF Init
  <2> QED BY <1>1, <2>1, <2>3, <2>4, <2>5 DEF TypeInv
<1>3. DataInv
  BY Assumed DEF Init, AbstractInit, DataInv, Idle, Unready
<1>4. ReadInv
  BY DEF Init, AbstractInit, ReadInv
<1>5. SettleInv
  BY DEF Init, AbstractInit, SettleInv, Meant
<1> QED BY <1>2, <1>3, <1>4, <1>5 DEF IInv

\* Every step keeps the invariant.
LEMMA StepIInv == IInv /\ [Next]_vars => IInv'
<1>1. IInv /\ Next => IInv'
  BY StepType, StepData, StepRead, StepSettle DEF IInv
<1>2. ASSUME IInv, UNCHANGED vars
      PROVE  IInv'
  <2>1. UNCHANGED <<busy, cmd, tries, sent, inbox, given, newest, taken, stage, files,
                    screen, listening, botched, probes>>
    BY <1>2 DEF vars, abstractVars, driverVars
  <2>2. UNCHANGED <<level, blank, line, phase, told, stored, arrived, clash,
                    doing, todo, reg, oops, events, lost>>
    BY <1>2 DEF vars, propVars, historyVars
  <2>3. TypeInv'
    BY <1>2, <2>1, <2>2 DEF IInv, TypeInv
  <2>4. DataInv'
    BY <1>2, <2>1, <2>2 DEF IInv, DataInv, Idle
  <2>5. ReadInv'
    BY <1>2, <2>1, <2>2 DEF IInv, ReadInv
  <2>6. SettleInv'
    <3> SUFFICES ASSUME NEW r \in Registers, r \notin clash'
                 PROVE  Meant(r)' /\ (r \in arrived' => Fits(r)')
      BY DEF SettleInv
    <3>1. Meant(r) /\ (r \in arrived => Fits(r)) /\ Wanted(r)' = Wanted(r)
      BY <1>2, <2>2, WantedKept DEF IInv, SettleInv
    <3> QED BY <2>1, <2>2, <3>1 DEF Meant, Fits
  <2> QED BY <2>3, <2>4, <2>5, <2>6 DEF IInv
<1> QED BY <1>1, <1>2

\* The invariant holds in every state the driver and its callers can reach.
THEOREM Invariant == Spec => []IInv
<1> QED BY InitIInv, StepIInv, PTL DEF Spec

\* No handler runs, and the notifier is not called, without the driver's data,
\* except for what the two errors of mntsc_probe leave behind.
THEOREM DataLives == Spec => []LiveData
<1>1. IInv => LiveData
  <2> SUFFICES ASSUME IInv PROVE LiveData
    OBVIOUS
  <2>1. ASSUME NEW t \in Threads, ~Idle(t)
        PROVE  Bound \/ oops
    <3>1. CASE t \in Users
      BY <2>1, <3>1 DEF IInv, TypeInv, DataInv, Bound, Unready
    <3>2. CASE t \in {Suspender, Stopper}
      BY <2>1, <3>2 DEF IInv, DataInv, Bound, Unready
    <3> QED BY <3>1, <3>2, Assumed
  <2> QED BY <2>1 DEF IInv, DataInv, LiveData, Bound
<1> QED BY <1>1, Invariant, PTL

\* When all is quiet, light, rails and gpio line at the SC are what was asked
\* of the driver last, whatever was retried, served late or given up before.
THEOREM SettlesAsAsked == Spec => []Settled
<1>1. IInv => Settled
  <2> SUFFICES ASSUME IInv, Quiet, NEW r \in arrived \cap Registers, r \notin clash
               PROVE  reg[r] = Wanted(r)
    BY DEF Settled
  <2>1. Fits(r) /\ inbox = <<>>
    BY DEF IInv, SettleInv, Quiet
  <2> QED BY <2>1 DEF Fits
<1> QED BY <1>1, Invariant, PTL
=============================================================================
