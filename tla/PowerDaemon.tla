---------------------------- MODULE PowerDaemon ----------------------------
(***************************************************************************)
(* libexec/reform-tools/reform-power-daemon and its systemd unit: a loop   *)
(* that reads the status and the capacity of the battery one after the     *)
(* other, decides between a high and a low power state with hysteresis,    *)
(* and on a change writes the GPU, CPU and SSD settings one by one without *)
(* looking at the results.  The settings outlive the daemon; what it       *)
(* remembers of them does not.                                             *)
(***************************************************************************)
EXTENDS Integers, Sequences, FiniteSets, SequencesExt

CONSTANTS
  Capacities,  \* percentages the battery reports
  Statuses,    \* what the battery reports as its status
  Nvmes,       \* SSDs: what the glob /dev/nvme? matches
  Nvme0,       \* /dev/nvme0, one of them
  MaxFaults    \* bound on failing reads and writes and on kills

AcMin == 50    \* ac_min_capacity
BatFull == 80  \* bat_full_capacity

ASSUME PowerAssumption ==
  /\ Capacities \subseteq 0..100
  /\ {"Charging", "Not charging", "Discharging"} \subseteq Statuses
  /\ Nvme0 \in Nvmes /\ IsFiniteSet(Nvmes)
  /\ MaxFaults \in Nat

VARIABLES
  bat,         \* external: the battery, [status, capacity]
  loaded,      \* external: reform2_lpc is loaded
  nvmeTool,    \* the nvme tool is installed
  settings,    \* the mode each setting was last written for, or "boot"
  pc,          \* where the daemon is; "down": systemd will restart it, "gone":
               \* it ended in a way the unit takes for intended, and stays away
  reading,     \* bat_status and bat_capacity
  state,       \* power_state
  prev,        \* prev_power_state
  todo,        \* settings still to write, <<>> outside an application
  failed,      \* history: settings whose write failed in the last application
  round,       \* history: what held of the battery since the loop's last sleep
  faults       \* faults so far, bounded by MaxFaults

envVars == <<bat, loaded>>
vars == <<bat, loaded, nvmeTool, settings, pc, reading, state, prev, todo,
          failed, round, faults>>

Running == {"sleep", "capacity", "write"}

\* Settings both modes write (min_freq, the same in both, is left out).
Governors == {"gpu_governor", "gpu_max_freq", "policy0", "policy4", "policy6"}
Knobs == Governors \cup Nvmes

Fault == faults < MaxFaults /\ faults' = faults + 1

-----------------------------------------------------------------------------
Init ==
  /\ bat \in [status : Statuses, capacity : Capacities]
  /\ loaded \in BOOLEAN
  /\ nvmeTool \in BOOLEAN
  /\ settings = [k \in Knobs |-> "boot"]
  /\ pc = "start"
  /\ reading = bat
  /\ state = "" /\ prev = ""
  /\ todo = <<>>
  /\ failed = {}
  /\ round = [discharging |-> FALSE, under |-> FALSE]
  /\ faults = 0

\* The checks before the loop.  A missing module exits with 2, which the unit
\* never restarts; a failing jq exits with another status (of a failing
\* reform-mcu-tool in the same pipe nothing is seen).
Preflight ==
  /\ pc = "start"
  /\ state' = "" /\ prev' = "" /\ todo' = <<>>
  /\ \/ /\ ~loaded
        /\ pc' = "gone"
        /\ UNCHANGED faults
     \/ /\ loaded
        /\ pc' = "sleep"
        /\ UNCHANGED faults
     \/ /\ loaded
        /\ pc' = "down"
        /\ Fault
  /\ round' = [discharging |-> FALSE, under |-> FALSE]
  /\ UNCHANGED <<envVars, nvmeTool, settings, reading, failed>>

\* Mutant of Restart: the unit does not restart the daemon.
RestartNever == FALSE /\ UNCHANGED vars

\* systemd: Restart=on-failure after RestartSec, which keeps clear of the limit
\* on the rate of starts.
Restart ==
  /\ pc = "down"
  /\ pc' = "start"
  /\ UNCHANGED <<envVars, nvmeTool, settings, reading, state, prev, todo,
                 failed, round, faults>>

\* cat of a sysfs file fails, and set -e ends the daemon.
ReadFails ==
  /\ pc \in {"sleep", "capacity"}
  /\ pc' = "down"
  /\ IF loaded THEN Fault ELSE UNCHANGED faults
  /\ UNCHANGED <<envVars, nvmeTool, settings, reading, state, prev, todo,
                 failed, round>>

\* The daemon is killed by a signal, anywhere.  It has no traps, and for
\* Restart=on-failure HUP, INT, TERM and PIPE are clean ends.
Kill ==
  /\ pc \in Running \cup {"start"}
  /\ pc' \in {"down", "gone"}
  /\ Fault
  /\ UNCHANGED <<envVars, nvmeTool, settings, reading, state, prev, todo,
                 failed, round>>

\* The sleep in the condition of the loop fails (it is killed, no process is
\* left): the loop is over and the script ends with status 0.
SleepFails ==
  /\ pc = "sleep"
  /\ pc' = "gone"
  /\ Fault
  /\ UNCHANGED <<envVars, nvmeTool, settings, reading, state, prev, todo,
                 failed, round>>

\* The loop wakes up and reads the status.
ReadStatus ==
  /\ pc = "sleep" /\ loaded
  /\ pc' = "capacity"
  /\ reading' = [reading EXCEPT !.status = bat.status]
  /\ round' = [discharging |-> bat.status = "Discharging",
               under |-> bat.capacity < AcMin]
  /\ UNCHANGED <<envVars, nvmeTool, settings, state, prev, todo, failed,
                 faults>>

CallsLow(r) == r.status = "Discharging" \/ r.capacity < AcMin
CallsHigh(r) ==
  \/ r.status = "Charging" /\ r.capacity >= AcMin
  \/ r.status = "Not charging" /\ r.capacity >= BatFull

\* Mutant of Decide: && instead of || in the rule for the low state.
DecideLowNeedsBoth(r) ==
  CASE r.status = "Discharging" /\ r.capacity < AcMin -> "low"
    [] CallsHigh(r) -> "high"
    [] OTHER -> state

\* Otherwise the power state stays: hysteresis, or a status the rules ignore.
Decide(r) ==
  CASE CallsLow(r) -> "low"
    [] CallsHigh(r) -> "high"
    [] OTHER -> state


CommonWrites ==
  <<"gpu_governor", "gpu_max_freq", "policy0", "policy4", "policy6">>

\* The SSDs come in the order of the glob: any order.
WritesHigh ==
  IF nvmeTool THEN {CommonWrites \o s : s \in SetToSeqs(Nvmes)} ELSE {CommonWrites}

\* The loop over the SSDs names /dev/nvme0 in every round.
WritesLow == {CommonWrites \o [i \in 1..Cardinality(Nvmes) |-> Nvme0]}

\* The capacity is read and the power state decided; unchanged, back to sleep.
ReadCapacity ==
  /\ pc = "capacity" /\ loaded
  /\ reading' = [reading EXCEPT !.capacity = bat.capacity]
  /\ state' = Decide(reading')
  /\ IF state' = prev
     THEN pc' = "sleep" /\ UNCHANGED <<todo, failed>>
     ELSE /\ pc' = "write"
          /\ failed' = {}
          /\ todo' \in IF state' = "high" THEN WritesHigh ELSE WritesLow
  /\ UNCHANGED <<envVars, nvmeTool, settings, prev, round, faults>>

\* Mutant of Write: the state is recorded before everything is written.
WriteRecordsEarly ==
  /\ pc = "write"
  /\ settings' = [settings EXCEPT ![Head(todo)] = state]
  /\ todo' = <<>> /\ pc' = "sleep" /\ prev' = state
  /\ UNCHANGED <<envVars, nvmeTool, reading, state, failed, round, faults>>

\* Mutant of Write: the status is recorded instead of the power state.
WriteRecordsStatus ==
  /\ pc = "write"
  /\ settings' = [settings EXCEPT ![Head(todo)] = state]
  /\ todo' = Tail(todo)
  /\ IF todo' = <<>>
     THEN pc' = "sleep" /\ prev' = reading.status
     ELSE UNCHANGED <<pc, prev>>
  /\ UNCHANGED <<envVars, nvmeTool, reading, state, failed, round, faults>>

\* One setting is written, or not (set +e); after the last one the new state
\* is recorded, whatever failed.
Write ==
  /\ pc = "write"
  /\ LET k == Head(todo)
     IN  \/ /\ k \in Nvmes => nvmeTool
            /\ settings' = [settings EXCEPT ![k] = state]
            /\ failed' = failed \ {k}
            /\ UNCHANGED faults
         \/ /\ k \in Nvmes /\ ~nvmeTool
            /\ failed' = failed \cup {k}
            /\ UNCHANGED <<settings, faults>>
         \/ /\ Fault
            /\ failed' = failed \cup {k}
            /\ UNCHANGED settings
  /\ todo' = Tail(todo)
  /\ IF todo' = <<>>
     THEN pc' = "sleep" /\ prev' = state
     ELSE UNCHANGED <<pc, prev>>
  /\ UNCHANGED <<envVars, nvmeTool, reading, state, round>>

\* External: the battery changes between any two steps.
Battery ==
  /\ \/ \E s \in Statuses : bat' = [bat EXCEPT !.status = s]
     \/ \E c \in Capacities : bat' = [bat EXCEPT !.capacity = c]
  /\ round' = [discharging |-> round.discharging /\ bat'.status = "Discharging",
               under |-> round.under /\ bat'.capacity < AcMin]
  /\ UNCHANGED <<loaded, nvmeTool, settings, pc, reading, state, prev, todo,
                 failed, faults>>

\* External: the driver is unloaded and loaded again (a dkms update).
Reload ==
  /\ loaded' = ~loaded
  /\ loaded => Fault
  /\ ~loaded => UNCHANGED faults
  /\ UNCHANGED <<bat, nvmeTool, settings, pc, reading, state, prev, todo,
                 failed, round>>

Daemon ==
  Preflight \/ ReadStatus \/ ReadCapacity \/ Write \/ ReadFails

Next == Daemon \/ Kill \/ SleepFails \/ Restart \/ Battery \/ Reload

Spec == Init /\ [][Next]_vars

\* The daemon keeps running, and systemd restarts it after an end that it does
\* not take for intended.
FairSpec == Spec /\ WF_vars(Daemon) /\ WF_vars(Restart)

-----------------------------------------------------------------------------
Modes == {"low", "high"}

\* Types of all variables.
TypeOK ==
  /\ bat \in [status : Statuses, capacity : Capacities]
  /\ reading \in [status : Statuses, capacity : Capacities]
  /\ loaded \in BOOLEAN /\ nvmeTool \in BOOLEAN
  /\ settings \in [Knobs -> Modes \cup {"boot"}]
  /\ pc \in Running \cup {"start", "down", "gone"}
  /\ state \in Modes \cup {""} /\ prev \in Modes \cup {""}
  /\ todo \in Seq(Knobs)
  /\ failed \subseteq Knobs
  /\ round \in [discharging : BOOLEAN, under : BOOLEAN]
  /\ faults \in 0..MaxFaults

\* A round of the loop in which the battery discharged all the time, or was
\* under ac_min_capacity all the time, ends in the low power state, although
\* status and capacity are read at different moments.
LowThroughout ==
  /\ pc = "sleep" \/ pc = "write"
  /\ round.discharging \/ round.under
  => state = "low"

\* Between applications the settings are the ones of the recorded power state,
\* all of them, except those whose write failed and the SSDs the low branch
\* does not name: a kill in the middle never leaves a mixture recorded as done.
AppliedAsRecorded ==
  pc \in Running \ {"write"} /\ prev # "" =>
    \A k \in Governors \cup (IF prev = "high" THEN Nvmes ELSE {Nvme0}) :
      settings[k] = prev \/ k \in failed \/ (k \in Nvmes /\ ~nvmeTool)

\* The daemon follows the battery: if one rule calls for a power state from
\* some moment on, that state is eventually recorded and stays recorded,
\* through kills, restarts and failing reads.  The ends after which the unit
\* does not restart the daemon are exempt: the driver missing at a start, a
\* clean signal, a failing sleep.  (A battery that
\* changes between two rules for the same state may escape both reads.)
Follows ==
  /\ <>[](bat.status = "Discharging") \/ <>[](bat.capacity < AcMin)
       => <>[](pc = "gone" \/ prev = "low")
  /\ \/ <>[](bat.status = "Charging" /\ bat.capacity >= AcMin)
     \/ <>[](bat.status = "Not charging" /\ bat.capacity >= BatFull)
       => <>[](pc = "gone" \/ prev = "high")

\* On battery every SSD is in its low power state.
SsdsLow ==
  pc = "sleep" /\ prev = "low" /\ failed = {} =>
    \A n \in Nvmes : settings[n] = "low"
=============================================================================
