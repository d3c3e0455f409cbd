------------------------------ MODULE GateWave ------------------------------
(***************************************************************************)
(* experiments/allocator_partition_concurrent/worker.sh after its checks   *)
(* of the node: for each configuration a wave of one process per device.   *)
(* The processes poll for the wave's gate file, which the shell creates    *)
(* when all have been launched; the shell waits for each, adds a row for   *)
(* each that was valid, and one for their sum.                             *)
(*                                                                         *)
(* A trapped signal kills the processes of the wave and the script goes on *)
(* after it, or with the process after the one it was waiting for.  A job  *)
(* that dies with its node may run again under its id: its processes are   *)
(* gone, its directory is as it was.                                       *)
(***************************************************************************)
EXTENDS Naturals, Sequences, FiniteSets

CONSTANTS
  NrWaves,     \* configurations
  NrDevices,   \* concurrent_devices
  MaxSignals,  \* bound on the signals to the script
  MaxRestarts  \* bound on the restarts of the job

Assumptions ==
  /\ NrWaves \in Nat \ {0} /\ NrDevices \in Nat \ {0}
  /\ MaxSignals \in Nat /\ MaxRestarts \in Nat

Waves == 1..NrWaves
Devices == 0..(NrDevices - 1)

VARIABLES
  spc, wave, device,  \* the shell: location and loop variables
  active_pids,        \* devices whose process terminate_children kills
  wave_failures,
  gates,              \* waves whose start.gate exists
  output,             \* contents of each output.txt
  proc,               \* what each process does
  doomed,             \* processes that were sent a signal
  per_device, comparison,   \* rows of the two tables
  signals, restarts

shellVars == <<spc, wave, device, active_pids, wave_failures>>
fileVars == <<gates, output, per_device, comparison>>
vars == <<shellVars, fileVars, proc, doomed, signals, restarts>>

Procs == Waves \X Devices
Running == {p \in Procs : proc[p] \in {"forked", "polling", "streaming"}}
Ended == {"done", "exited", "dead"}

TypeOK ==
  /\ spc \in {"start", "open", "launch", "append", "gate", "wait", "close",
              "aggregate"} \union Ended
  /\ wave \in Waves /\ device \in 0..NrDevices /\ active_pids \subseteq Devices
  /\ wave_failures \in 0..NrDevices /\ gates \subseteq Waves
  /\ output \in [Procs -> {"none", "empty", "valid", "invalid"}]
  /\ proc \in [Procs -> {"none", "forked", "polling", "streaming", "succeeded", "failed"}]
  /\ doomed \subseteq Procs
  /\ per_device \in Seq(Procs) /\ Len(per_device) <= NrWaves * NrDevices
  /\ comparison \in Seq(Waves) /\ Len(comparison) <= NrWaves

Init ==
  /\ spc = "start" /\ wave = 1 /\ device = 0 /\ active_pids = {} /\ wave_failures = 0
  /\ gates = {} /\ output = [p \in Procs |-> "none"]
  /\ proc = [p \in Procs |-> "none"] /\ doomed = {}
  /\ per_device = <<>> /\ comparison = <<>> /\ signals = 0 /\ restarts = 0

-----------------------------------------------------------------------------
(* The script *)

\* The tables get their headers and lose what they held.
Start ==
  /\ spc = "start" /\ spc' = "open"
  /\ per_device' = <<>> /\ comparison' = <<>>
  /\ UNCHANGED <<wave, device, active_pids, wave_failures, gates, output, proc, doomed,
                 signals, restarts>>

Bug_CloseGate == UNCHANGED gates    \* leaves the gate of an earlier run
CloseGate == gates' = gates \ {wave}

\* The beginning of a wave.
Open ==
  /\ spc = "open" /\ spc' = "launch"
  /\ CloseGate
  /\ active_pids' = {} /\ device' = 0
  /\ UNCHANGED <<wave, wave_failures, output, per_device, comparison, proc, doomed,
                 signals, restarts>>

\* The process is forked; its pid is known to the trap one step later.
Launch ==
  /\ spc = "launch"
  /\ IF device < NrDevices
     THEN spc' = "append" /\ proc' = [proc EXCEPT ![<<wave, device>>] = "forked"]
     ELSE spc' = "gate" /\ UNCHANGED proc
  /\ UNCHANGED <<wave, device, active_pids, wave_failures, fileVars, doomed, signals,
                 restarts>>

Append_ ==
  /\ spc = "append" /\ spc' = "launch"
  /\ active_pids' = active_pids \union {device} /\ device' = device + 1
  /\ UNCHANGED <<wave, wave_failures, fileVars, proc, doomed, signals, restarts>>

OpenGate ==
  /\ spc = "gate" /\ spc' = "wait"
  /\ gates' = gates \union {wave}
  /\ device' = 0 /\ wave_failures' = 0
  /\ UNCHANGED <<wave, active_pids, output, per_device, comparison, proc, doomed, signals,
                 restarts>>

\* The next iteration of the loop over active_pids, or its end.
NextWait ==
  /\ device' = device + 1
  /\ spc' = IF device + 1 < NrDevices THEN "wait" ELSE "close"

Accepted(p) == proc[p] = "succeeded" /\ output[p] = "valid"

\* wait returns the status of the process; its output is looked at.
Wait ==
  LET p == <<wave, device>> IN
  /\ spc = "wait" /\ p \notin Running
  /\ NextWait
  /\ IF Accepted(p)
     THEN per_device' = Append(per_device, p) /\ UNCHANGED wave_failures
     ELSE wave_failures' = wave_failures + 1 /\ UNCHANGED per_device
  /\ UNCHANGED <<wave, active_pids, gates, output, comparison, proc, doomed, signals,
                 restarts>>

\* The end of a wave; a failure ends the script.
Close ==
  /\ spc = "close"
  /\ spc' = IF wave_failures > 0 THEN "exited" ELSE "aggregate"
  /\ active_pids' = {} /\ CloseGate
  /\ UNCHANGED <<wave, device, wave_failures, output, per_device, comparison, proc, doomed,
                 signals, restarts>>

\* The rows of the wave are summed.
Aggregate ==
  /\ spc = "aggregate"
  /\ IF \E n \in DOMAIN per_device : per_device[n][1] = wave
     THEN /\ comparison' = Append(comparison, wave)
          /\ IF wave < NrWaves THEN wave' = wave + 1 /\ spc' = "open"
                               ELSE spc' = "done" /\ UNCHANGED wave
     ELSE spc' = "exited" /\ UNCHANGED <<wave, comparison>>
  /\ UNCHANGED <<device, active_pids, wave_failures, gates, output, per_device, proc,
                 doomed, signals, restarts>>

Script == Start \/ Open \/ Launch \/ Append_ \/ OpenGate \/ Wait \/ Close \/ Aggregate

-----------------------------------------------------------------------------
(* What may happen to it *)

\* terminate_children.
Kill == doomed' = doomed \union {p \in Running : p[1] = wave /\ p[2] \in active_pids}

\* A command fails: set -e ends the script, through the trap.
Fail ==
  /\ \/ spc \in {"start", "open", "launch", "gate", "close", "aggregate"}
     \/ spc = "wait" /\ Accepted(<<wave, device>>)
  /\ spc' = "exited" /\ Kill
  /\ UNCHANGED <<wave, device, active_pids, wave_failures, fileVars, proc, signals, restarts>>

\* wait returns at once, with a status above 128.
Interrupted == NextWait /\ wave_failures' = wave_failures + 1

\* INT or TERM once there is a trap: it runs between two commands, or ends a wait.
Signal ==
  /\ spc \notin Ended \union {"start"} /\ signals < MaxSignals
  /\ signals' = signals + 1 /\ Kill
  /\ \/ UNCHANGED <<spc, device, wave_failures>>
     \/ spc = "wait" /\ <<wave, device>> \in Running /\ Interrupted
  /\ UNCHANGED <<wave, active_pids, fileVars, proc, restarts>>

\* The job dies with all its processes, and may be started again.
Crash ==
  /\ spc \notin Ended /\ spc' = "dead"
  /\ proc' = [p \in Procs |-> IF p \in Running THEN "failed" ELSE proc[p]]
  /\ UNCHANGED <<wave, device, active_pids, wave_failures, fileVars, doomed, signals,
                 restarts>>

Restart ==
  /\ spc = "dead" /\ restarts < MaxRestarts
  /\ restarts' = restarts + 1
  /\ spc' = "start" /\ wave' = 1 /\ device' = 0 /\ active_pids' = {} /\ wave_failures' = 0
  /\ proc' = [p \in Procs |-> "none"] /\ doomed' = {}
  /\ UNCHANGED <<fileVars, signals>>

-----------------------------------------------------------------------------
(* The processes *)

Becomes(p, state) == proc' = [proc EXCEPT ![p] = state]

\* The redirection of the subshell empties the file; then it polls for the gate.
Poll(p) ==
  /\ \/ /\ proc[p] = "forked" /\ Becomes(p, "polling")
        /\ output' = [output EXCEPT ![p] = "empty"]
     \/ /\ proc[p] = "polling" /\ p[1] \in gates /\ Becomes(p, "streaming")
        /\ UNCHANGED output
  /\ UNCHANGED <<shellVars, gates, per_device, comparison, doomed, signals, restarts>>

\* stream writes its results, and then ends with a status that says whether it
\* could.
Stream(p) ==
  /\ proc[p] = "streaming"
  /\ \/ /\ output[p] = "empty" /\ UNCHANGED proc
        /\ \E o \in {"valid", "invalid"} : output' = [output EXCEPT ![p] = o]
     \/ /\ \E s \in {"succeeded", "failed"} : Becomes(p, s)
        /\ UNCHANGED output
  /\ UNCHANGED <<shellVars, gates, per_device, comparison, doomed, signals, restarts>>

\* A signal is delivered.
Die(p) ==
  /\ p \in doomed /\ p \in Running
  /\ Becomes(p, "failed")
  /\ UNCHANGED <<shellVars, fileVars, doomed, signals, restarts>>

Process(p) == Poll(p) \/ Stream(p) \/ Die(p)

Next == Script \/ Fail \/ Signal \/ Crash \/ Restart \/ \E p \in Procs : Process(p)
Spec == Init /\ [][Next]_vars

\* The shell and the processes are scheduled, and a process dies of its signal.
Fairness == WF_vars(Script) /\ \A p \in Procs : WF_vars(Process(p)) /\ WF_vars(Die(p))

-----------------------------------------------------------------------------
(* Properties *)

\* No process streams before all processes of its wave have been launched, nor while
\* one of another wave does, after signals and restarts too ("the processes wait at a
\* shared gate and then run concurrently", README.md:11; worker.sh:140, 151, 163).
WavesRunTogether ==
  \A p \in Procs : proc[p] = "streaming" =>
    /\ \A d \in Devices : proc[p[1], d] # "none"
    /\ \A q \in Running : q[1] = p[1]

\* Each sum is over one row of each device, of a process that this run of the script
\* has seen end well; the column that says how many processes is always right
\* (worker.sh:174, 205-214).
SumsAreWhole ==
  (\E p \in Procs : proc[p] # "none") => \A n \in DOMAIN comparison : \A d \in Devices :
    LET p == <<comparison[n], d>> IN
    /\ proc[p] = "succeeded" /\ output[p] = "valid"
    /\ Cardinality({k \in DOMAIN per_device : per_device[k] = p}) = 1
    /\ \A k \in DOMAIN comparison : comparison[k] = comparison[n] => k = n

\* The script ends and so do all its processes, none of which polls forever
\* for a gate that the script did not come to open (worker.sh:126-132, 151).
ScriptEnds == <>[](spc \in Ended /\ Running = {})
=============================================================================
