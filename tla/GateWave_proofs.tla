--------------------------- MODULE GateWave_proofs ---------------------------
(***************************************************************************)
(* Proofs about GateWave, for every number of configurations and devices,  *)
(* and any number of signals and restarts.                                 *)
(*                                                                         *)
(* Which processes exist follows from where the shell is (LaunchInv);      *)
(* those that run are of its wave, and stream only when all of the wave    *)
(* have been launched (RunInv); a row of a table stands for a process that *)
(* ended well (RowInv), and a sum for a row of each device (SumInv).       *)
(***************************************************************************)
EXTENDS GateWave, FiniteSetTheorems, TLAPS

\* What the shell has launched: nothing of a later wave, all of an earlier one, and
\* of the wave it is at what the loop has come past.
Launched(p) ==
  \/ p[1] < wave
  \/ p[1] = wave /\ \/ spc = "launch" /\ p[2] < device
                    \/ spc = "append" /\ p[2] <= device
                    \/ spc \in {"gate", "wait", "close", "aggregate", "done"}

LaunchInv ==
  /\ \A p \in Procs : p[1] > wave => proc[p] = "none"
  /\ spc \notin {"exited", "dead"} =>
       \A p \in Procs : proc[p] # "none" <=> Launched(p)
  /\ spc \in {"append", "wait"} => device < NrDevices
  /\ spc \in {"close", "aggregate"} => device = NrDevices
  /\ spc = "start" => wave = 1

\* Who may run: processes of the wave the shell is at, while the shell can see
\* them; the gate of that wave is open only when all have been launched.  (A gate of
\* a later wave may be open since before a restart.)
RunInv ==
  /\ \A p \in Running : p[1] = wave
  /\ spc \in {"start", "open", "dead", "aggregate", "done"} => Running = {}
  /\ spc \in {"launch", "append", "gate"} => wave \notin gates
  /\ spc \in {"wait", "close", "exited"} /\ wave \in gates /\ Running # {} =>
       \A d \in Devices : proc[wave, d] # "none"
  /\ \A p \in Procs : proc[p] = "streaming" => \A d \in Devices : proc[p[1], d] # "none"

\* The rows of the table of devices, since this run of the script began the tables:
\* each is of a process that was accepted, there is one at most of each process, and
\* they are of processes the shell has come past.
RowInv ==
  /\ \A k \in DOMAIN per_device : Accepted(per_device[k])
  /\ \A k, l \in DOMAIN per_device : per_device[k] = per_device[l] => k = l
  /\ \A k \in DOMAIN per_device :
       \/ per_device[k][1] < wave
       \/ /\ per_device[k][1] = wave
          /\ spc \in {"wait", "close"} => per_device[k][2] < device
          /\ spc \notin {"open", "launch", "append", "gate"}

HasRow(p) == \E k \in DOMAIN per_device : per_device[k] = p

\* The rows of the sums, and what there is to sum.
SumInv ==
  /\ Len(comparison) = IF spc = "done" THEN wave ELSE wave - 1
  /\ \A n \in DOMAIN comparison : comparison[n] = n
  /\ \A p \in Procs :
       p[1] < wave \/ (p[1] = wave /\ spc \in {"aggregate", "done"}) => HasRow(p)
  /\ spc \in {"wait", "close"} /\ wave_failures = 0 =>
       \A d \in Devices : d < device => HasRow(<<wave, d>>)

\* A run of the script that has not begun its tables has no processes, and finds
\* those of the run before.
Fresh == spc \in {"start", "dead", "exited"} /\ \A p \in Procs : proc[p] = "none"

TablesInv == Fresh \/ (RowInv /\ SumInv)

\* How long the table of devices is: the rows of the waves before one, and in all.
Before(w) == (w - 1) * NrDevices
AllRows == NrWaves * NrDevices

LengthInv ==
  /\ spc \in {"open", "launch", "append", "gate"} => Len(per_device) <= Before(wave)
  /\ spc \in {"wait", "close"} => Len(per_device) <= Before(wave) + device
  /\ spc = "aggregate" => Len(per_device) <= Before(wave) + NrDevices
  /\ spc \in {"wait", "close"} => wave_failures <= device

IInv == TypeOK /\ LaunchInv /\ RunInv /\ TablesInv /\ LengthInv

-----------------------------------------------------------------------------
(* Types *)

LEMMA Product ==
  ASSUME Assumptions, NEW w \in Waves
  PROVE  /\ Before(w) \in Nat /\ AllRows \in Nat
         /\ Before(w + 1) = Before(w) + NrDevices
         /\ Before(w) + NrDevices <= AllRows
<1> USE DEF Before, AllRows
<1>1. /\ w \in Nat \ {0} /\ w <= NrWaves /\ NrWaves \in Nat /\ NrDevices \in Nat \ {0}
  BY DEF Waves, Assumptions
<1>2. (w - 1) * NrDevices + NrDevices = w * NrDevices
  BY <1>1
<1>3. PICK k \in Nat : NrWaves = w + k
  BY <1>1
<1>4. NrWaves * NrDevices = w * NrDevices + k * NrDevices
  BY <1>1, <1>3
<1>5. k * NrDevices \in Nat /\ w * NrDevices \in Nat /\ (w - 1) * NrDevices \in Nat
  BY <1>1
<1>6. (w + 1) - 1 = w
  BY <1>1
<1> QED
  BY <1>2, <1>4, <1>5, <1>6, <1>1

\* Where the shell goes.
Places == {"start", "open", "launch", "append", "gate", "wait", "close",
              "aggregate"} \union Ended
States == {"none", "forked", "polling", "streaming", "succeeded", "failed"}
Contents == {"none", "empty", "valid", "invalid"}

\* The type of what a process changes, and of what the shell does.
ShellType ==
  /\ spc \in Places /\ wave \in Waves /\ device \in 0..NrDevices
  /\ active_pids \subseteq Devices /\ wave_failures \in 0..NrDevices /\ gates \subseteq Waves
TableType ==
  /\ per_device \in Seq(Procs) /\ Len(per_device) <= AllRows
  /\ comparison \in Seq(Waves) /\ Len(comparison) <= NrWaves
ProcType ==
  /\ output \in [Procs -> Contents] /\ proc \in [Procs -> States] /\ doomed \subseteq Procs

LEMMA TypeParts == TypeOK <=> ShellType /\ TableType /\ ProcType
BY DEF TypeOK, ShellType, TableType, ProcType, Places, States, Contents, AllRows

\* The process that the shell is at.
LEMMA CurrentProc ==
  ASSUME Assumptions, TypeOK, device < NrDevices
  PROVE  device \in Devices /\ <<wave, device>> \in Procs /\ device + 1 \in 0..NrDevices
BY DEF Assumptions, TypeOK, Devices, Waves, Procs

LEMMA ShellTypeStep ==
  ASSUME Assumptions, TypeOK, LaunchInv, LengthInv, [Next]_vars
  PROVE  ShellType'
<1> USE DEF ShellType, Places, Ended
<1>1. ShellType
  BY TypeParts
<1>2. device < NrDevices =>
        device \in Devices /\ <<wave, device>> \in Procs /\ device + 1 \in 0..NrDevices
  BY CurrentProc
<1>3. spc \in {"append", "wait"} => device < NrDevices
  BY DEF LaunchInv
<1>4. NrDevices \in Nat \ {0} /\ NrWaves \in Nat \ {0} /\ 1 \in Waves /\ 0 \in 0..NrDevices
  BY DEF Assumptions, Waves
<1>5. CASE Start
  BY <1>1, <1>5 DEF Start
<1>6. CASE Open
  BY <1>1, <1>4, <1>6 DEF Open, CloseGate
<1>7. CASE Launch
  BY <1>1, <1>7 DEF Launch, fileVars
<1>8. CASE Append_
  BY <1>1, <1>2, <1>3, <1>8 DEF Append_, fileVars
<1>9. CASE OpenGate
  BY <1>1, <1>4, <1>9 DEF OpenGate
<1>10. spc = "wait" => wave_failures + 1 \in 0..NrDevices
  BY <1>1, <1>3, <1>4 DEF LengthInv
<1>11. CASE Wait
  BY <1>1, <1>2, <1>3, <1>10, <1>11 DEF Wait, NextWait
<1>12. CASE Close
  BY <1>1, <1>12 DEF Close, CloseGate
<1>13. CASE Aggregate
  BY <1>1, <1>4, <1>13 DEF Aggregate, Waves
<1>14. CASE Fail
  BY <1>1, <1>14 DEF Fail, fileVars
<1>15. CASE Signal
  BY <1>1, <1>2, <1>3, <1>10, <1>15 DEF Signal, Interrupted, NextWait, fileVars
<1>16. CASE Crash
  BY <1>1, <1>16 DEF Crash, fileVars
<1>17. CASE Restart
  BY <1>1, <1>4, <1>17 DEF Restart, fileVars
<1>18. ASSUME NEW p \in Procs, Process(p)
       PROVE  ShellType'
  BY <1>1, <1>18 DEF Process, Poll, Stream, Die, shellVars, fileVars
<1>19. CASE UNCHANGED vars
  BY <1>1, <1>19 DEF vars, shellVars, fileVars
<1> QED
  BY <1>5, <1>6, <1>7, <1>8, <1>9, <1>11, <1>12, <1>13, <1>14, <1>15, <1>16, <1>17, <1>18,
     <1>19 DEF Next, Script

LEMMA ProcTypeStep ==
  ASSUME Assumptions, TypeOK, LaunchInv, [Next]_vars
  PROVE  ProcType'
<1> USE DEF ProcType, States, Contents
<1>1. ProcType
  BY TypeParts
<1>2. CASE Start \/ Open \/ Append_ \/ OpenGate \/ Wait \/ Close \/ Aggregate
  BY <1>1, <1>2 DEF Start, Open, Append_, OpenGate, Wait, Close, Aggregate, fileVars
<1>3. CASE Launch
  BY <1>1, <1>3, CurrentProc DEF Launch, fileVars
<1>4. CASE Fail \/ Signal
  BY <1>1, <1>4 DEF Fail, Signal, Kill, Running, fileVars
<1>5. CASE Crash \/ Restart
  BY <1>1, <1>5 DEF Crash, Restart, fileVars
<1>6. ASSUME NEW p \in Procs, Process(p)
      PROVE  ProcType'
  BY <1>1, <1>6 DEF Process, Poll, Stream, Die, Becomes, fileVars
<1>7. CASE UNCHANGED vars
  BY <1>1, <1>7 DEF vars, fileVars
<1> QED
  BY <1>2, <1>3, <1>4, <1>5, <1>6, <1>7 DEF Next, Script

-----------------------------------------------------------------------------
(* Launching *)

LEMMA ProcParts ==
  ASSUME Assumptions
  PROVE  \A p \in Procs : /\ p[1] \in Nat \ {0} /\ p[2] \in Nat /\ p[2] < NrDevices
                          /\ p = <<p[1], p[2]>>
BY DEF Procs, Waves, Devices, Assumptions

LEMMA CloseFacts ==
  ASSUME Assumptions, TypeOK, LaunchInv, Close
  PROVE  device = NrDevices /\ (wave_failures > 0 \/ wave_failures = 0)
<1>1. wave_failures \in Nat
  BY DEF TypeOK, Assumptions
<1>2. device = NrDevices
  BY DEF LaunchInv, Close
<1> QED
  BY <1>1, <1>2

\* What a process does leaves it launched.
LEMMA ProcessEffect ==
  ASSUME TypeOK, NEW p \in Procs, Process(p)
  PROVE  /\ UNCHANGED <<shellVars, gates, per_device, comparison, doomed>>
         /\ p \in Running
         /\ \A q \in Procs : q # p => proc'[q] = proc[q] /\ output'[q] = output[q]
         /\ proc'[p] # "none"
         /\ proc'[p] = "streaming" => proc[p] = "streaming" \/ p[1] \in gates
<1> USE DEF TypeOK
<1>1. CASE Poll(p)
  BY <1>1 DEF Poll, Becomes, Running
<1>2. CASE Stream(p)
  BY <1>2 DEF Stream, Becomes, Running
<1>3. CASE Die(p)
  BY <1>3 DEF Die, Becomes, Running, fileVars
<1> QED
  BY <1>1, <1>2, <1>3 DEF Process

LEMMA LaunchStep ==
  ASSUME Assumptions, TypeOK, LaunchInv, [Next]_vars
  PROVE  LaunchInv'
<1> USE DEF LaunchInv, Launched
<1>1. \A p \in Procs : /\ p[1] \in Nat \ {0} /\ p[2] \in Nat /\ p[2] < NrDevices
                       /\ p = <<p[1], p[2]>>
  BY ProcParts
<1>2. /\ wave \in Nat /\ device \in Nat /\ device <= NrDevices /\ NrDevices \in Nat \ {0}
      /\ 1 \in Waves /\ proc \in [Procs -> {"none", "forked", "polling", "streaming",
                                            "succeeded", "failed"}]
      /\ spc \in Places
  BY DEF TypeOK, Waves, Assumptions, Places
<1>3. CASE Start
  BY <1>1, <1>2, <1>3 DEF Start
<1>4. CASE Open
  BY <1>1, <1>2, <1>4 DEF Open
<1>5. CASE Launch
  <2>1. CASE device < NrDevices
    <3>1. <<wave, device>> \in Procs
      BY <2>1, CurrentProc
    <3>2. /\ spc = "launch" /\ spc' = "append" /\ UNCHANGED <<wave, device>>
          /\ proc' = [proc EXCEPT ![<<wave, device>>] = "forked"]
      BY <2>1, <1>5 DEF Launch
    <3>3. \A p \in Procs : proc'[p] = IF p = <<wave, device>> THEN "forked" ELSE proc[p]
      BY <3>1, <3>2, <1>2
    <3> QED
      BY <1>1, <1>2, <2>1, <3>2, <3>3
  <2>2. CASE ~(device < NrDevices)
    BY <1>1, <1>2, <1>5, <2>2 DEF Launch
  <2> QED
    BY <2>1, <2>2
<1>6. CASE Append_
  BY <1>1, <1>2, <1>6 DEF Append_
<1>7. CASE OpenGate
  BY <1>1, <1>2, <1>7 DEF OpenGate
<1>8. CASE Wait
  BY <1>1, <1>2, <1>8 DEF Wait, NextWait
<1>9. CASE Close
  BY <1>1, <1>2, <1>9 DEF Close
<1>10. CASE Aggregate
  BY <1>1, <1>2, <1>10 DEF Aggregate
<1>11. CASE Fail
  BY <1>1, <1>2, <1>11 DEF Fail
<1>12. CASE Signal
  BY <1>1, <1>2, <1>12 DEF Signal, Interrupted, NextWait, Ended
<1>13. CASE Crash
  BY <1>1, <1>2, <1>13 DEF Crash, Running
<1>14. CASE Restart
  BY <1>1, <1>2, <1>14 DEF Restart
<1>15. ASSUME NEW p \in Procs, Process(p)
       PROVE  LaunchInv'
  <2>1. UNCHANGED <<spc, wave, device>> /\ \A q \in Procs : proc'[q] = "none" <=> proc[q] = "none"
    BY <1>15, ProcessEffect DEF shellVars, Running
  <2> QED
    BY <2>1
<1>16. CASE UNCHANGED vars
  BY <1>16 DEF vars, shellVars
<1> QED
  BY <1>3, <1>4, <1>5, <1>6, <1>7, <1>8, <1>9, <1>10, <1>11, <1>12, <1>13, <1>14, <1>15,
     <1>16 DEF Next, Script

-----------------------------------------------------------------------------
(* The gate *)

LEMMA RunStep ==
  ASSUME Assumptions, TypeOK, TypeOK', LaunchInv, LaunchInv', RunInv, TablesInv, [Next]_vars
  PROVE  RunInv'
<1> USE DEF RunInv, Running
<1>1. \A p \in Procs : /\ p[1] \in Nat \ {0} /\ p[2] \in Nat /\ p[2] < NrDevices
                       /\ p = <<p[1], p[2]>>
  BY ProcParts
<1>2. \A d \in Devices : <<wave, d>> \in Procs
  BY DEF Procs, TypeOK
<1>3. CASE Start
  BY <1>3 DEF Start
<1>4. CASE Open
  BY <1>4 DEF Open, CloseGate
<1>5. CASE Launch
  <2>1. CASE device < NrDevices
    <3>1. <<wave, device>> \in Procs
      BY <2>1, CurrentProc
    <3>2. /\ spc = "launch" /\ spc' = "append" /\ UNCHANGED <<wave, gates>>
          /\ proc' = [proc EXCEPT ![<<wave, device>>] = "forked"]
      BY <2>1, <1>5 DEF Launch, fileVars
    <3>3. \A p \in Procs : proc'[p] = IF p = <<wave, device>> THEN "forked" ELSE proc[p]
      BY <3>1, <3>2 DEF TypeOK
    <3>4. \A p \in Running' : p[1] = wave
      BY <3>3, <3>1, <1>1
    <3>5. ASSUME NEW p \in Procs, proc'[p] = "streaming", NEW d \in Devices
          PROVE  proc'[p[1], d] # "none"
      <4>1. proc[p] = "streaming" /\ <<p[1], d>> \in Procs
        BY <3>3, <3>5 DEF Procs
      <4> QED
        BY <3>3, <4>1, <3>5
    <3> QED
      BY <3>2, <3>4, <3>5
  <2>2. CASE ~(device < NrDevices)
    BY <1>5, <2>2 DEF Launch, fileVars
  <2> QED
    BY <2>1, <2>2
<1>6. CASE Append_
  BY <1>6 DEF Append_, fileVars
<1>7. CASE OpenGate
  <2>1. \A d \in Devices : proc[wave, d] # "none"
    BY <1>7, <1>2 DEF OpenGate, LaunchInv, Launched
  <2> QED
    BY <1>7, <2>1 DEF OpenGate
<1>8. CASE Wait
  BY <1>8 DEF Wait, NextWait
<1>9. CASE Close
  <2>1. CASE wave_failures > 0
    BY <1>9, <2>1 DEF Close, CloseGate
  <2>2. CASE ~(wave_failures > 0)
    <3>1. wave_failures = 0 /\ device = NrDevices
      BY <1>9, <2>2, CloseFacts
    <3>2. \A p \in Procs : p[1] = wave => proc[p] = "succeeded"
      <4>1. SumInv /\ RowInv
        BY <1>9 DEF TablesInv, Fresh, Close
      <4>2. SUFFICES ASSUME NEW p \in Procs, p[1] = wave PROVE proc[p] = "succeeded"
        OBVIOUS
      <4>3. HasRow(p)
        BY <4>1, <4>2, <3>1, <1>1, <1>9 DEF SumInv, Close, Procs
      <4> QED
        BY <4>1, <4>3 DEF HasRow, RowInv, Accepted
    <3>3. Running = {}
      BY <3>2
    <3> QED
      BY <1>9, <2>2, <3>3 DEF Close, CloseGate
  <2> QED
    BY <2>1, <2>2
<1>10. CASE Aggregate
  BY <1>10 DEF Aggregate
<1>11. CASE Fail
  BY <1>11 DEF Fail, fileVars
<1>12. CASE Signal
  BY <1>12 DEF Signal, Interrupted, NextWait, fileVars, Ended
<1>13. CASE Crash
  <2>1. /\ UNCHANGED <<wave, gates>> /\ spc' = "dead"
        /\ \A p \in Procs : /\ proc'[p] \notin {"forked", "polling", "streaming"}
                            /\ proc[p] # "none" => proc'[p] # "none"
    BY <1>13 DEF Crash, fileVars
  <2> QED
    BY <2>1
<1>14. CASE Restart
  BY <1>14 DEF Restart
<1>15. ASSUME NEW p \in Procs, Process(p)
       PROVE  RunInv'
  <2>1. /\ UNCHANGED <<spc, wave, gates>> /\ p \in Running
        /\ \A q \in Procs : q # p => proc'[q] = proc[q]
        /\ proc'[p] # "none"
        /\ proc'[p] = "streaming" => proc[p] = "streaming" \/ p[1] \in gates
    BY <1>15, ProcessEffect DEF shellVars
  <2>2. p[1] = wave /\ spc \notin {"start", "open", "dead", "aggregate", "done"}
    BY <2>1
  <2>3. \A q \in Procs : (q[1] = wave) => (\A d \in Devices : <<wave, d>> \in Procs)
    BY <1>2
  <2>4. proc'[p] = "streaming" => \A d \in Devices : proc'[p[1], d] # "none"
    <3>1. SUFFICES ASSUME proc'[p] = "streaming", NEW d \in Devices
                   PROVE  proc'[wave, d] # "none"
      BY <2>2
    <3>2. proc[wave, d] # "none"
      BY <3>1, <2>1, <2>2 DEF TypeOK, Places, Ended
    <3> QED
      BY <3>2, <2>1, <1>2
  <2>5. ASSUME NEW q \in Procs, q # p, proc'[q] = "streaming", NEW d \in Devices
        PROVE  proc'[q[1], d] # "none"
    <3>1. proc[q[1], d] # "none" /\ <<q[1], d>> \in Procs
      BY <2>1, <2>5 DEF Procs
    <3> QED
      BY <3>1, <2>1
  <2>6. \A q \in Running' : q[1] = wave
    BY <2>1, <2>2
  <2>7. (\A d \in Devices : proc[wave, d] # "none") => \A d \in Devices : proc'[wave, d] # "none"
    BY <2>1, <1>2
  <2> QED
    BY <2>1, <2>2, <2>4, <2>5, <2>6, <2>7
<1>16. CASE UNCHANGED vars
  BY <1>16 DEF vars, shellVars, fileVars
<1> QED
  BY <1>3, <1>4, <1>5, <1>6, <1>7, <1>8, <1>9, <1>10, <1>11, <1>12, <1>13, <1>14, <1>15,
     <1>16 DEF Next, Script

-----------------------------------------------------------------------------
(* The tables *)

\* What has been accepted stays so while the script is not started again.
LEMMA AcceptedStays ==
  ASSUME Assumptions, TypeOK, LaunchInv, [Next]_vars, ~Restart, NEW p \in Procs, Accepted(p)
  PROVE  Accepted(p)'
<1> USE DEF Accepted
<1>1. CASE Start \/ Open \/ Append_ \/ OpenGate \/ Wait \/ Close \/ Aggregate \/ Fail \/ Signal
  BY <1>1 DEF Start, Open, Append_, OpenGate, Wait, Close, Aggregate, Fail, Signal, fileVars
<1>2. CASE Launch
  <2>1. CASE device < NrDevices
    <3>1. <<wave, device>> \in Procs
      BY <2>1, CurrentProc
    <3>2. p # <<wave, device>>
      <4>1. wave \in Nat /\ device \in Nat
        BY DEF TypeOK, Waves
      <4>2. spc = "launch"
        BY <1>2 DEF Launch
      <4>3. ~Launched(<<wave, device>>)
        BY <4>1, <4>2 DEF Launched
      <4>4. proc[<<wave, device>>] = "none"
        BY <3>1, <4>2, <4>3 DEF LaunchInv
      <4> QED
        BY <4>4
    <3> QED
      BY <1>2, <2>1, <3>1, <3>2 DEF Launch, TypeOK, fileVars
  <2>2. CASE ~(device < NrDevices)
    BY <1>2, <2>2 DEF Launch, fileVars
  <2> QED
    BY <2>1, <2>2
<1>3. CASE Crash
  BY <1>3 DEF Crash, Running, fileVars
<1>4. ASSUME NEW q \in Procs, Process(q)
      PROVE  Accepted(p)'
  BY <1>4, ProcessEffect DEF Running
<1>5. CASE UNCHANGED vars
  BY <1>5 DEF vars, fileVars
<1> QED
  BY <1>1, <1>2, <1>3, <1>4, <1>5 DEF Next, Script

LEMMA FreshStep ==
  ASSUME Assumptions, TypeOK, LaunchInv, LaunchInv', Fresh, [Next]_vars
  PROVE  TablesInv'
<1> USE DEF Fresh, TablesInv
<1>1. CASE Start
  <2>1. /\ per_device' = <<>> /\ comparison' = <<>> /\ spc' = "open" /\ wave' = 1
    BY <1>1 DEF Start, LaunchInv
  <2>2. RowInv'
    BY <2>1 DEF RowInv
  <2>3. SumInv'
    BY <2>1, ProcParts DEF SumInv
  <2> QED
    BY <2>2, <2>3
<1>2. CASE Open \/ Launch \/ Append_ \/ OpenGate \/ Wait \/ Close \/ Aggregate \/ Signal
  BY <1>2 DEF Open, Launch, Append_, OpenGate, Wait, Close, Aggregate, Signal, Ended
<1>3. CASE Fail
  BY <1>3 DEF Fail
<1>4. CASE Crash
  BY <1>4 DEF Crash, Running
<1>5. CASE Restart
  BY <1>5 DEF Restart
<1>6. ASSUME NEW p \in Procs, Process(p)
      PROVE  FALSE
  BY <1>6, ProcessEffect DEF Running
<1>7. CASE UNCHANGED vars
  BY <1>7 DEF vars, shellVars
<1> QED
  BY <1>1, <1>2, <1>3, <1>4, <1>5, <1>6, <1>7 DEF Next, Script

\* The row that the shell adds for the process it is at.
LEMMA WaitStep ==
  ASSUME Assumptions, TypeOK, TypeOK', LaunchInv, RowInv, SumInv, Wait
  PROVE  RowInv' /\ SumInv'
<1> USE DEF RowInv, SumInv, HasRow
<1>1. /\ wave \in Nat /\ device \in Nat /\ wave_failures \in Nat /\ device < NrDevices
      /\ spc = "wait" /\ spc' \in {"wait", "close"} /\ device' = device + 1
      /\ <<wave, device>> \in Procs
      /\ UNCHANGED <<wave, proc, output, comparison>>
      /\ per_device \in Seq(Procs)
  BY CurrentProc DEF Wait, NextWait, TypeOK, LaunchInv, Waves
<1>2. \A d \in Devices : d \in Nat /\ <<wave, d>> \in Procs
  BY DEF Devices, Procs, TypeOK
<1>3. CASE Accepted(<<wave, device>>)
  <2>1. /\ per_device' = Append(per_device, <<wave, device>>)
        /\ wave_failures' = wave_failures
    BY <1>1, <1>3 DEF Wait
  <2>2. /\ DOMAIN per_device = 1..Len(per_device) /\ Len(per_device) \in Nat
        /\ DOMAIN per_device' = 1..(Len(per_device) + 1)
        /\ \A k \in DOMAIN per_device : per_device'[k] = per_device[k]
        /\ per_device'[Len(per_device) + 1] = <<wave, device>>
    BY <1>1, <2>1
  <2>3. \A k \in DOMAIN per_device : /\ per_device[k] \in Procs
                                     /\ per_device[k][1] < wave \/ per_device[k][2] < device
                                     /\ per_device[k][1] \in Nat /\ per_device[k][2] \in Nat
    BY <1>1, ProcParts
  <2>4. \A k \in DOMAIN per_device' : Accepted(per_device[k])'
    <3>1. \A k \in DOMAIN per_device : Accepted(per_device[k])
      OBVIOUS
    <3>2. \A k \in DOMAIN per_device' : k \in DOMAIN per_device \/ k = Len(per_device) + 1
      BY <2>2
    <3>3. UNCHANGED <<proc, output>>
      BY <1>1
    <3> QED
      BY <1>3, <2>2, <3>1, <3>2, <3>3 DEF Accepted
  <2>5. \A k \in DOMAIN per_device : per_device[k] # <<wave, device>>
    BY <2>3, <1>1
  <2>6. \A k, l \in DOMAIN per_device' : per_device'[k] = per_device'[l] => k = l
    BY <2>2, <2>5
  <2>7. RowInv'
    <3>1. \A k \in DOMAIN per_device :
            \/ per_device[k][1] < wave
            \/ per_device[k][1] = wave /\ per_device[k][2] < device + 1
      <4>1. ASSUME NEW k \in DOMAIN per_device
            PROVE  \/ per_device[k][1] < wave
                   \/ per_device[k][1] = wave /\ per_device[k][2] < device + 1
        <5>1. \A i, j \in Nat : i < j => i < j + 1
          OBVIOUS
        <5>2. \/ per_device[k][1] < wave
              \/ per_device[k][1] = wave /\ per_device[k][2] < device
          BY <1>1
        <5> QED
          BY <1>1, <2>3, <5>1, <5>2
      <4> QED
        BY <4>1
    <3>2. <<wave, device>>[1] = wave /\ <<wave, device>>[2] < device + 1
      BY <1>1
    <3>3. \A k \in DOMAIN per_device' : k \in DOMAIN per_device \/ k = Len(per_device) + 1
      BY <2>2
    <3>4. \A k \in DOMAIN per_device' :
            \/ per_device'[k][1] < wave
            \/ per_device'[k][1] = wave /\ per_device'[k][2] < device + 1
      BY <2>2, <3>1, <3>2, <3>3
    <3> QED
      BY <1>1, <2>4, <2>6, <3>4
  <2>8. \A p \in Procs : HasRow(p) => HasRow(p)'
    BY <2>2
  <2>9. \E k \in DOMAIN per_device' : per_device'[k] = <<wave, device>>
    BY <2>2
  <2>10. ASSUME wave_failures' = 0, NEW d \in Devices, d < device'
         PROVE  HasRow(<<wave, d>>)'
    <3>1. d = device \/ d < device
      <4>1. \A i, j \in Nat : i < j + 1 => i = j \/ i < j
        OBVIOUS
      <4> QED
        BY <2>10, <1>1, <1>2, <4>1
    <3>2. CASE d = device
      BY <2>9, <3>2, <1>1
    <3>3. CASE d < device
      BY <2>1, <2>8, <2>10, <3>3, <1>1, <1>2
    <3> QED
      BY <3>1, <3>2, <3>3
  <2> QED
    BY <1>1, <2>7, <2>8, <2>10
<1>4. CASE ~Accepted(<<wave, device>>)
  <2>1. UNCHANGED per_device /\ wave_failures' # 0
    BY <1>1, <1>4 DEF Wait
  <2>2. \A k \in DOMAIN per_device : per_device[k][2] \in Nat
    BY <1>1, ProcParts
  <2>3. RowInv'
    BY <1>1, <2>1, <2>2 DEF Accepted
  <2>4. SumInv'
    BY <1>1, <2>1
  <2> QED
    BY <2>3, <2>4
<1> QED
  BY <1>3, <1>4

LEMMA TablesStep ==
  ASSUME Assumptions, TypeOK, TypeOK', LaunchInv, LaunchInv', RunInv, TablesInv, [Next]_vars
  PROVE  TablesInv'
<1>1. CASE Fresh
  BY <1>1, FreshStep
<1>2. CASE Restart
  BY <1>2 DEF Restart, TablesInv, Fresh
<1>3. CASE Wait /\ ~Fresh
  BY <1>3, WaitStep DEF TablesInv
<1>4. CASE Start /\ ~Fresh
  BY <1>4, ProcParts DEF Start, Fresh, LaunchInv, Launched
<1> SUFFICES ASSUME ~Fresh, ~Restart, ~Wait, ~Start PROVE RowInv' /\ SumInv'
  BY <1>1, <1>2, <1>3, <1>4 DEF TablesInv
<1>5. RowInv /\ SumInv
  BY DEF TablesInv
<1>6. /\ \A k \in DOMAIN per_device : per_device[k] \in Procs
      /\ \A p \in Procs : p[1] \in Nat \ {0} /\ p[2] \in Nat /\ p[2] < NrDevices
                          /\ p = <<p[1], p[2]>>
      /\ \A d \in Devices : <<wave, d>> \in Procs
      /\ wave \in Nat /\ device \in Nat /\ wave_failures \in Nat
  <2>1. \A k \in DOMAIN per_device : per_device[k] \in Procs
    BY DEF TypeOK
  <2>2. wave \in Nat /\ device \in Nat /\ wave_failures \in Nat
    BY DEF TypeOK, Waves
  <2>3. \A d \in Devices : <<wave, d>> \in Procs
    BY DEF TypeOK, Procs
  <2>4. \A p \in Procs : p[1] \in Nat \ {0} /\ p[2] \in Nat /\ p[2] < NrDevices
                          /\ p = <<p[1], p[2]>>
    BY ProcParts
  <2> QED
    BY <2>1, <2>2, <2>3, <2>4
<1>7. \A k \in DOMAIN per_device : /\ proc'[per_device[k]] = "succeeded"
                                   /\ output'[per_device[k]] = "valid"
  <2>1. \A p \in Procs : Accepted(p) => Accepted(p)'
    BY AcceptedStays
  <2> QED
    BY <1>5, <1>6, <2>1 DEF RowInv, Accepted
<1>8. ASSUME UNCHANGED <<wave, per_device, comparison>>,
             \/ UNCHANGED <<spc, device, wave_failures>>
             \/ spc = "open" /\ spc' = "launch"
             \/ spc' \in {"exited", "dead"} /\ spc # "done"
             \/ {spc, spc'} \subseteq {"launch", "append", "gate"}
      PROVE  RowInv' /\ SumInv'
  <2>1. RowInv'
    BY <1>5, <1>6, <1>7, <1>8 DEF RowInv, Accepted
  <2>2. SumInv'
    BY <1>5, <1>6, <1>8 DEF SumInv, HasRow
  <2> QED
    BY <2>1, <2>2
<1>9. CASE Open \/ Launch \/ Append_ \/ Fail \/ Crash
  BY <1>8, <1>9 DEF Open, Launch, Append_, Fail, Crash, fileVars, Ended
<1>10. CASE OpenGate
  <2>1. spc = "gate" /\ spc' = "wait" /\ device' = 0
        /\ UNCHANGED <<wave, per_device, comparison>>
    BY <1>10 DEF OpenGate
  <2>2. RowInv'
    BY <1>5, <1>6, <1>7, <2>1 DEF RowInv, Accepted
  <2>3. \A d \in Devices : ~(d < 0)
    BY DEF Devices
  <2>4. SumInv'
    BY <1>5, <1>6, <2>1, <2>3 DEF SumInv, HasRow
  <2> QED
    BY <2>2, <2>4
<1>11. CASE Close
  <2>1. /\ spc = "close" /\ UNCHANGED <<wave, device, wave_failures, per_device, comparison>>
        /\ spc' = IF wave_failures > 0 THEN "exited" ELSE "aggregate"
        /\ device = NrDevices /\ (wave_failures > 0 \/ wave_failures = 0)
    BY <1>11, CloseFacts DEF Close
  <2>2. RowInv'
    BY <1>5, <1>6, <1>7, <2>1 DEF RowInv, Accepted
  <2>3. CASE wave_failures > 0
    BY <1>8, <2>1, <2>3
  <2>4. CASE ~(wave_failures > 0)
    <3>1. wave_failures = 0 /\ spc' = "aggregate"
      BY <2>1, <2>4
    <3>2. \A p \in Procs : p[1] = wave => HasRow(p)
      BY <3>1, <2>1, <1>5, <1>6 DEF SumInv, Procs
    <3> QED
      BY <1>5, <1>6, <2>1, <2>2, <3>1, <3>2 DEF SumInv, HasRow
  <2> QED
    BY <2>3, <2>4
<1>12. CASE Aggregate
  <2>1. spc = "aggregate" /\ UNCHANGED <<per_device, device>>
    BY <1>12 DEF Aggregate
  <2>2. CASE \E k \in DOMAIN per_device : per_device[k][1] = wave
    <3>1. /\ comparison' = Append(comparison, wave)
          /\ IF wave < NrWaves THEN wave' = wave + 1 /\ spc' = "open"
                               ELSE spc' = "done" /\ UNCHANGED wave
      BY <1>12, <2>2 DEF Aggregate
    <3>2. Len(comparison) = wave - 1 /\ comparison \in Seq(Waves) /\ wave \in Waves
      BY <2>1, <1>5 DEF SumInv, TypeOK
    <3>3. /\ Len(comparison') = wave /\ DOMAIN comparison' = 1..wave
          /\ \A k \in 1..(wave - 1) : comparison'[k] = comparison[k]
          /\ comparison'[wave] = wave /\ DOMAIN comparison = 1..(wave - 1)
      BY <3>1, <3>2, <1>6
    <3>4. \A k \in DOMAIN comparison' : comparison'[k] = k
      BY <3>3, <1>5, <1>6 DEF SumInv
    <3>5. \A k \in DOMAIN per_device : per_device[k][1] < wave \/ per_device[k][1] = wave
      BY <1>5 DEF RowInv
    <3>6. \A p \in Procs : p[1] < wave \/ p[1] = wave => HasRow(p)
      BY <1>5, <2>1 DEF SumInv
    <3>7. RowInv'
      BY <1>5, <1>6, <1>7, <2>1, <3>1, <3>5 DEF RowInv, Accepted
    <3>8. SumInv'
      BY <1>6, <2>1, <3>1, <3>3, <3>4, <3>6 DEF SumInv, HasRow
    <3> QED
      BY <3>7, <3>8
  <2>3. CASE ~\E k \in DOMAIN per_device : per_device[k][1] = wave
    BY <1>8, <1>12, <2>3 DEF Aggregate
  <2> QED
    BY <2>2, <2>3
<1>13. CASE Signal
  <2>1. UNCHANGED <<wave, per_device, comparison, proc, output>>
    BY <1>13 DEF Signal, fileVars
  <2>2. CASE UNCHANGED <<spc, device, wave_failures>>
    BY <1>8, <2>1, <2>2
  <2>3. CASE spc = "wait" /\ Interrupted
    <3>1. /\ spc = "wait" /\ spc' \in {"wait", "close"} /\ device' = device + 1
          /\ wave_failures' # 0
      BY <2>3, <1>6 DEF Interrupted, NextWait
    <3>2. RowInv'
      BY <1>5, <1>6, <1>7, <2>1, <3>1 DEF RowInv, Accepted
    <3>3. SumInv'
      BY <1>5, <1>6, <2>1, <3>1 DEF SumInv, HasRow
    <3> QED
      BY <3>2, <3>3
  <2> QED
    BY <1>13, <2>2, <2>3 DEF Signal
<1>14. ASSUME NEW p \in Procs, Process(p)
       PROVE  RowInv' /\ SumInv'
  BY <1>8, <1>14, ProcessEffect DEF shellVars
<1>15. CASE UNCHANGED vars
  BY <1>8, <1>15 DEF vars, shellVars, fileVars
<1> QED
  BY <1>9, <1>10, <1>11, <1>12, <1>13, <1>14, <1>15 DEF Next, Script

-----------------------------------------------------------------------------
(* The length of the tables *)

LEMMA LengthStep ==
  ASSUME Assumptions, TypeOK, LaunchInv, LengthInv, [Next]_vars
  PROVE  LengthInv'
<1> USE DEF LengthInv
<1>1. /\ device \in Nat /\ wave_failures \in Nat /\ Len(per_device) \in Nat
      /\ NrDevices \in Nat /\ wave \in Nat
      /\ per_device \in Seq(Procs)
      /\ Before(wave) \in Nat /\ Before(wave + 1) = Before(wave) + NrDevices
  <2>1. device \in Nat /\ wave_failures \in Nat /\ wave \in Waves /\ per_device \in Seq(Procs)
    BY TypeParts DEF ShellType, TableType, Assumptions
  <2>2. Len(per_device) \in Nat /\ NrDevices \in Nat /\ wave \in Nat
    BY <2>1 DEF Waves, Assumptions
  <2> QED
    BY <2>1, <2>2, Product
<1>2. CASE Start
  <2>1. spc' = "open" /\ Len(per_device') = 0 /\ wave' = wave
    BY <1>2 DEF Start
  <2> QED
    BY <1>1, <2>1
<1>3. CASE Open \/ Launch \/ Append_
  <2>1. /\ spc \in {"open", "launch", "append"} /\ spc' \in {"launch", "append", "gate"}
        /\ UNCHANGED <<wave, per_device>>
    BY <1>3 DEF Open, Launch, Append_, fileVars
  <2> QED
    BY <2>1
<1>4. CASE OpenGate
  <2>1. /\ spc = "gate" /\ spc' = "wait" /\ device' = 0 /\ wave_failures' = 0
        /\ UNCHANGED <<wave, per_device>>
    BY <1>4 DEF OpenGate
  <2> QED
    BY <1>1, <2>1
<1>5. CASE Wait
  <2>1. /\ spc = "wait" /\ spc' \in {"wait", "close"} /\ device' = device + 1
        /\ UNCHANGED wave
    BY <1>5 DEF Wait, NextWait
  <2>2. \/ UNCHANGED per_device /\ wave_failures' = wave_failures + 1
        \/ /\ per_device' = Append(per_device, <<wave, device>>)
           /\ UNCHANGED wave_failures
    BY <1>5 DEF Wait
  <2>3. Len(per_device') \in {Len(per_device), Len(per_device) + 1}
    BY <1>1, <2>2
  <2>4. wave_failures' \in {wave_failures, wave_failures + 1}
    BY <2>2
  <2> QED
    BY <1>1, <2>1, <2>3, <2>4
<1>6. CASE Close
  <2>1. /\ spc = "close" /\ spc' \in {"exited", "aggregate"} /\ device = NrDevices
        /\ UNCHANGED <<wave, per_device>>
    BY <1>6, CloseFacts DEF Close
  <2> QED
    BY <1>1, <2>1
<1>7. CASE Aggregate
  <2>1. /\ spc = "aggregate" /\ UNCHANGED per_device
        /\ \/ spc' = "open" /\ wave' = wave + 1
           \/ spc' \in {"done", "exited"}
    BY <1>7 DEF Aggregate
  <2> QED
    BY <1>1, <2>1
<1>8. CASE Fail \/ Crash \/ Restart
  <2>1. spc' \in {"exited", "dead", "start"}
    BY <1>8 DEF Fail, Crash, Restart
  <2> QED
    BY <2>1
<1>9. CASE Signal
  <2>1. UNCHANGED <<wave, per_device>>
    BY <1>9 DEF Signal, fileVars
  <2>2. CASE UNCHANGED <<spc, device, wave_failures>>
    BY <2>1, <2>2
  <2>3. CASE spc = "wait" /\ Interrupted
    <3>1. /\ spc = "wait" /\ spc' \in {"wait", "close"} /\ device' = device + 1
          /\ wave_failures' = wave_failures + 1
      BY <2>3 DEF Interrupted, NextWait
    <3> QED
      BY <1>1, <2>1, <3>1
  <2> QED
    BY <1>9, <2>2, <2>3 DEF Signal
<1>10. ASSUME NEW p \in Procs, Process(p)
       PROVE  LengthInv'
  BY <1>10, ProcessEffect DEF shellVars
<1>11. CASE UNCHANGED vars
  BY <1>11 DEF vars, shellVars, fileVars
<1> QED
  BY <1>2, <1>3, <1>4, <1>5, <1>6, <1>7, <1>8, <1>9, <1>10, <1>11 DEF Next, Script

LEMMA TableTypeStep ==
  ASSUME Assumptions, TypeOK, LaunchInv, LaunchInv', TablesInv, LengthInv, [Next]_vars
  PROVE  TableType'
<1> USE DEF TableType
<1>1. /\ TableType /\ wave \in Waves /\ device \in Nat /\ NrDevices \in Nat
      /\ Before(wave) \in Nat /\ AllRows \in Nat /\ Before(wave) + NrDevices <= AllRows
  BY TypeParts, Product DEF ShellType, Assumptions
<1>2. CASE Start
  <2>1. per_device' = <<>> /\ comparison' = <<>>
    BY <1>2 DEF Start
  <2>2. NrWaves \in Nat
    BY DEF Assumptions
  <2> QED
    BY <1>1, <2>1, <2>2
<1>3. CASE Wait
  <2>1. <<wave, device>> \in Procs /\ device < NrDevices
    BY <1>3, CurrentProc DEF Wait, LaunchInv
  <2>2. Len(per_device) <= Before(wave) + device
    BY <1>3 DEF Wait, LengthInv
  <2>3. UNCHANGED comparison /\ (per_device' = Append(per_device, <<wave, device>>)
                                  \/ UNCHANGED per_device)
    BY <1>3 DEF Wait
  <2>4. \A b, i \in Nat : b + NrDevices <= AllRows /\ i < NrDevices => b + i + 1 <= AllRows
    BY <1>1
  <2>5. Len(per_device) + 1 <= AllRows
    <3>1. Len(per_device) \in Nat
      BY <1>1
    <3> QED
      BY <1>1, <2>1, <2>2, <2>4, <3>1
  <2>6. CASE per_device' = Append(per_device, <<wave, device>>)
    BY <1>1, <2>1, <2>3, <2>5, <2>6
  <2> QED
    BY <1>1, <2>3, <2>6
<1>4. CASE Aggregate
  <2>1. UNCHANGED per_device /\ (comparison' = Append(comparison, wave)
                                  \/ UNCHANGED comparison)
    BY <1>4 DEF Aggregate
  <2>2. Len(comparison) = wave - 1
    BY <1>4 DEF Aggregate, TablesInv, Fresh, SumInv
  <2> QED
    BY <1>1, <2>1, <2>2 DEF Waves, Assumptions
<1>5. CASE Open \/ Launch \/ Append_ \/ OpenGate \/ Close \/ Fail \/ Signal \/ Crash \/ Restart
  BY <1>1, <1>5 DEF Open, Launch, Append_, OpenGate, Close, Fail, Signal, Crash, Restart,
                    fileVars
<1>6. ASSUME NEW p \in Procs, Process(p)
      PROVE  TableType'
  BY <1>1, <1>6, ProcessEffect
<1>7. CASE UNCHANGED vars
  BY <1>1, <1>7 DEF vars, fileVars
<1> QED
  BY <1>2, <1>3, <1>4, <1>5, <1>6, <1>7 DEF Next, Script

-----------------------------------------------------------------------------
(* The theorems *)

LEMMA InitIInv == Assumptions /\ Init => IInv
<1> SUFFICES ASSUME Assumptions, Init PROVE IInv
  OBVIOUS
<1>1. TypeOK
  <2>1. NrWaves * NrDevices \in Nat /\ 0 <= NrWaves * NrDevices /\ NrWaves \in Nat \ {0}
    BY Product DEF Assumptions
  <2>2. ShellType
    BY DEF Init, ShellType, Assumptions, Waves, Places
  <2>3. TableType
    BY <2>1 DEF Init, TableType, AllRows
  <2>4. ProcType
    BY DEF Init, ProcType, Contents, States
  <2> QED
    BY <2>2, <2>3, <2>4, TypeParts
<1>2. LaunchInv
  BY ProcParts DEF Init, LaunchInv, Launched
<1>3. RunInv
  BY DEF Init, RunInv, Running
<1>4. TablesInv
  BY DEF Init, TablesInv, Fresh
<1>5. LengthInv
  BY DEF Init, LengthInv
<1> QED
  BY <1>1, <1>2, <1>3, <1>4, <1>5 DEF IInv

LEMMA Inductive == Assumptions /\ IInv /\ [Next]_vars => IInv'
<1> SUFFICES ASSUME Assumptions, IInv, [Next]_vars PROVE IInv'
  OBVIOUS
<1> USE DEF IInv
<1>1. TypeOK'
  <2>1. ShellType'
    BY ShellTypeStep
  <2>2. ProcType'
    BY ProcTypeStep
  <2>3. LaunchInv'
    BY LaunchStep
  <2>4. TableType'
    BY <2>3, TableTypeStep
  <2> QED
    BY <2>1, <2>2, <2>4
    DEF TypeOK, ShellType, TableType, ProcType, Places, States, Contents, AllRows
<1>2. LaunchInv'
  BY <1>1, LaunchStep
<1>3. RunInv'
  BY <1>1, <1>2, RunStep
<1>4. TablesInv'
  BY <1>1, <1>2, TablesStep
<1>5. LengthInv'
  BY LengthStep
<1> QED
  BY <1>1, <1>2, <1>3, <1>4, <1>5

\* The sums are whole whatever happened before, and so says the column of the
\* number of processes.
LEMMA WholeSums ==
  ASSUME Assumptions, IInv
  PROVE  SumsAreWhole
<1> SUFFICES ASSUME NEW q \in Procs, proc[q] # "none",
                    NEW n \in DOMAIN comparison, NEW d \in Devices
             PROVE  LET p == <<comparison[n], d>> IN
                    /\ proc[p] = "succeeded" /\ output[p] = "valid"
                    /\ Cardinality({k \in DOMAIN per_device : per_device[k] = p}) = 1
                    /\ \A k \in DOMAIN comparison : comparison[k] = comparison[n] => k = n
  BY DEF SumsAreWhole
<1> DEFINE p == <<comparison[n], d>>
<1>1. RowInv /\ SumInv
  BY DEF IInv, TablesInv, Fresh
<1>2. /\ comparison[n] = n /\ n \in Waves /\ p \in Procs
      /\ \A k \in DOMAIN comparison : comparison[k] = k
  BY <1>1 DEF SumInv, IInv, TypeOK, Procs
<1>3. n < wave \/ (n = wave /\ spc = "done")
  <2>1. n \in 1..Len(comparison) /\ wave \in Nat
    BY DEF IInv, TypeOK, Waves
  <2> QED
    BY <1>1, <2>1 DEF SumInv
<1>4. HasRow(p)
  BY <1>1, <1>2, <1>3 DEF SumInv
<1>5. PICK k \in DOMAIN per_device : per_device[k] = p
  BY <1>4 DEF HasRow
<1>6. proc[p] = "succeeded" /\ output[p] = "valid"
  BY <1>1, <1>5 DEF RowInv, Accepted
<1>7. {l \in DOMAIN per_device : per_device[l] = p} = {k}
  BY <1>1, <1>5 DEF RowInv
<1>8. Cardinality({l \in DOMAIN per_device : per_device[l] = p}) = 1
  BY <1>7, FS_Singleton
<1> QED
  BY <1>2, <1>6, <1>8

\* For every number of configurations and devices, and however often the job is
\* signalled and restarted, processes stream only with all others of their wave and
\* with no other (worker.sh:140, 151, 163).
THEOREM ProcessesRunTogether == ASSUME Assumptions PROVE Spec => []WavesRunTogether
<1>1. IInv => WavesRunTogether
  BY DEF IInv, RunInv, WavesRunTogether, Running
<1> QED
  BY InitIInv, Inductive, <1>1, PTL DEF Spec

\* Every sum that a run of the script has written is over one row of each device, of
\* a process that ended well (worker.sh:174, 205-214).
THEOREM EverySumIsWhole == ASSUME Assumptions PROVE Spec => []SumsAreWhole
<1>1. IInv => SumsAreWhole
  BY WholeSums
<1> QED
  BY InitIInv, Inductive, <1>1, PTL DEF Spec

\* The types, with the lengths of the tables: no process has two rows, nor has a wave
\* (worker.sh:166-214).
THEOREM TypesAreKept == ASSUME Assumptions PROVE Spec => []TypeOK
BY InitIInv, Inductive, PTL DEF Spec, IInv
=============================================================================
