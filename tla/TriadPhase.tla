----------------------------- MODULE TriadPhase -----------------------------
(***************************************************************************)
(* One phase of the controlled TRIAD campaign: run_phase of                *)
(* experiments/triad_partition_controlled/run_campaign.py, the N worker    *)
(* processes of triad_worker.hip it launches, and the UNIX-domain socket   *)
(* between them.                                                           *)
(*                                                                         *)
(* Worker i is the worker of spec['devices'][i-1].  The coordinator may be *)
(* interrupted by a SIGTERM or SIGINT at every step (a Python signal       *)
(* handler runs between any two bytecodes), may see an OSError from every  *)
(* I/O call, and may be killed; a worker may throw, crash, hang, be slow,  *)
(* or report a wrong identity.                                             *)
(*                                                                         *)
(* Time is kept only as far as the code compares it with the schedule: the *)
(* clock is unset, before lead, open (between lead and tail) or over.  A   *)
(* timeout may fire whenever its call is blocked.                          *)
(***************************************************************************)
EXTENDS Naturals, FiniteSets

CONSTANTS
  N,            \* number of devices of the phase, hence of workers
  MaxSignals    \* bound on the signals the coordinator receives

ASSUME NAssumption == N \in Nat \ {0}
ASSUME MaxSignalsAssumption == MaxSignals \in Nat

Workers == 1..N

VARIABLES
  cpc,        \* where run_phase is
  cur,        \* index of the worker a loop of run_phase is at
  outcome,    \* how run_phase will end or has ended
  processes,  \* number of processes appended to the list `processes`
  reading,    \* the worker whose connection read_line is reading, 0 if none
  backlog,    \* workers connected but not yet accepted
  open,       \* workers whose accepted connection is open at the coordinator
  seen,       \* the set `seen` of workers that were checked ready
  started,    \* workers to which START was sent
  clock,      \* monotonic time relative to lead_ns and tail_ns
  status,     \* contents of status.json
  signals,    \* number of signals received so far
  wpc,        \* where each worker's main is
  ready,      \* the ready message each worker has sent
  result,     \* contents of each worker's result.json
  code,       \* exit status of each worker process
  sig         \* signal pending at each worker's process group

coordVars  == <<cpc, cur, outcome, processes, reading, seen, started, status>>
workerVars == <<wpc, ready, result, code>>
vars == <<cpc, cur, outcome, processes, reading, backlog, open, seen, started,
          clock, status, signals, wpc, ready, result, code, sig>>

-----------------------------------------------------------------------------
(* Program locations *)

\* The `with socket` block: the server socket listens from the end of "open"
\* until the block is left, normally or by an exception.
ServingPcs == {"spawn", "append", "accept", "read", "plan", "start", "wait", "check"}
\* The body of the try statement.
TryPcs == {"open", "commit", "committing", "returning"} \union ServingPcs
\* The except clause.
HandlerPcs == {"term", "reap", "reapkill", "record", "recording"}

Listening == cpc \in ServingPcs
\* The coordinator's end of w's connection exists.
PeerOpen(w) == w \in open \/ (w \in backlog /\ Listening)

Exited(w) == wpc[w] = "exited"
Live(w) == wpc[w] \notin {"absent", "exited"}
\* w has accepted the schedule and may be using its device for the measurement.
MeasuringPcs == {"spinning", "measuring", "validating", "writing", "reporting"}

TypeOK ==
  /\ cpc \in TryPcs \union HandlerPcs \union {"prepare", "finally", "returned", "dead"}
  /\ cur \in 1..(N+1)
  /\ outcome \in {"none", "true", "false", "raise"}
  /\ processes \in 0..N
  /\ reading \in 0..N
  /\ backlog \subseteq Workers
  /\ open \subseteq Workers
  /\ seen \subseteq Workers
  /\ started \subseteq Workers
  /\ clock \in {"unset", "before", "open", "over"}
  /\ status \in {"absent", "torn", "ok", "failed"}
  /\ signals \in 0..MaxSignals
  /\ wpc \in [Workers -> MeasuringPcs \union
                {"absent", "setup", "connected", "waiting", "exited"}]
  /\ ready \in [Workers -> {"none", "match", "mismatch"}]
  /\ result \in [Workers -> {"none", "torn", "ok", "invalid", "failed"}]
  /\ code \in [Workers -> {"running", "zero", "nonzero"}]
  /\ sig \in [Workers -> {"none", "TERM", "KILL"}]

Init ==
  /\ cpc = "prepare" /\ cur = 1 /\ outcome = "none" /\ processes = 0
  /\ reading = 0 /\ backlog = {} /\ open = {} /\ seen = {} /\ started = {}
  /\ clock = "unset" /\ status = "absent" /\ signals = 0
  /\ wpc = [w \in Workers |-> "absent"]
  /\ ready = [w \in Workers |-> "none"]
  /\ result = [w \in Workers |-> "none"]
  /\ code = [w \in Workers |-> "running"]
  /\ sig = [w \in Workers |-> "none"]

-----------------------------------------------------------------------------
(* The coordinator: the body of run_phase *)

\* root.mkdir and the first phase.json, before the try statement: an error
\* here leaves run_phase without entering its handler.
CPrepare ==
  /\ cpc = "prepare"
  /\ \/ cpc' = "open" /\ UNCHANGED outcome
     \/ cpc' = "returned" /\ outcome' = "raise"
  /\ UNCHANGED <<cur, processes, reading, backlog, open, seen, started, clock,
                 status, signals, workerVars, sig>>

\* The temporary directory and the listening socket.
COpen ==
  /\ cpc = "open"
  /\ cpc' = "spawn"
  /\ UNCHANGED <<cur, outcome, processes, reading, backlog, open, seen, started,
                 clock, status, signals, workerVars, sig>>

\* The process of the next device exists as soon as Popen has forked ...
CPopen ==
  /\ cpc = "spawn"
  /\ processes < N
  /\ wpc' = [wpc EXCEPT ![processes + 1] = "setup"]
  /\ cpc' = "append"
  /\ UNCHANGED <<cur, outcome, processes, reading, backlog, open, seen, started,
                 clock, status, signals, ready, result, code, sig>>

\* ... and is known to run_phase only once it is in the list.
CAppend ==
  /\ cpc = "append"
  /\ processes' = processes + 1
  /\ cpc' = IF processes' = N THEN "accept" ELSE "spawn"
  /\ UNCHANGED <<cur, outcome, reading, backlog, open, seen, started,
                 clock, status, signals, workerVars, sig>>

\* One accept per device, from the listen queue.
CAccept(w) ==
  /\ cpc = "accept"
  /\ w \in backlog
  /\ backlog' = backlog \ {w}
  /\ open' = open \union {w}
  /\ reading' = w
  /\ cpc' = "read"
  /\ UNCHANGED <<cur, outcome, processes, seen, started, clock, status, signals,
                 workerVars, sig>>

Bug_CReady ==    \* stops accepting after the first ready worker
  /\ cpc = "read"
  /\ ready[reading] = "match"
  /\ seen' = seen \union {reading}
  /\ reading' = 0
  /\ cpc' = "plan"
  /\ UNCHANGED <<cur, outcome, processes, backlog, open, started, clock, status,
                 signals, workerVars, sig>>

\* read_line returned the whole message and it passed the identity checks; the
\* bytes stay readable after the worker is gone.
CReady ==
  /\ cpc = "read"
  /\ ready[reading] = "match"
  /\ reading \notin seen
  /\ seen' = seen \union {reading}
  /\ reading' = 0
  /\ cpc' = IF seen' = Workers THEN "plan" ELSE "accept"
  /\ UNCHANGED <<cur, outcome, processes, backlog, open, started, clock, status,
                 signals, workerVars, sig>>

\* The common schedule: lead is in the future when it is computed.
CPlan ==
  /\ cpc = "plan"
  /\ clock' = "before"
  /\ cpc' = "start"
  /\ UNCHANGED <<cur, outcome, processes, reading, backlog, open, seen, started,
                 status, signals, workerVars, sig>>

\* START goes to one connection after another.  Sending to a worker whose end
\* is closed raises (see CReject).
CStart(w) ==
  /\ cpc = "start"
  /\ w \in open \ started
  /\ ~Exited(w)
  /\ started' = started \union {w}
  /\ cpc' = IF started' = open THEN "wait" ELSE "start"
  /\ UNCHANGED <<cur, outcome, processes, reading, backlog, open, seen, clock,
                 status, signals, workerVars, sig>>

\* proc.wait, in device order.
CWait ==
  /\ cpc = "wait"
  /\ Exited(cur)
  /\ cur' = cur + 1
  /\ cpc' = IF cur = N THEN "check" ELSE "wait"
  /\ UNCHANGED <<outcome, processes, reading, backlog, open, seen, started, clock,
                 status, signals, workerVars, sig>>

Bug_Accepts == \A w \in Workers : result[w] = "ok"    \* ignores the exit statuses

\* Every exit status is 0 and every result.json says ok with no wrong element.
Accepts == \A w \in Workers : code[w] = "zero" /\ result[w] = "ok"

CCheck ==
  /\ cpc = "check"
  /\ Accepts
  /\ cpc' = "commit"
  /\ UNCHANGED <<cur, outcome, processes, reading, backlog, open, seen, started,
                 clock, status, signals, workerVars, sig>>

\* write_text truncates the file before it writes it.
CCommit ==
  /\ \/ cpc = "commit" /\ status' = "torn" /\ cpc' = "committing"
     \/ cpc = "committing" /\ status' = "ok" /\ cpc' = "returning"
  /\ UNCHANGED <<cur, outcome, processes, reading, backlog, open, seen, started,
                 clock, signals, workerVars, sig>>

CReturn ==
  /\ cpc = "returning"
  /\ outcome' = "true"
  /\ cpc' = "finally"
  /\ UNCHANGED <<cur, processes, reading, backlog, open, seen, started, clock,
                 status, signals, workerVars, sig>>

-----------------------------------------------------------------------------
(* The coordinator: exceptions *)

Bug_Handle(how) ==    \* indexes the list of processes from 0
  /\ cpc' = "term"
  /\ cur' = 0
  /\ outcome' = how
  /\ UNCHANGED <<processes, reading, backlog, open, seen, started, clock, status,
                 workerVars, sig>>

\* Entering the except clause; the with blocks close the server socket first.
Handle(how) ==
  /\ cpc' = "term"
  /\ cur' = 1
  /\ outcome' = how
  /\ UNCHANGED <<processes, reading, backlog, open, seen, started, clock, status,
                 workerVars, sig>>

\* A check or a call of run_phase that cannot succeed any more: end of file
\* before the ready line, a wrong or repeated identity, a broken pipe at START,
\* a failed exit or result.
CReject ==
  /\ \/ cpc = "read" /\ Exited(reading) /\ ready[reading] = "none"
     \/ cpc = "read" /\ (ready[reading] = "mismatch" \/ reading \in seen)
     \/ cpc = "start" /\ \E w \in open \ started : Exited(w)
     \/ cpc = "check" /\ ~Accepts
  /\ Handle("false")
  /\ UNCHANGED signals

Bug_Blocked ==    \* an accept without a timeout
  \/ cpc = "read" /\ ready[reading] = "none"
  \/ cpc = "wait" /\ ~Exited(cur)

\* The calls that block with a timeout: accept, recv and wait.
Blocked ==
  \/ cpc = "accept" /\ backlog = {}
  \/ cpc = "read" /\ ready[reading] = "none"
  \/ cpc = "wait" /\ ~Exited(cur)

CTimeout ==
  /\ Blocked
  /\ Handle("false")
  /\ UNCHANGED signals

\* mkdir, open, bind, Popen, json and write may fail; the list append, the
\* return and the comparison of exit codes do not.
COSError ==
  /\ cpc \in TryPcs \ {"append", "wait", "returning"}
  /\ Handle("false")
  /\ UNCHANGED signals

-----------------------------------------------------------------------------
(* The coordinator: terminate, the rest of the except clause, and finally *)

\* SIGTERM to the process group of every listed process still running.
CTerm ==
  /\ cpc = "term"
  /\ IF cur <= processes
     THEN /\ cur' = cur + 1
          /\ sig' = IF Exited(cur) THEN sig ELSE [sig EXCEPT ![cur] = "TERM"]
          /\ UNCHANGED cpc
     ELSE cpc' = "reap" /\ cur' = 1 /\ UNCHANGED sig
  /\ UNCHANGED <<outcome, processes, reading, backlog, open, seen, started, clock,
                 status, signals, workerVars>>

Bug_CReap ==    \* gives up on a process that outlives the deadline
  /\ cpc = "reap"
  /\ IF cur > processes THEN cpc' = "record" /\ UNCHANGED cur
     ELSE cur' = cur + 1 /\ UNCHANGED cpc
  /\ UNCHANGED <<outcome, processes, reading, backlog, open, seen, started, clock,
                 status, signals, workerVars, sig>>

\* proc.wait with what is left of two seconds, then SIGKILL ...
CReap ==
  /\ cpc = "reap"
  /\ IF cur > processes THEN cpc' = "record" /\ UNCHANGED <<cur, sig>>
     ELSE \/ Exited(cur) /\ cur' = cur + 1 /\ UNCHANGED <<cpc, sig>>
          \/ /\ ~Exited(cur)
             /\ sig' = [sig EXCEPT ![cur] = "KILL"]
             /\ cpc' = "reapkill"
             /\ UNCHANGED cur
  /\ UNCHANGED <<outcome, processes, reading, backlog, open, seen, started, clock,
                 status, signals, workerVars>>

Bug_CReapKill ==    \* does not wait for the killed process
  /\ cpc = "reapkill"
  /\ cur' = cur + 1
  /\ cpc' = "reap"
  /\ UNCHANGED <<outcome, processes, reading, backlog, open, seen, started, clock,
                 status, signals, workerVars, sig>>

\* ... and a wait without a timeout.
CReapKill ==
  /\ cpc = "reapkill"
  /\ Exited(cur)
  /\ cur' = cur + 1
  /\ cpc' = "reap"
  /\ UNCHANGED <<outcome, processes, reading, backlog, open, seen, started, clock,
                 status, signals, workerVars, sig>>

\* status.json is overwritten, whatever it said before.
CRecord ==
  /\ \/ cpc = "record" /\ status' = "torn" /\ cpc' = "recording"
     \/ cpc = "recording" /\ status' = "failed" /\ cpc' = "finally"
  /\ UNCHANGED <<cur, outcome, processes, reading, backlog, open, seen, started,
                 clock, signals, workerVars, sig>>

\* An exception raised inside the except clause leaves through finally.
CRecordOSError ==
  /\ cpc \in {"record", "recording"}
  /\ outcome' = "raise"
  /\ cpc' = "finally"
  /\ UNCHANGED <<cur, processes, reading, backlog, open, seen, started, clock,
                 status, signals, workerVars, sig>>

CFinally ==
  /\ cpc = "finally"
  /\ open' = {}
  /\ cpc' = "returned"
  /\ UNCHANGED <<cur, outcome, processes, reading, backlog, seen, started, clock,
                 status, signals, workerVars, sig>>

\* A KeyboardInterrupt: SIGINT, or SIGTERM through main's handler.
CSignal ==
  /\ signals < MaxSignals
  /\ signals' = signals + 1
  /\ \/ cpc \in TryPcs /\ Handle("raise")
     \/ /\ cpc \in HandlerPcs
        /\ cpc' = "finally"
        /\ outcome' = "raise"
        /\ UNCHANGED <<cur, processes, reading, backlog, open, seen, started, clock,
                       status, workerVars, sig>>
     \/ /\ cpc \in {"prepare", "finally"}
        /\ cpc' = "returned"
        /\ outcome' = "raise"
        /\ UNCHANGED <<cur, processes, reading, backlog, open, seen, started, clock,
                       status, workerVars, sig>>

\* The coordinator process is gone: killed at any moment, or exiting because the
\* exception run_phase raised is not caught.  The kernel closes its sockets.
CGone ==
  /\ cpc # "dead"
  /\ cpc = "returned" => outcome = "raise"
  /\ cpc' = "dead"
  /\ open' = {}
  /\ UNCHANGED <<cur, outcome, processes, reading, backlog, seen, started, clock,
                 status, signals, workerVars, sig>>

-----------------------------------------------------------------------------
(* The workers: main of triad_worker.hip *)

\* Allocation and warm-up are done and the connection is in the listen queue.
WConnect(w) ==
  /\ wpc[w] = "setup"
  /\ Listening
  /\ wpc' = [wpc EXCEPT ![w] = "connected"]
  /\ backlog' = backlog \union {w}
  /\ UNCHANGED <<coordVars, open, clock, signals, ready, result, code, sig>>

\* The ready message carries the identity and affinity the worker found.
WReady(w) ==
  /\ wpc[w] = "connected"
  /\ PeerOpen(w)
  /\ \E m \in {"match", "mismatch"} : ready' = [ready EXCEPT ![w] = m]
  /\ wpc' = [wpc EXCEPT ![w] = "waiting"]
  /\ UNCHANGED <<coordVars, backlog, open, clock, signals, result, code, sig>>

\* The schedule arrived in time.
WStart(w) ==
  /\ wpc[w] = "waiting"
  /\ w \in started
  /\ clock = "before"
  /\ wpc' = [wpc EXCEPT ![w] = "spinning"]
  /\ UNCHANGED <<coordVars, backlog, open, clock, signals, ready, result, code, sig>>

\* The spin to lead is over; batches run until a batch ends after tail.
WMeasure(w) ==
  /\ \/ wpc[w] = "spinning" /\ clock # "before" /\ wpc' = [wpc EXCEPT ![w] = "measuring"]
     \/ wpc[w] = "measuring" /\ clock = "over" /\ wpc' = [wpc EXCEPT ![w] = "validating"]
  /\ UNCHANGED <<coordVars, backlog, open, clock, signals, ready, result, code, sig>>

\* Opening result.json truncates it; then the verdict of validate_arrays is written.
WResult(w) ==
  /\ \/ /\ wpc[w] = "validating"
        /\ wpc' = [wpc EXCEPT ![w] = "writing"]
        /\ result' = [result EXCEPT ![w] = "torn"]
     \/ /\ wpc[w] = "writing"
        /\ wpc' = [wpc EXCEPT ![w] = "reporting"]
        /\ \E r \in {"ok", "invalid"} : result' = [result EXCEPT ![w] = r]
  /\ UNCHANGED <<coordVars, backlog, open, clock, signals, ready, code, sig>>

\* "done" is sent and main returns errors ? 2 : 0.  The profiler around a traced
\* worker may still fail.
WExit(w) ==
  /\ wpc[w] = "reporting"
  /\ PeerOpen(w)
  /\ wpc' = [wpc EXCEPT ![w] = "exited"]
  /\ \E c \in {"zero", "nonzero"} :
       /\ c = "zero" => result[w] = "ok"
       /\ code' = [code EXCEPT ![w] = c]
  /\ UNCHANGED <<coordVars, backlog, open, clock, signals, ready, result, sig>>

\* The catch clause: the result is replaced by a failure if it can be written.
Fail(w) ==
  /\ wpc' = [wpc EXCEPT ![w] = "exited"]
  /\ code' = [code EXCEPT ![w] = "nonzero"]
  /\ \E r \in {"failed", "torn", result[w]} : result' = [result EXCEPT ![w] = r]
  /\ UNCHANGED <<coordVars, backlog, open, clock, signals, ready, sig>>

Bug_Fails(w) ==    \* receives START without SO_RCVTIMEO and ignores end of file
  \/ wpc[w] = "setup" /\ ~Listening
  \/ wpc[w] = "connected" /\ ~PeerOpen(w)
  \/ wpc[w] = "waiting" /\ w \in started /\ clock # "before"
  \/ wpc[w] = "reporting" /\ ~PeerOpen(w)

\* A call of main that cannot succeed any more: connect with nobody listening, a
\* send to a closed peer, end of file or a timeout before START, a late schedule.
Fails(w) ==
  \/ wpc[w] = "setup" /\ ~Listening
  \/ wpc[w] = "connected" /\ ~PeerOpen(w)
  \/ wpc[w] = "waiting" /\ w \notin started
  \/ wpc[w] = "waiting" /\ w \in started /\ clock # "before"
  \/ wpc[w] = "reporting" /\ ~PeerOpen(w)

WFail(w) == Fails(w) /\ Fail(w)

\* A check of the environment or the device, an allocation, a launch or a HIP call
\* that throws.
WThrow(w) ==
  /\ wpc[w] \in {"setup", "connected", "measuring", "validating", "writing"}
  /\ Fail(w)

\* The process dies without running its catch clause: a crash, or a signal.
Die(w) ==
  /\ Live(w)
  /\ wpc' = [wpc EXCEPT ![w] = "exited"]
  /\ code' = [code EXCEPT ![w] = "nonzero"]
  /\ UNCHANGED <<coordVars, backlog, open, clock, signals, ready, result, sig>>

WCrash(w) == sig[w] = "none" /\ Die(w)
WKilled(w) == sig[w] # "none" /\ Die(w)

\* Monotonic time passes lead_ns, then tail_ns.
Tick ==
  /\ \/ clock = "before" /\ clock' = "open"
     \/ clock = "open" /\ clock' = "over"
  /\ UNCHANGED <<coordVars, backlog, open, signals, workerVars, sig>>

-----------------------------------------------------------------------------
\* The steps run_phase takes on its own, a timeout being one.
CStep ==
  \/ CPrepare \/ COpen \/ CPopen \/ CAppend \/ CReady \/ CPlan
  \/ \E w \in Workers : CAccept(w) \/ CStart(w)
  \/ CWait \/ CCheck \/ CCommit \/ CReturn \/ CReject \/ CTimeout
  \/ CTerm \/ CReap \/ CReapKill \/ CRecord \/ CFinally

\* The steps a worker takes on its own.
WStep(w) ==
  WConnect(w) \/ WReady(w) \/ WStart(w) \/ WMeasure(w) \/ WResult(w) \/ WExit(w) \/ WFail(w)

Next ==
  \/ CStep \/ COSError \/ CRecordOSError \/ CSignal \/ CGone
  \/ \E w \in Workers : WStep(w) \/ WThrow(w) \/ WCrash(w) \/ WKilled(w)
  \/ Tick

Spec == Init /\ [][Next]_vars

\* The coordinator runs, its timeouts expire and SIGKILL is delivered; nothing is
\* assumed of the workers.
CoordFairness ==
  /\ WF_vars(CStep)
  /\ \A w \in Workers : WF_vars(sig[w] = "KILL" /\ WKilled(w))

\* The workers run and time passes; nothing is assumed of the coordinator.
WorkerFairness ==
  /\ WF_vars(Tick)
  /\ \A w \in Workers : WF_vars(WStep(w))

-----------------------------------------------------------------------------
(* Properties *)

\* status.json says "ok" only when every worker was checked ready, was sent the
\* schedule, exited with 0 and left a result that says ok.  Bites at
\* run_campaign.py:138-142: the file outlives everything it was derived from.
OkIsSound ==
  status = "ok" =>
    /\ seen = Workers /\ started = Workers
    /\ \A w \in Workers : Exited(w) /\ code[w] = "zero" /\ result[w] = "ok"

\* No worker uses its device for the measurement while another worker of the
\* phase is still to be launched, allocating or warming up (the accept loop of
\* run_campaign.py:115-125 is a barrier in front of START).
WarmupNeverOverlaps ==
  (\E w \in Workers : wpc[w] \in MeasuringPcs) =>
    \A v \in Workers : wpc[v] \notin {"absent", "setup", "connected"}

\* When run_phase returns, with either answer, no process of the phase is left to
\* disturb the next one: on success all were waited for, on failure terminate
\* has waited for all of them (run_campaign.py:63-80, 144-151).
NothingLeftRunning ==
  cpc = "returned" /\ outcome \in {"true", "false"} => \A w \in Workers : ~Live(w)

\* status.json says "failed" only after every listed process has ended, however
\* many signals arrived and whatever was raised inside terminate.  What may still
\* run is one process that Popen had forked and that was not yet in the list
\* (run_campaign.py:112), and that one never measures.
FailedMeansStopped ==
  status = "failed" =>
    \A w \in Workers : Live(w) => w = processes + 1 /\ wpc[w] \notin MeasuringPcs

\* run_phase ends whatever its workers do: every call that waits for them has a
\* timeout, except the wait after SIGKILL.
PhaseReturns == CoordFairness => <>(cpc \in {"returned", "dead"})

\* A worker ends whatever happens to the coordinator: connect, send and recv
\* notice that it is gone or time out, and the measurement ends with the clock.
WorkersEnd == WorkerFairness => \A w \in Workers : Live(w) ~> Exited(w)

-----------------------------------------------------------------------------
(* The contract of a phase *)

\* What has become of a worker, from its location and its exit status.
StageOf(p, c) ==
  CASE p = "absent" -> "out"
    [] p \in {"setup", "connected", "waiting"} -> "up"
    [] p \in MeasuringPcs -> "measuring"
    [] p = "exited" -> IF c = "zero" THEN "good" ELSE "bad"

Stage == [w \in Workers |-> StageOf(wpc[w], code[w])]

Verdict == IF status \in {"ok", "failed"} THEN status ELSE "none"

Ended ==
  CASE cpc = "returned" /\ outcome = "true" -> "success"
    [] cpc = "returned" /\ outcome = "false" -> "failure"
    [] cpc = "dead" \/ (cpc = "returned" /\ outcome = "raise") -> "abandoned"
    [] OTHER -> "no"

Contract ==
  INSTANCE PhaseContract WITH
    Workers <- Workers, stage <- Stage, arrived <- seen, verdict <- Verdict, ended <- Ended

\* A phase implements its contract: the barrier, the verdict and the way it ends
\* are those PhaseContract promises to the campaign loop (run_campaign.py:82-156).
ImplementsContract == Contract!Spec

=============================================================================
