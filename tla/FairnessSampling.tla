-------------------------- MODULE FairnessSampling --------------------------
(***************************************************************************)
(* fairness.c after its barrier: the workers increment a shared counter in *)
(* passes of 50, first the unrelaxed loop and then the relaxed one, and    *)
(* add each pass to a counter of their own; main samples those counters in *)
(* every mode and, in each mode, for every line of global_counter.         *)
(*                                                                         *)
(* A pass is tagged with the mode of its loop and the line it increments,  *)
(* and so is what it adds to the counter; no guard reads the tags.  One    *)
(* assumption about time: a pass that is under way when main goes to sleep *)
(* ends before main wakes up (a pass takes microseconds, a time slice half *)
(* a second).                                                              *)
(***************************************************************************)
EXTENDS Naturals, FiniteSets

CONSTANTS
  NrWorkers,   \* nr_threads
  SweepMax,    \* -s
  SampleSize   \* -n

ASSUME FairnessAssumption ==
  NrWorkers \in Nat \ {0} /\ SweepMax \in Nat \ {0} /\ SampleSize \in Nat \ {0}

Workers == 1..NrWorkers

VARIABLES
  fpc, u,     \* main: location and index of the loop over the threads
  relaxed, sweep, sample_nr,  \* the loop variables of main
  sweep_id,   \* global_counter.sweep_id
  delayed,    \* the workers whose cpu is in delay_mask
  wpc,        \* worker: "delay", "loop", "aim" or "pass"
  mode,       \* the loop the worker is in
  line,       \* the line its pass increments
  sum,        \* the tags of the passes in x.count, per worker
  old,        \* the workers whose pass began before main went to sleep
  kept        \* the tags of the passes in the samples of this row

fairVars == <<fpc, u, relaxed, sweep, sample_nr, sweep_id, delayed, wpc, mode,
              line, sum, old, kept>>

Tags == (0..1) \X (0..(SweepMax - 1))

TypeOK ==
  /\ fpc \in {"mode", "sweep", "sleep", "collect", "done"}
  /\ u \in 1..(NrWorkers + 1) /\ relaxed \in 0..2
  /\ sweep \in 0..SweepMax /\ sample_nr \in 0..(SampleSize + 1)
  /\ sweep_id \in 0..(SweepMax - 1) /\ delayed \subseteq Workers
  /\ wpc \in [Workers -> {"delay", "loop", "aim", "pass"}]
  /\ mode \in [Workers -> 0..1] /\ line \in [Workers -> 0..(SweepMax - 1)]
  /\ sum \in [Workers -> SUBSET Tags]
  /\ old \subseteq Workers /\ kept \subseteq Tags

\* The shift 1u << cpu is undefined from cpu 32 on, so that any set of
\* workers may be delayed, whatever the mask.
Init ==
  /\ fpc = "mode" /\ u = 1 /\ relaxed = 0 /\ sweep = 0 /\ sample_nr = 0
  /\ sweep_id = 0 /\ delayed \in SUBSET Workers
  /\ wpc = [w \in Workers |-> IF w \in delayed THEN "delay" ELSE "loop"]
  /\ mode = [w \in Workers |-> 0] /\ line = mode
  /\ sum = [w \in Workers |-> {}] /\ old = {} /\ kept = {}

-----------------------------------------------------------------------------
(* The workers *)

WorkerRest == UNCHANGED <<fpc, u, relaxed, sweep, sample_nr, sweep_id, delayed, kept>>

\* sleep(1) is over.
Wake(w) ==
  /\ wpc[w] = "delay"
  /\ wpc' = [wpc EXCEPT ![w] = "loop"]
  /\ UNCHANGED <<mode, line, sum, old>> /\ WorkerRest

\* The test of relaxed: another pass, or the end of the first loop.  The
\* second goes on after main has left its own loop with relaxed = 2.
Test(w) ==
  /\ wpc[w] = "loop"
  /\ IF mode[w] = 0 /\ relaxed # 0
     THEN /\ mode' = [mode EXCEPT ![w] = 1]
          /\ wpc' = [wpc EXCEPT ![w] = IF w \in delayed THEN "delay" ELSE "loop"]
     ELSE wpc' = [wpc EXCEPT ![w] = "aim"] /\ UNCHANGED mode
  /\ UNCHANGED <<line, sum, old>> /\ WorkerRest

\* The pass reads the line once.
Aim(w) ==
  /\ wpc[w] = "aim"
  /\ line' = [line EXCEPT ![w] = sweep_id]
  /\ wpc' = [wpc EXCEPT ![w] = "pass"]
  /\ UNCHANGED <<mode, sum, old>> /\ WorkerRest

\* The 50 increments and their addition to x.count.
Pass(w) ==
  /\ wpc[w] = "pass"
  /\ sum' = [sum EXCEPT ![w] = @ \union {<<mode[w], line[w]>>}]
  /\ wpc' = [wpc EXCEPT ![w] = "loop"]
  /\ old' = old \ {w}
  /\ UNCHANGED <<mode, line>> /\ WorkerRest

-----------------------------------------------------------------------------
(* main *)

UnderWay == {w \in Workers : wpc[w] \in {"aim", "pass"}}
MainRest == UNCHANGED <<delayed, wpc, mode, line>>

\* The loops over relaxed and sweep, up to the start of the samples.
NextRow ==
  /\ \/ /\ fpc = "mode"
        /\ fpc' = IF relaxed < 2 THEN "sweep" ELSE "done"
        /\ sweep' = 0
        /\ UNCHANGED <<relaxed, sweep_id>>
     \/ /\ fpc = "sweep"
        /\ IF sweep < SweepMax
           THEN fpc' = "sleep" /\ sweep_id' = sweep /\ UNCHANGED relaxed
           ELSE fpc' = "mode" /\ relaxed' = relaxed + 1 /\ UNCHANGED sweep_id
        /\ UNCHANGED sweep
  /\ sample_nr' = 0 /\ u' = 1 /\ kept' = {}
  /\ old' = IF fpc' = "sleep" THEN UnderWay ELSE old
  /\ UNCHANGED sum /\ MainRest

\* usleep(time_slice): passes that were under way when it began end.
Sleep ==
  /\ fpc = "sleep"
  /\ IF sample_nr < SampleSize + 1
     THEN old = {} /\ fpc' = "collect" /\ u' = 1 /\ UNCHANGED sweep
     ELSE fpc' = "sweep" /\ sweep' = sweep + 1 /\ UNCHANGED u
  /\ UNCHANGED <<relaxed, sample_nr, sweep_id, sum, old, kept>> /\ MainRest

Bug_Drop == FALSE
\* The sample is thrown away.
Drop == sample_nr = 0

\* An iteration of the loop over the threads, then the report of the sample.
Collect ==
  /\ fpc = "collect"
  /\ IF u <= NrWorkers
     THEN /\ sum' = [sum EXCEPT ![u] = {}]
          /\ kept' = IF Drop THEN kept ELSE kept \union sum[u]
          /\ u' = u + 1
          /\ UNCHANGED <<fpc, sample_nr, old>>
     ELSE /\ fpc' = "sleep" /\ sample_nr' = sample_nr + 1 /\ old' = UnderWay
          /\ UNCHANGED <<u, sum, kept>>
  /\ UNCHANGED <<relaxed, sweep, sweep_id>> /\ MainRest

FairMain == NextRow \/ Sleep \/ Collect
Worker(w) == Wake(w) \/ Test(w) \/ Aim(w) \/ Pass(w)
Next == FairMain \/ \E w \in Workers : Worker(w)
Spec == Init /\ [][Next]_fairVars

-----------------------------------------------------------------------------
(* Properties *)

\* The samples that are printed consist of passes over the line and in the
\* mode of their row: the one sample thrown away takes with it all the
\* passes that began before main changed the line or the mode, although
\* mode and line change in two steps and each worker notices them when it
\* comes to test them (fairness.c:210-231).
RowsAreOfTheirPoint ==
  fpc \in {"sleep", "collect"} => kept \subseteq {<<relaxed, sweep_id>>}
=============================================================================
