------------------------------ MODULE Fairness ------------------------------
(***************************************************************************)
(* A run of fairness.c: main and the workers meet in wait_for_startup, and *)
(* each goes on to its loops when it leaves it.                            *)
(***************************************************************************)
EXTENDS FairnessSampling

CONSTANT Spurious   \* of StartupBarrier

VARIABLES nr_to_startup, wait_mutex, pc, executable, alive   \* of StartupBarrier

Barrier == INSTANCE StartupBarrier WITH
  NrThreads <- NrWorkers, MainCounts <- TRUE, Branch <- FALSE

barrierVars == <<nr_to_startup, wait_mutex, pc, executable, alive>>
runVars == <<fairVars, barrierVars>>

Started(p) == alive /\ pc[p] = "go"
RunInit == Init /\ Barrier!Init

\* Before the last row the process ends only by exit(1).
BarrierStep ==
  /\ Barrier!Next
  /\ pc[0] = "go" /\ ~alive' => fpc = "done"
  /\ UNCHANGED fairVars

\* Main is 0 in the barrier.
MainRuns == Started(0) /\ FairMain /\ UNCHANGED barrierVars
Runs(w) == Started(w) /\ Worker(w) /\ UNCHANGED barrierVars

RunNext == BarrierStep \/ MainRuns \/ \E w \in Workers : Runs(w)
RunSpec == RunInit /\ [][RunNext]_runVars
=============================================================================
