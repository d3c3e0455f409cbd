----------------------------- MODULE Multiload ------------------------------
(***************************************************************************)
(* A run of multiload after its options: the startup barrier, then the     *)
(* passes of the threads and the samples main takes of them.  Whoever has  *)
(* left the barrier goes on while others may still be in it: main may ask  *)
(* for samples of threads that have not come out of pthread_cond_wait.     *)
(***************************************************************************)
EXTENDS LoadSampling

VARIABLES nr_to_startup, wait_mutex, pc, executable, alive   \* of StartupBarrier

Barrier == INSTANCE StartupBarrier WITH
  NrThreads <- NrChase + NrLoad, MainCounts <- FALSE, Branch <- FALSE, Spurious <- FALSE

barrierVars == <<nr_to_startup, wait_mutex, pc, executable, alive>>
runVars == <<vars, barrierVars>>

\* The barrier numbers the threads from 1 and main 0.
Started(t) == alive /\ pc[t + 1] = "go"
MainStarted == alive /\ pc[0] = "go"

RunInit == Init /\ Barrier!Init

\* Before the samples are taken the process ends only by exit(1).
BarrierStep ==
  /\ Barrier!Next
  /\ pc[0] = "go" /\ ~alive' => ~Running
  /\ UNCHANGED vars

MainSamples == MainStarted /\ MainStep /\ UNCHANGED barrierVars
Chases(t) == Started(t) /\ Chase(t) /\ UNCHANGED barrierVars
Loads(t) == Started(t) /\ LoadStep(t) /\ UNCHANGED barrierVars

RunNext ==
  \/ BarrierStep \/ MainSamples
  \/ \E t \in ChaseThreads : Chases(t)
  \/ \E t \in LoadThreads : Loads(t)

RunSpec == RunInit /\ [][RunNext]_runVars

\* Every thread runs on a cpu of its own, in the barrier and after it.
RunFairness ==
  /\ Barrier!Fairness /\ WF_runVars(MainSamples)
  /\ \A t \in ChaseThreads : WF_runVars(Chases(t))
  /\ \A t \in LoadThreads : WF_runVars(Loads(t))

-----------------------------------------------------------------------------
(* Properties *)

\* Main gets all its samples, from threads that it may have asked before they
\* came out of the barrier, unless the process ends before it samples
\* (multiload.c:830-846, 1302-1361).
RunEnds == <>(~alive \/ mpc = "exited")
=============================================================================
