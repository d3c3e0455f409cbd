----------------------------- MODULE Multichase -----------------------------
(***************************************************************************)
(* A run of multichase after its options: the startup barrier, then the    *)
(* chases of the threads and the samples main takes of them.  Whoever has  *)
(* left the barrier goes on while others may still be in it.               *)
(***************************************************************************)
EXTENDS StartupBarrier

CONSTANTS Kernels, SampleCounts, MaxRounds, MaxSamples   \* of ChaseSampling

ASSUME MainAssumption == ~MainCounts

VARIABLES cpc, i, kernel, timed, n, sample_no, cur_samples, now, last, total,
          stalls, sum_of, count, made, dropped

Sampling == INSTANCE ChaseSampling
chaseVars == <<cpc, i, kernel, timed, n, sample_no, cur_samples, now, last, total,
               stalls, sum_of, count, made, dropped>>
runVars == <<vars, chaseVars>>

Over == cpc \in {"done", "died"}

RunInit == Init /\ Sampling!Init

\* Before the samples are taken the process ends only by exit(1).
BarrierStep ==
  /\ Next
  /\ pc[Main] = "go" /\ ~alive' => Over
  /\ UNCHANGED chaseVars

Chasing(t) == alive /\ pc[t] = "go" /\ Sampling!Round(t) /\ UNCHANGED vars
MainSamples == alive /\ pc[Main] = "go" /\ Sampling!ChaseMain /\ UNCHANGED vars

RunNext == BarrierStep \/ MainSamples \/ \E t \in Threads : Chasing(t)

RunSpec == RunInit /\ [][RunNext]_runVars
=============================================================================
