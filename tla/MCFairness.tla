----------------------------- MODULE MCFairness -----------------------------
(* One run of TLC for the two programs that measure the exchange of a cache
   line between cpus: fairness (Fairness) and pingpong (Pingpong).  Init
   chooses the program; the other keeps its initial state. *)
EXTENDS Fairness

CONSTANTS
  Programs,
  Cpus, TestedCores, NrSamples, Batch, MaxExchanges   \* of Pingpong

VARIABLES
  prog,
  mpc, fn, nr_tested_cores, i, j, core, sample_no, taken, printed, stop_loops,
  nr_pingpongs, pingpong_mutex, wait_for_buddy, mapped, word, tpc, cache, nr,
  last_lo, exch, spurious

Pair == INSTANCE Pingpong

pairVars == <<mpc, fn, nr_tested_cores, i, j, core, sample_no, taken, printed,
              stop_loops, nr_pingpongs, pingpong_mutex, wait_for_buddy, mapped, word,
              tpc, cache, nr, last_lo, exch, spurious>>
allVars == <<prog, runVars, pairVars>>

ASSUME PairAssumption == Pair!Assumptions

MCInit ==
  /\ prog \in Programs
  /\ RunInit /\ Pair!Init
  /\ prog # "fairness" => delayed = {}

MCNext ==
  /\ UNCHANGED prog
  /\ \/ prog = "fairness" /\ RunNext /\ UNCHANGED pairVars
     \/ prog = "pingpong" /\ Pair!Next /\ UNCHANGED runVars

MCSpec == /\ MCInit /\ [][MCNext]_allVars
          /\ prog = "fairness" => Barrier!Fairness
          /\ prog = "pingpong" => Pair!Fairness

-----------------------------------------------------------------------------
(* The properties of the programs *)

\* Types of both programs.
MCTypeOK == TypeOK /\ Barrier!TypeOK /\ Pair!TypeOK

\* pingpong.c:131-137, see Pingpong.
ExchangesAlternate == Pair!ExchangesAlternate
\* pingpong.c:262-304, see Pingpong.
TableIsSound == Pair!TableIsSound
\* pingpong.c:71-94, 314-329, see Pingpong.
PagesOutliveTheirUse == Pair!PagesOutliveTheirUse

\* fairness.c:56-66, see StartupBarrier.
BarrierOpens == prog = "fairness" => Barrier!EveryoneStarts
\* pingpong.c:314-323, see Pingpong.
EveryPairEnds == prog = "pingpong" => Pair!EveryPairEnds
=============================================================================
