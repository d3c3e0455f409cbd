--------------------------- MODULE Fairness_proofs ---------------------------
(***************************************************************************)
(* Proofs about FairnessSampling, and about the runs of MCFairness         *)
(* composed of it, of the barrier and of Pingpong, for every number of     *)
(* workers, lines, samples and cpus.                                       *)
(*                                                                         *)
(* While main takes the samples of a row, a pass that began after it went  *)
(* to sleep is in the mode and on the line of the row (PassInv); so what a *)
(* counter holds is pure once it has been emptied with no old pass left    *)
(* (SumInv), and that is what the one dropped sample achieves. The last    *)
(* section carries what is proved of the barrier and of the pairs over to  *)
(* the runs.                                                               *)
(***************************************************************************)
EXTENDS MCFairness, TLAPS

Sampled == fpc \in {"sleep", "collect"}
Point == <<relaxed, sweep_id>>

\* Where the loops of main are; the mode of a worker is never ahead of relaxed.
LoopInv ==
  /\ fpc \in {"sweep", "sleep", "collect"} => relaxed < 2
  /\ Sampled => sweep < SweepMax
  /\ fpc = "collect" => sample_nr <= SampleSize
  /\ \A w \in Workers : mode[w] = 1 => relaxed # 0

\* The pass of w, if it is making one, belongs to the row.
OfTheRow(w) ==
  /\ wpc[w] \in {"aim", "pass"} => mode[w] = relaxed
  /\ wpc[w] = "pass" => line[w] = sweep_id

PassInv ==
  /\ fpc = "collect" => old = {}
  /\ Sampled => \A w \in Workers : (w \notin old \/ sample_nr > 0) => OfTheRow(w)

SumInv ==
  Sampled => \A w \in Workers :
    sample_nr > 0 \/ (fpc = "collect" /\ w < u) => sum[w] \subseteq {Point}

\* `old` is reset at the beginning of each sleep: at the first one nothing has been
\* collected.
IInv == TypeOK /\ LoopInv /\ PassInv /\ SumInv /\ RowsAreOfTheirPoint

LEMMA TypeInit == Init => TypeOK
  BY FairnessAssumption DEF Init, TypeOK, Workers, Tags

LEMMA TypeStep == TypeOK /\ LoopInv /\ [Next]_fairVars => TypeOK'
<1> SUFFICES ASSUME TypeOK, LoopInv, [Next]_fairVars PROVE TypeOK'
  OBVIOUS
<1> USE FairnessAssumption DEF TypeOK, Workers, Tags
<1>1. ASSUME NEW w \in Workers, Wake(w) PROVE TypeOK'
  BY <1>1 DEF Wake, WorkerRest
<1>2. ASSUME NEW w \in Workers, Test(w) PROVE TypeOK'
  BY <1>2 DEF Test, WorkerRest
<1>3. ASSUME NEW w \in Workers, Aim(w) PROVE TypeOK'
  BY <1>3 DEF Aim, WorkerRest
<1>4. ASSUME NEW w \in Workers, Pass(w) PROVE TypeOK'
  <2>1. <<mode[w], line[w]>> \in Tags
    OBVIOUS
  <2>2. sum' \in [Workers -> SUBSET Tags]
    BY <1>4, <2>1 DEF Pass
  <2> QED
    BY <1>4, <2>2 DEF Pass, WorkerRest
<1>5. ASSUME NextRow PROVE TypeOK'
  <2>1. old' \subseteq Workers
    BY <1>5 DEF NextRow, UnderWay
  <2>2. relaxed' \in 0..2 /\ sweep' \in 0..SweepMax /\ sweep_id' \in 0..(SweepMax - 1)
    <3>1. CASE fpc = "mode"
      BY <1>5, <3>1 DEF NextRow
    <3>2. CASE fpc = "sweep" /\ sweep < SweepMax
      BY <1>5, <3>2 DEF NextRow
    <3>3. CASE fpc = "sweep" /\ ~(sweep < SweepMax)
      BY <1>5, <3>3 DEF NextRow, LoopInv
    <3> QED
      BY <1>5, <3>1, <3>2, <3>3 DEF NextRow
  <2>3. fpc' \in {"mode", "sweep", "sleep", "collect", "done"}
    BY <1>5 DEF NextRow
  <2>4. /\ u' \in 1..(NrWorkers + 1) /\ sample_nr' \in 0..(SampleSize + 1)
        /\ kept' \subseteq Tags /\ sum' = sum
    BY <1>5 DEF NextRow
  <2>5. UNCHANGED <<delayed, wpc, mode, line>>
    BY <1>5 DEF NextRow, MainRest
  <2> QED
    BY <2>1, <2>2, <2>3, <2>4, <2>5
<1>6. ASSUME Sleep PROVE TypeOK'
  BY <1>6 DEF Sleep, MainRest, LoopInv, Sampled
<1>7. ASSUME Collect PROVE TypeOK'
  <2>1. CASE u <= NrWorkers
    <3>1. sum' \in [Workers -> SUBSET Tags] /\ kept' \subseteq Tags
      BY <1>7, <2>1 DEF Collect, Drop
    <3>2. /\ u' = u + 1
          /\ UNCHANGED <<fpc, sample_nr, old, relaxed, sweep, sweep_id, delayed, wpc, mode, line>>
      BY <1>7, <2>1 DEF Collect, MainRest
    <3>3. u' \in 1..(NrWorkers + 1)
      BY <2>1, <3>2
    <3> QED
      BY <3>1, <3>2, <3>3
  <2>2. CASE ~(u <= NrWorkers)
    BY <1>7, <2>2 DEF Collect, MainRest, UnderWay, LoopInv
  <2> QED
    BY <2>1, <2>2
<1>8. CASE UNCHANGED fairVars
  BY <1>8 DEF fairVars
<1> QED
  BY <1>1, <1>2, <1>3, <1>4, <1>5, <1>6, <1>7, <1>8 DEF Next, FairMain, Worker

LEMMA LoopStep == TypeOK /\ LoopInv /\ [Next]_fairVars => LoopInv'
<1> SUFFICES ASSUME TypeOK, LoopInv, [Next]_fairVars PROVE LoopInv'
  OBVIOUS
<1> USE FairnessAssumption DEF TypeOK, LoopInv, Sampled
<1>1. ASSUME NEW w \in Workers, Worker(w) PROVE LoopInv'
  BY <1>1 DEF Worker, Wake, Test, Aim, Pass, WorkerRest
<1>2. ASSUME NextRow PROVE LoopInv'
  BY <1>2 DEF NextRow, MainRest
<1>3. ASSUME Sleep PROVE LoopInv'
  BY <1>3 DEF Sleep, MainRest
<1>4. ASSUME Collect PROVE LoopInv'
  BY <1>4 DEF Collect, MainRest
<1>5. CASE UNCHANGED fairVars
  BY <1>5 DEF fairVars
<1> QED
  BY <1>1, <1>2, <1>3, <1>4, <1>5 DEF Next, FairMain

LEMMA PassStep == TypeOK /\ LoopInv /\ PassInv /\ [Next]_fairVars => PassInv'
<1> SUFFICES ASSUME TypeOK, LoopInv, PassInv, [Next]_fairVars PROVE PassInv'
  OBVIOUS
<1> USE FairnessAssumption DEF TypeOK, LoopInv, PassInv, Sampled, OfTheRow
<1>1. ASSUME NEW w \in Workers, Wake(w) PROVE PassInv'
  BY <1>1 DEF Wake, WorkerRest
<1>2. ASSUME NEW w \in Workers, Test(w) PROVE PassInv'
  BY <1>2 DEF Test, WorkerRest
<1>3. ASSUME NEW w \in Workers, Aim(w) PROVE PassInv'
  BY <1>3 DEF Aim, WorkerRest
<1>4. ASSUME NEW w \in Workers, Pass(w) PROVE PassInv'
  BY <1>4 DEF Pass, WorkerRest
<1>5. ASSUME NextRow PROVE PassInv'
  BY <1>5 DEF NextRow, MainRest, UnderWay
<1>6. ASSUME Sleep PROVE PassInv'
  BY <1>6 DEF Sleep, MainRest
<1>7. ASSUME Collect PROVE PassInv'
  BY <1>7 DEF Collect, MainRest
<1>8. CASE UNCHANGED fairVars
  BY <1>8 DEF fairVars
<1> QED
  BY <1>1, <1>2, <1>3, <1>4, <1>5, <1>6, <1>7, <1>8 DEF Next, FairMain, Worker

LEMMA SumStep ==
  TypeOK /\ LoopInv /\ PassInv /\ SumInv /\ [Next]_fairVars => SumInv'
<1> SUFFICES ASSUME TypeOK, LoopInv, PassInv, SumInv, [Next]_fairVars PROVE SumInv'
  OBVIOUS
<1> USE FairnessAssumption DEF TypeOK, SumInv, Sampled, Point
<1>1. ASSUME NEW w \in Workers, Wake(w) \/ Test(w) \/ Aim(w) PROVE SumInv'
  BY <1>1 DEF Wake, Test, Aim, WorkerRest
<1>2. ASSUME NEW w \in Workers, Pass(w) PROVE SumInv'
  <2>1. Sampled /\ (w \notin old \/ sample_nr > 0) => <<mode[w], line[w]>> = Point
    BY <1>2 DEF Pass, PassInv, OfTheRow
  <2>2. \A v \in Workers : sum'[v] = IF v = w THEN sum[v] \union {<<mode[w], line[w]>>}
                                             ELSE sum[v]
    BY <1>2 DEF Pass
  <2>3. fpc = "collect" => w \notin old
    BY DEF PassInv
  <2>4. UNCHANGED <<fpc, u, relaxed, sample_nr, sweep_id>>
    BY <1>2 DEF Pass, WorkerRest
  <2> SUFFICES ASSUME Sampled, NEW v \in Workers,
                      sample_nr > 0 \/ (fpc = "collect" /\ v < u)
               PROVE sum'[v] \subseteq {Point}
    BY <2>4
  <2>5. sum[v] \subseteq {Point}
    OBVIOUS
  <2>6. v = w => <<mode[w], line[w]>> = Point
    BY <2>1, <2>3
  <2> QED
    BY <2>2, <2>5, <2>6
<1>3. ASSUME NextRow PROVE SumInv'
  BY <1>3 DEF NextRow, MainRest
<1>4. ASSUME Sleep PROVE SumInv'
  BY <1>4 DEF Sleep, MainRest, Workers
<1>5. ASSUME Collect PROVE SumInv'
  <2>1. CASE u <= NrWorkers
    <3>1. u \in Workers
      BY <2>1 DEF Workers
    <3>2. \A v \in Workers : sum'[v] = IF v = u THEN {} ELSE sum[v]
      BY <1>5, <2>1, <3>1 DEF Collect
    <3>3. u' = u + 1 /\ UNCHANGED <<fpc, sample_nr, relaxed, sweep_id>>
      BY <1>5, <2>1 DEF Collect
    <3> SUFFICES ASSUME Sampled, NEW v \in Workers,
                        sample_nr > 0 \/ (fpc = "collect" /\ v < u + 1)
                 PROVE sum'[v] \subseteq {Point}
      BY <3>3
    <3>4. CASE v = u
      BY <3>2, <3>4
    <3>5. CASE v # u
      <4>1. fpc = "collect" /\ v < u + 1 => v < u
        BY <3>5 DEF Workers
      <4> QED
        BY <3>2, <3>5, <4>1
    <3> QED
      BY <3>4, <3>5
  <2>2. CASE ~(u <= NrWorkers)
    BY <1>5, <2>2 DEF Collect, Workers
  <2> QED
    BY <2>1, <2>2
<1>6. CASE UNCHANGED fairVars
  BY <1>6 DEF fairVars
<1> QED
  BY <1>1, <1>2, <1>3, <1>4, <1>5, <1>6 DEF Next, FairMain, Worker

LEMMA RowStep ==
  TypeOK /\ SumInv /\ RowsAreOfTheirPoint /\ [Next]_fairVars => RowsAreOfTheirPoint'
<1> SUFFICES ASSUME TypeOK, SumInv, RowsAreOfTheirPoint, [Next]_fairVars
             PROVE RowsAreOfTheirPoint'
  OBVIOUS
<1> USE DEF RowsAreOfTheirPoint
<1>1. ASSUME NEW w \in Workers, Worker(w) PROVE RowsAreOfTheirPoint'
  BY <1>1 DEF Worker, Wake, Test, Aim, Pass, WorkerRest
<1>2. ASSUME NextRow PROVE RowsAreOfTheirPoint'
  BY <1>2 DEF NextRow
<1>3. ASSUME Sleep PROVE RowsAreOfTheirPoint'
  BY <1>3 DEF Sleep
<1>4. ASSUME Collect PROVE RowsAreOfTheirPoint'
  <2>1. CASE u <= NrWorkers
    <3>1. u \in Workers /\ (~Drop => sample_nr > 0)
      BY <2>1 DEF TypeOK, Workers, Drop
    <3>2. ~Drop => sum[u] \subseteq {<<relaxed, sweep_id>>}
      BY <1>4, <3>1 DEF Collect, SumInv, Sampled, Point
    <3> QED
      BY <1>4, <2>1, <3>2 DEF Collect
  <2>2. CASE ~(u <= NrWorkers)
    BY <1>4, <2>2 DEF Collect
  <2> QED
    BY <2>1, <2>2
<1>5. CASE UNCHANGED fairVars
  BY <1>5 DEF fairVars
<1> QED
  BY <1>1, <1>2, <1>3, <1>4, <1>5 DEF Next, FairMain

LEMMA Inductive == Spec => []IInv
<1>1. Init => IInv
  BY TypeInit DEF Init, IInv, LoopInv, PassInv, SumInv, RowsAreOfTheirPoint, Sampled
<1>2. IInv /\ [Next]_fairVars => IInv'
  BY TypeStep, LoopStep, PassStep, SumStep, RowStep DEF IInv
<1> QED
  BY <1>1, <1>2, PTL DEF Spec

\* What main prints of a row consists of passes in its mode and over its line, for
\* every number of workers, lines and samples (fairness.c:210-263).
THEOREM RowsArePure == Spec => []RowsAreOfTheirPoint
<1>1. IInv => RowsAreOfTheirPoint
  BY DEF IInv
<1> QED
  BY <1>1, Inductive, PTL

-----------------------------------------------------------------------------
(* The composition with the barrier *)

\* A run of the program is a behaviour of the loops, which begin when the barrier
\* lets them, and one of the barrier, which the loops do not disturb
\* (fairness.c:80, 190).
THEOREM RunImplementsParts == RunSpec => Spec /\ Barrier!Spec
<1>1. RunInit => Init /\ Barrier!Init
  BY DEF RunInit
<1>2. [RunNext]_runVars => [Next]_fairVars
  BY DEF RunNext, runVars, BarrierStep, MainRuns, Runs, Next
<1>3. [RunNext]_runVars => [Barrier!Next]_(Barrier!vars)
  BY DEF RunNext, runVars, barrierVars, Barrier!vars, BarrierStep, MainRuns, Runs
<1>4. RunSpec => Spec
  BY <1>1, <1>2, PTL DEF RunSpec, Spec
<1>5. RunSpec => Barrier!Spec
  BY <1>1, <1>3, PTL DEF RunSpec, Barrier!Spec
<1> QED
  BY <1>4, <1>5

\* The printed rows of the whole program are pure, whenever the workers leave the
\* barrier.
THEOREM RowsOfTheRun == RunSpec => []RowsAreOfTheirPoint
  BY RunImplementsParts, RowsArePure, PTL

-----------------------------------------------------------------------------
(* pingpong beside fairness *)

\* The proofs about pingpong, at the constants of this module.
P == INSTANCE Pingpong_proofs

\* The program that is not chosen stays where it was, so that a behaviour of the two
\* is one of each.
LEMMA EachProgram == MCSpec => RunSpec /\ Pair!Spec
<1>1. MCInit => RunInit /\ Pair!Init
  BY DEF MCInit
<1>2. [MCNext]_allVars => [RunNext]_runVars
  BY DEF MCNext, allVars
<1>3. [MCNext]_allVars => [Pair!Next]_(Pair!vars)
  BY DEF MCNext, allVars, pairVars, Pair!vars, Pair!mainVars, Pair!pageVars, Pair!threadVars
<1>4. MCSpec => RunSpec
  BY <1>1, <1>2, PTL DEF MCSpec, RunSpec
<1>5. MCSpec => Pair!Spec
  BY <1>1, <1>3, PTL DEF MCSpec, Pair!Spec
<1> QED
  BY <1>4, <1>5

\* The program Pingpong_proofs is about is the one of this run.
LEMMA SamePair == Pair!Spec => P!Spec
<1>1. Pair!Init => P!Init
  BY DEF Pair!Init, P!Init, Pair!Threads, P!Threads, Pair!NULL, P!NULL
<1> USE DEF Pair!mainVars, P!mainVars, Pair!pageVars, P!pageVars, Pair!threadVars,
            P!threadVars, Pair!vars, P!vars,
            Pair!Threads, P!Threads, Pair!NULL, P!NULL, Pair!Ended, P!Ended, Pair!Live,
            P!Live, Pair!Pair, P!Pair, Pair!Last, P!Last
<1>2. Pair!Main \/ Pair!Fail => P!Main \/ P!Fail
  <2>1. (Pair!Options => P!Options) /\ (Pair!Row => P!Row) /\ (Pair!Col => P!Col)
    BY DEF Pair!Options, P!Options, Pair!Modes, P!Modes, Pair!Row, P!Row, Pair!Col, P!Col,
       Pair!FirstCol, P!FirstCol, Pair!Reset, P!Reset
  <2>2. (Pair!CreateOdd => P!CreateOdd) /\ (Pair!CreateEven => P!CreateEven)
    BY DEF Pair!CreateOdd, P!CreateOdd, Pair!CreateEven, P!CreateEven, Pair!Create, P!Create
  <2>3. (Pair!Sample => P!Sample) /\ (Pair!Finish => P!Finish) /\ (Pair!Fail => P!Fail)
    BY DEF Pair!Sample, P!Sample, Pair!Rest, P!Rest, Pair!Finish, P!Finish, Pair!StopAt,
       P!StopAt, Pair!UnmapAt, P!UnmapAt, Pair!Fail, P!Fail
  <2> QED
    BY <2>1, <2>2, <2>3 DEF Pair!Main, P!Main
<1>3. ASSUME NEW t, Pair!Thread(t) \/ Pair!SpuriousWakeup(t)
      PROVE  P!Thread(t) \/ P!SpuriousWakeup(t)
  <2>1. (Pair!Setup(t) => P!Setup(t)) /\ (Pair!Rendezvous(t) => P!Rendezvous(t))
        /\ (Pair!Test(t) => P!Test(t))
    BY DEF Pair!Setup, P!Setup, Pair!Rendezvous, P!Rendezvous, Pair!Test, P!Test
  <2>2. (Pair!AddBatch(t) => P!AddBatch(t)) /\ (Pair!SpuriousWakeup(t) => P!SpuriousWakeup(t))
    BY DEF Pair!AddBatch, P!AddBatch, Pair!SpuriousWakeup, P!SpuriousWakeup
  <2>3. (Pair!Xchg(t) => P!Xchg(t)) /\ (Pair!UnlockedStore(t) => P!UnlockedStore(t))
    BY DEF Pair!Xchg, P!Xchg, Pair!UnlockedStore, P!UnlockedStore, Pair!Access, P!Access,
       Pair!LockedXchg, P!LockedXchg, Pair!UnlockedLoad, P!UnlockedLoad, Pair!Xadd, P!Xadd,
       Pair!MayPass, P!MayPass, Pair!Count, P!Count, Pair!BatchDone, P!BatchDone
  <2> QED
    BY <1>3, <2>1, <2>2, <2>3 DEF Pair!Thread, P!Thread
<1>4. Pair!Next => P!Next
  BY <1>2, <1>3, Zenon DEF Pair!Next, P!Next
<1>5. [Pair!Next]_(Pair!vars) => [P!Next]_(P!vars)
  BY <1>4
<1> QED
  BY <1>1, <1>5, PTL DEF Pair!Spec, P!Spec

\* The threads of pingpong take turns, for every mask of cpus and every number of
\* samples and exchanges (pingpong.c:131-137).
THEOREM TurnsOfTheRun == MCSpec => []ExchangesAlternate
<1>1. P!Spec => []P!ExchangesAlternate
  BY P!TurnsAreTaken
<1>2. P!ExchangesAlternate => ExchangesAlternate
  BY DEF ExchangesAlternate, Pair!ExchangesAlternate, P!ExchangesAlternate, Pair!Threads,
     P!Threads, Pair!NULL, P!NULL
<1> QED
  BY <1>1, <1>2, EachProgram, SamePair, PTL

\* No thread of pingpong uses a page that is not mapped, unless a wait returned without
\* a signal (pingpong.c:71-94, 314-329).
THEOREM PagesOfTheRun == MCSpec => []PagesOutliveTheirUse
<1>1. P!Spec => []P!PagesOutliveTheirUse
  BY P!PagesAreThere
<1>2. P!PagesOutliveTheirUse => PagesOutliveTheirUse
  BY DEF PagesOutliveTheirUse, Pair!PagesOutliveTheirUse, P!PagesOutliveTheirUse
<1> QED
  BY <1>1, <1>2, EachProgram, SamePair, PTL

\* The figures and the table of pingpong are right, for every mask of cpus, every value
\* of -c, every batch and every number of samples and exchanges (pingpong.c:262-304).
THEOREM TableOfTheRun == MCSpec => []TableIsSound
<1>1. P!Spec => []P!TableIsSound
  <2>1. P!Assumptions
    BY PairAssumption DEF Pair!Assumptions, P!Assumptions, Pair!IsFiniteSet, P!IsFiniteSet
  <2> QED
    BY <2>1, P!TableOfThePairs
<1>2. P!TableIsSound => TableIsSound
  BY DEF TableIsSound, Pair!TableIsSound, P!TableIsSound, Pair!CountsAreOfThisPair,
     P!CountsAreOfThisPair, Pair!TableIsRight, P!TableIsRight, Pair!Cardinality,
     P!Cardinality
<1> QED
  BY <1>1, <1>2, EachProgram, SamePair, PTL

-----------------------------------------------------------------------------
(* The types of both programs *)

\* The proofs about the barrier, at the constants of fairness.
B == INSTANCE StartupBarrier_proofs WITH
  NrThreads <- NrWorkers, MainCounts <- TRUE, Branch <- FALSE

\* The barrier of the program is the one StartupBarrier_proofs is about.
LEMMA SameBarrier == Barrier!Spec => B!Spec
<1> USE DEF Barrier!vars, B!vars, Barrier!NoOne, B!NoOne, Barrier!Everyone, B!Everyone,
            Barrier!Threads, B!Threads, Barrier!Main, B!Main,
            Barrier!Counted, B!Counted
<1>1. Barrier!Init => B!Init
  BY DEF Barrier!Init, B!Init
<1>2. ASSUME NEW t, Barrier!Create(t) \/ Barrier!Prepare(t)
      PROVE  B!Create(t) \/ B!Prepare(t)
  BY <1>2 DEF Barrier!Create, B!Create, Barrier!Prepare, B!Prepare
<1>3. ASSUME NEW p, Barrier!Step(p) \/ Barrier!SpuriousWakeup(p)
      PROVE  B!Step(p) \/ B!SpuriousWakeup(p)
  <2>1. (Barrier!Lock(p) => B!Lock(p)) /\ (Barrier!Relock(p) => B!Relock(p))
        /\ (Barrier!Unlock(p) => B!Unlock(p))
    BY DEF Barrier!Lock, B!Lock, Barrier!Relock, B!Relock, Barrier!Unlock, B!Unlock
  <2>2. Barrier!Decide(p) => B!Decide(p)
    BY DEF Barrier!Decide, B!Decide, Barrier!Wait, B!Wait, Barrier!Release, B!Release
  <2>3. Barrier!SpuriousWakeup(p) => B!SpuriousWakeup(p)
    BY DEF Barrier!SpuriousWakeup, B!SpuriousWakeup
  <2> QED
    BY <1>3, <2>1, <2>2, <2>3 DEF Barrier!Step, B!Step
<1>4. (Barrier!Look => B!Look) /\ (Barrier!Exit => B!Exit)
  BY DEF Barrier!Look, B!Look, Barrier!Exit, B!Exit, Barrier!Wait, B!Wait
<1>5. Barrier!Next => B!Next
  BY <1>2, <1>3, <1>4, Zenon DEF Barrier!Next, B!Next
<1>6. [Barrier!Next]_(Barrier!vars) => [B!Next]_(B!vars)
  BY <1>5
<1> QED
  BY <1>1, <1>6, PTL DEF Barrier!Spec, B!Spec

\* Every variable of both programs keeps its type, for every number of workers, lines
\* and samples, every mask of cpus and every batch.
THEOREM TypesOfTheRun == MCSpec => []MCTypeOK
<1>1. Spec => []TypeOK
  <2>1. IInv => TypeOK
    BY DEF IInv
  <2> QED
    BY <2>1, Inductive, PTL
<1>2. Barrier!Spec => []Barrier!TypeOK
  <2>1. Spurious \in BOOLEAN
    BY PairAssumption DEF Pair!Assumptions
  <2>2. B!Spec => []B!TypeOK
    BY <2>1, FairnessAssumption, B!TypeCorrect
  <2>3. B!TypeOK => Barrier!TypeOK
    BY DEF Barrier!TypeOK, B!TypeOK, Barrier!NoOne, B!NoOne, Barrier!Everyone, B!Everyone,
       Barrier!Threads, B!Threads, Barrier!Main, B!Main
  <2> QED
    BY <2>2, <2>3, SameBarrier, PTL
<1>3. Pair!Spec => []Pair!TypeOK
  <2>1. P!Assumptions
    BY PairAssumption DEF Pair!Assumptions, P!Assumptions, Pair!IsFiniteSet, P!IsFiniteSet
  <2>2. P!Spec => []P!TypeOK
    BY <2>1, P!TypesAreKept
  <2>3. P!TypeOK => Pair!TypeOK
    BY DEF Pair!TypeOK, P!TypeOK, Pair!Ended, P!Ended, Pair!Modes, P!Modes, Pair!Last,
       P!Last, Pair!NULL, P!NULL, Pair!Pair, P!Pair, Pair!Threads, P!Threads,
       Pair!Cardinality, P!Cardinality
  <2> QED
    BY <2>2, <2>3, SamePair, PTL
<1>4. TypeOK /\ Barrier!TypeOK /\ Pair!TypeOK => MCTypeOK
  BY DEF MCTypeOK
<1> QED
  BY <1>1, <1>2, <1>3, <1>4, EachProgram, RunImplementsParts, PTL
=============================================================================
