-------------------------- MODULE Multiload_proofs --------------------------
(***************************************************************************)
(* Proofs about multiload, for every number of threads and samples, every  *)
(* set of words typed for its kernels and every arena, and all together    *)
(* about the specification that the run of MCMultiload checks.             *)
(***************************************************************************)
EXTENDS MCMultiload, FiniteSetTheorems, WellFoundedInduction, SequenceTheorems, TLAPS

-----------------------------------------------------------------------------
(* The sampling.  Nothing but the order in which main and a load thread read and write *)
(* sample_no and count keeps them in step; SamplingInv says what each can rely on.     *)

\* The last sample that a load thread has answered (-1 for none).
Answered(t) == IF lpc[t] = "restart" THEN nxt_sample[t] ELSE cur_sample[t]

\* Main has taken the answer of thread t for this sample.
IsTaken(t) == t < i /\ mpc \in {"collect", "exited"}

\* Where main is tells how far its loops are.
MainLoopInv ==
  /\ mpc \in {"warmup", "sleep"} => i = 0
  /\ mpc \in {"request", "collect"} => i < NrThreads
  /\ mpc = "exited" => i = NrThreads

\* What thread t is asked: this sample once requested, the one before until then.
AskedInv(t) ==
  /\ sample_no[t] \in {sample - 1, sample}
  /\ mpc \in {"collect", "exited"} => sample_no[t] = sample
  /\ mpc = "request" /\ t < i => sample_no[t] = sample
  /\ mpc \in {"warmup", "sleep"} /\ sample > 0 => sample_no[t] = sample - 1

\* A load thread is never more than one sample behind, nor ahead of its request.
AnsweredInv(t) ==
  /\ nxt_sample[t] <= sample_no[t]
  /\ Answered(t) \in {sample - 1, sample}
  /\ Answered(t) <= sample_no[t]
  /\ lpc[t] = "test" => cur_sample[t] <= nxt_sample[t]
  /\ lpc[t] = "answer" =>
       Answered(t) = sample - 1 /\ nxt_sample[t] = sample /\ count[t].value = 0
  /\ lpc[t] # "restart" /\ cur_sample[t] > 0 => time0[t] >= cur_sample[t]

\* An answer that waits in count is to this sample, and main has not taken another.
AnswerCountInv(t) ==
  /\ count[t].value # 0 => Answered(t) = sample /\ count[t].to = sample
  /\ count[t].value # 0 /\ sample > 1 => count[t].from >= sample - 1
  /\ IsTaken(t) => Answered(t) = sample /\ count[t].value = 0

\* What main has taken for this sample.
UsedInv(t) ==
  IsTaken(t) => used[t].to = sample /\ (sample > 1 => used[t].from >= sample - 1)

ThreadInv(t) == AskedInv(t) /\ AnsweredInv(t) /\ AnswerCountInv(t) /\ UsedInv(t)

SamplingInv == TypeOK /\ MainLoopInv /\ \A t \in LoadThreads : ThreadInv(t)

-----------------------------------------------------------------------------
LEMMA ThreadFacts ==
  /\ NrThreads \in Nat \ {0}
  /\ Threads \subseteq Nat
  /\ LoadThreads \subseteq Threads
  /\ ChaseThreads \subseteq Threads
  /\ ChaseThreads \intersect LoadThreads = {}
  /\ \A k \in 0..NrThreads : k < NrThreads => k \in Threads
<1>1. NrThreads \in Nat \ {0}
  BY ThreadsAssumption DEF NrThreads
<1>. QED
  BY <1>1, ThreadsAssumption DEF NrThreads, Threads, ChaseThreads, LoadThreads

\* The fields of an answer are numbers.
LEMMA AnswerFields ==
  ASSUME NEW a \in Answers
  PROVE  a.value \in Nat /\ a.to \in Int /\ a.from \in Int
<1>1. /\ a.value \in Rates \union 0..MaxCount
      /\ a.to \in Samples \union {-1}
      /\ a.from \in Samples \union {-1}
  BY DEF Answers
<1>2. Rates \union 0..MaxCount \subseteq Nat
  BY RatesAssumption, MaxCountAssumption
<1>3. Samples \union {-1} \subseteq Int
  BY SamplesAssumption DEF Samples
<1>. QED
  BY <1>1, <1>2, <1>3

LEMMA InitSampling == Init => SamplingInv
<1>. SUFFICES ASSUME Init PROVE SamplingInv
  OBVIOUS
<1>1. 0 \in Samples
  BY SamplesAssumption DEF Samples
<1>2. None \in Answers
  BY <1>1, MaxCountAssumption DEF None, Answers
<1>3. TypeOK
  BY <1>1, <1>2, ThreadFacts DEF Init, TypeOK
<1>4. MainLoopInv
  BY DEF Init, MainLoopInv
<1>5. ASSUME NEW t \in LoadThreads PROVE ThreadInv(t)
  <2>1. t \in Threads
    BY ThreadFacts
  <2>. QED
    BY <2>1, <1>5 DEF Init, None, ThreadInv, AskedInv, AnsweredInv, AnswerCountInv,
       UsedInv, IsTaken, Answered
<1>. QED
  BY <1>3, <1>4, <1>5 DEF SamplingInv

LEMMA NowType ==
  ASSUME TypeOK
  PROVE  Now \in Samples \union {-1}
BY SamplesAssumption DEF TypeOK, Now, Samples

LEMMA SamplingTypes ==
  ASSUME TypeOK, MainLoopInv, [Next]_vars
  PROVE  TypeOK' /\ MainLoopInv'
<1>. USE ThreadFacts
<1>none. None \in Answers
  BY SamplesAssumption, MaxCountAssumption DEF None, Answers, Samples
<1>1. CASE Sleep
  BY <1>1 DEF Sleep, TypeOK, MainLoopInv, loadVars
<1>2. CASE Request
  BY <1>2 DEF Request, TypeOK, MainLoopInv, loadVars
<1>3. CASE Poll
  BY <1>3, <1>none DEF Poll, TypeOK, MainLoopInv, loadVars, mainVars
<1>4. CASE Take
  <2>1. i \in Threads /\ count[i] \in Answers
    BY <1>4 DEF Take, TypeOK, MainLoopInv
  <2>2. used' \in [Threads -> Answers] /\ count' \in [Threads -> Answers]
    BY <1>4, <2>1, <1>none DEF Take, TypeOK
  <2>3. sample' \in Samples /\ i' \in 0..NrThreads
        /\ mpc' \in {"warmup", "sleep", "request", "collect", "exited"} /\ MainLoopInv'
    BY <1>4, SamplesAssumption DEF Take, TypeOK, MainLoopInv, Samples
  <2>. QED
    BY <1>4, <2>2, <2>3 DEF Take, TypeOK, loadVars
<1>5. ASSUME NEW t \in ChaseThreads, Chase(t) PROVE TypeOK' /\ MainLoopInv'
  <2>1. t \in Threads /\ count[t] \in Answers
    BY DEF TypeOK
  <2>2. count[t].value \in Nat
    BY <2>1, AnswerFields
  <2>3. [count[t] EXCEPT !.value = @ + 1] \in Answers
    BY <2>1, <2>2, <1>5, MaxCountAssumption DEF Chase, Answers
  <2>4. count' = [count EXCEPT ![t] = [count[t] EXCEPT !.value = @ + 1]]
    BY <1>5, <2>1 DEF Chase, TypeOK
  <2>5. count' \in [Threads -> Answers]
    BY <2>1, <2>3, <2>4 DEF TypeOK
  <2>. QED
    BY <1>5, <2>5 DEF Chase, TypeOK, MainLoopInv, loadVars, mainVars
<1>6. ASSUME NEW t \in LoadThreads, LoadStep(t) PROVE TypeOK' /\ MainLoopInv'
  <2>1. CASE Pass(t)
    BY <2>1 DEF Pass, TypeOK, MainLoopInv, mainVars
  <2>2. CASE Test(t)
    BY <2>2 DEF Test, TypeOK, MainLoopInv, mainVars
  <2>3. CASE Answer(t)
    <3>1. nxt_sample[t] \in Samples /\ time0[t] \in Samples \union {-1}
      BY DEF TypeOK
    <3>2. count' \in [Threads -> Answers]
      BY <2>3, <3>1 DEF Answer, TypeOK, Answers
    <3>. QED
      BY <2>3, <3>2 DEF Answer, TypeOK, MainLoopInv, mainVars
  <2>4. CASE Restart(t)
    BY <2>4, NowType DEF Restart, TypeOK, MainLoopInv, mainVars
  <2>. QED
    BY <1>6, <2>1, <2>2, <2>3, <2>4 DEF LoadStep
<1>7. CASE UNCHANGED vars
  BY <1>7 DEF vars, mainVars, loadVars, TypeOK, MainLoopInv
<1>. QED
  BY <1>1, <1>2, <1>3, <1>4, <1>5, <1>6, <1>7 DEF Next, MainStep

-----------------------------------------------------------------------------
\* The numbers that ThreadInv compares.
LEMMA SamplingNumbers ==
  ASSUME TypeOK, NEW t \in LoadThreads
  PROVE  /\ t \in Nat /\ i \in Nat /\ sample \in Nat
         /\ sample_no[t] \in Nat /\ nxt_sample[t] \in Nat
         /\ cur_sample[t] \in Int /\ cur_sample[t] >= -1
         /\ time0[t] \in Int
         /\ count[t].value \in Nat /\ count[t].to \in Int /\ count[t].from \in Int
<1>1. t \in Threads /\ t \in Nat /\ i \in Nat
  BY ThreadFacts DEF TypeOK
<1>2. /\ sample \in Nat /\ sample_no[t] \in Nat /\ nxt_sample[t] \in Nat
      /\ cur_sample[t] \in Int /\ cur_sample[t] >= -1 /\ time0[t] \in Int
  BY <1>1, SamplesAssumption DEF TypeOK, Samples
<1>3. count[t] \in Answers
  BY <1>1 DEF TypeOK
<1>. QED
  BY <1>1, <1>2, <1>3, AnswerFields

LEMMA ThreadStep ==
  ASSUME SamplingInv, [Next]_vars, TypeOK', MainLoopInv', NEW t \in LoadThreads
  PROVE  ThreadInv(t)'
<1>. USE ThreadFacts, SamplingNumbers
<1>typ. TypeOK /\ MainLoopInv /\ ThreadInv(t) /\ t \in Threads
  BY DEF SamplingInv
<1>num. /\ t \in Nat /\ i \in Nat /\ sample \in Nat
        /\ sample_no[t] \in Nat /\ nxt_sample[t] \in Nat
        /\ cur_sample[t] \in Int /\ cur_sample[t] >= -1
        /\ time0[t] \in Int
        /\ count[t].value \in Nat /\ count[t].to \in Int /\ count[t].from \in Int
  BY <1>typ
<1>1. CASE Sleep
  BY <1>1, <1>typ, <1>num
     DEF Sleep, MainLoopInv, ThreadInv, AskedInv, AnsweredInv, AnswerCountInv, UsedInv,
         IsTaken, Answered, loadVars
<1>2. CASE Request
  <2>1. AskedInv(t)'
    <3>1. sample_no' \in [Threads -> Samples] /\ sample_no'[t] = IF t = i THEN sample ELSE sample_no[t]
      BY <1>2, <1>typ DEF Request, TypeOK
    <3>. QED
      BY <1>2, <1>typ, <1>num, <3>1 DEF Request, MainLoopInv, ThreadInv, AskedInv, Threads
  <2>2. AnsweredInv(t)'
    <3>1. sample_no'[t] = IF t = i THEN sample ELSE sample_no[t]
      BY <1>2, <1>typ DEF Request, TypeOK
    <3>. QED
      BY <1>2, <1>typ, <1>num, <3>1 DEF Request, ThreadInv, AskedInv, AnsweredInv,
         Answered, loadVars
  <2>3. AnswerCountInv(t)' /\ UsedInv(t)'
    BY <1>2, <1>typ, <1>num DEF Request, MainLoopInv, ThreadInv, AnswerCountInv, UsedInv,
       IsTaken, Answered, loadVars
  <2>. QED
    BY <2>1, <2>2, <2>3 DEF ThreadInv
<1>3. CASE Poll
  <2>1. count'[t].value = count[t].value /\ (count[t].value # 0 => count'[t] = count[t])
    BY <1>3, <1>typ DEF Poll, TypeOK, None
  <2>. QED
    BY <1>3, <2>1, <1>typ, <1>num
       DEF Poll, ThreadInv, AskedInv, AnsweredInv, AnswerCountInv, UsedInv, IsTaken,
           Answered, loadVars, mainVars
<1>4. CASE Take
  <2>1. /\ i \in Threads
        /\ count'[t] = IF t = i THEN None ELSE count[t]
        /\ used'[t] = IF t = i THEN count[i] ELSE used[t]
    BY <1>4, <1>typ DEF Take, TypeOK, MainLoopInv
  <2>2. t = i => Answered(t) = sample /\ count[t].to = sample /\ (sample > 1 => count[t].from >= sample - 1)
    BY <1>4, <1>typ DEF Take, ThreadInv, AnswerCountInv
  <2>3. None.value = 0
    BY DEF None
  <2>4. CASE i + 1 < NrThreads
    <3>1. i' = i + 1 /\ mpc' = "collect" /\ mpc = "collect" /\ sample' = sample
      BY <1>4, <2>4 DEF Take
    <3>2. AskedInv(t)' /\ AnsweredInv(t)'
      BY <1>4, <3>1, <2>1, <2>3, <1>typ, <1>num DEF Take, ThreadInv, AskedInv, AnsweredInv,
         Answered, loadVars
    <3>3. AnswerCountInv(t)' /\ UsedInv(t)'
      BY <1>4, <3>1, <2>1, <2>2, <2>3, <1>typ, <1>num
         DEF Take, ThreadInv, AnswerCountInv, UsedInv, IsTaken, Answered, loadVars
    <3>. QED
      BY <3>2, <3>3 DEF ThreadInv
  <2>5. CASE ~ (i + 1 < NrThreads)
    <3>1. t <= i
      BY <2>5, <1>num DEF Threads
    <3>2. Answered(t) = sample /\ count'[t].value = 0 /\ mpc = "collect"
          /\ used'[t].to = sample /\ (sample > 1 => used'[t].from >= sample - 1)
      BY <1>4, <3>1, <2>1, <2>2, <2>3, <1>typ, <1>num
         DEF Take, ThreadInv, AnswerCountInv, UsedInv, IsTaken
    <3>3. /\ sample_no[t] = sample /\ sample_no' = sample_no
          /\ nxt_sample' = nxt_sample /\ cur_sample' = cur_sample
          /\ lpc' = lpc /\ time0' = time0 /\ Answered(t)' = Answered(t)
      BY <1>4, <3>2, <1>typ DEF Take, ThreadInv, AskedInv, Answered, loadVars
    <3>4. lpc[t] # "answer"
      BY <3>2, <1>typ, <1>num DEF ThreadInv, AnsweredInv
    <3>5. \/ mpc' = "sleep" /\ sample' = sample + 1 /\ i' = 0
          \/ mpc' = "exited" /\ sample' = sample
      BY <1>4, <2>5 DEF Take
    <3>6. AskedInv(t)' /\ AnsweredInv(t)'
      BY <3>2, <3>3, <3>4, <3>5, <1>typ, <1>num DEF ThreadInv, AskedInv, AnsweredInv
    <3>7. AnswerCountInv(t)' /\ UsedInv(t)'
      BY <3>2, <3>3, <3>5, <1>typ, <1>num DEF AnswerCountInv, UsedInv, IsTaken
    <3>. QED
      BY <3>6, <3>7 DEF ThreadInv
  <2>. QED
    BY <2>4, <2>5
<1>5. ASSUME NEW u \in ChaseThreads, Chase(u) PROVE ThreadInv(t)'
  <2>1. count'[t] = count[t]
    BY <1>5, <1>typ DEF Chase, TypeOK
  <2>. QED
    BY <1>5, <2>1, <1>typ
       DEF Chase, ThreadInv, AskedInv, AnsweredInv, AnswerCountInv, UsedInv, IsTaken,
           Answered, loadVars, mainVars
<1>6. ASSUME NEW u \in LoadThreads, LoadStep(u), u # t PROVE ThreadInv(t)'
  <2>1. /\ count'[t] = count[t] /\ lpc'[t] = lpc[t] /\ time0'[t] = time0[t]
        /\ cur_sample'[t] = cur_sample[t] /\ nxt_sample'[t] = nxt_sample[t]
    BY <1>6, <1>typ DEF LoadStep, Pass, Test, Answer, Restart, TypeOK
  <2>2. UNCHANGED <<mainVars, sample_no>>
    BY <1>6 DEF LoadStep, Pass, Test, Answer, Restart
  <2>. QED
    BY <2>1, <2>2, <1>typ
       DEF ThreadInv, AskedInv, AnsweredInv, AnswerCountInv, UsedInv, IsTaken, Answered,
           mainVars
<1>7. CASE Pass(t)
  <2>1. nxt_sample'[t] = sample_no[t] /\ lpc'[t] = "test" /\ lpc[t] = "pass"
    BY <1>7, <1>typ DEF Pass, TypeOK
  <2>. QED
    BY <1>7, <2>1, <1>typ, <1>num
       DEF Pass, ThreadInv, AskedInv, AnsweredInv, AnswerCountInv, UsedInv, IsTaken,
           Answered, mainVars
<1>8. CASE Test(t)
  <2>1. lpc[t] = "test" /\ lpc'[t] = IF Asked(t) THEN "answer" ELSE "pass"
    BY <1>8, <1>typ DEF Test, TypeOK
  <2>2. Asked(t) => cur_sample[t] = sample - 1 /\ nxt_sample[t] = sample /\ count[t].value = 0
    BY <2>1, <1>typ, <1>num DEF Asked, ThreadInv, AskedInv, AnsweredInv, Answered
  <2>. QED
    BY <1>8, <2>1, <2>2, <1>typ, <1>num
       DEF Test, ThreadInv, AskedInv, AnsweredInv, AnswerCountInv, UsedInv, IsTaken,
           Answered, mainVars
<1>9. CASE Answer(t)
  <2>1. /\ lpc[t] = "answer" /\ lpc'[t] = "restart"
        /\ count'[t].to = nxt_sample[t] /\ count'[t].from = time0[t]
    BY <1>9, <1>typ DEF Answer, TypeOK
  <2>2. nxt_sample[t] = sample /\ cur_sample[t] = sample - 1 /\ ~ IsTaken(t)
    BY <2>1, <1>typ, <1>num DEF ThreadInv, AnsweredInv, AnswerCountInv, Answered
  <2>3. AskedInv(t)' /\ AnsweredInv(t)'
    BY <1>9, <2>1, <2>2, <1>typ, <1>num DEF Answer, ThreadInv, AskedInv, AnsweredInv,
       Answered, mainVars
  <2>4. AnswerCountInv(t)' /\ UsedInv(t)'
    BY <1>9, <2>1, <2>2, <1>typ, <1>num
       DEF Answer, ThreadInv, AnsweredInv, AnswerCountInv, UsedInv, IsTaken, Answered,
           mainVars
  <2>. QED
    BY <2>3, <2>4 DEF ThreadInv
<1>10. CASE Restart(t)
  <2>1. /\ lpc[t] = "restart" /\ lpc'[t] = "pass" /\ time0'[t] = Now
        /\ cur_sample'[t] = nxt_sample[t]
    BY <1>10, <1>typ DEF Restart, TypeOK
  <2>2. nxt_sample[t] > 0 => Now >= nxt_sample[t]
    BY <2>1, <1>typ, <1>num DEF ThreadInv, AskedInv, AnsweredInv, Answered, Now, TypeOK
  <2>. QED
    BY <1>10, <2>1, <2>2, <1>typ, <1>num
       DEF Restart, ThreadInv, AskedInv, AnsweredInv, AnswerCountInv, UsedInv, IsTaken,
           Answered, mainVars
<1>11. CASE UNCHANGED vars
  BY <1>11, <1>typ
     DEF vars, mainVars, loadVars, ThreadInv, AskedInv, AnsweredInv, AnswerCountInv,
         UsedInv, IsTaken, Answered
<1>. QED
  BY <1>1, <1>2, <1>3, <1>4, <1>5, <1>6, <1>7, <1>8, <1>9, <1>10, <1>11 DEF Next, MainStep,
     LoadStep

LEMMA SamplingStep == SamplingInv /\ [Next]_vars => SamplingInv'
<1>. SUFFICES ASSUME SamplingInv, [Next]_vars PROVE SamplingInv'
  OBVIOUS
<1>1. TypeOK' /\ MainLoopInv'
  BY SamplingTypes DEF SamplingInv
<1>2. ASSUME NEW t \in LoadThreads PROVE ThreadInv(t)'
  BY <1>1, ThreadStep
<1>. QED
  BY <1>1, <1>2 DEF SamplingInv, LoadThreads

LEMMA SamplingInvariance == Spec => []SamplingInv
BY InitSampling, SamplingStep, PTL DEF Spec

-----------------------------------------------------------------------------
\* Type correctness of the handshake of multiload (multiload.c:426-456, 1327-1414).
THEOREM TypesOfSampling == Spec => []TypeOK
<1>1. SamplingInv => TypeOK
  BY DEF SamplingInv
<1>. QED
  BY <1>1, SamplingInvariance, PTL

\* Every answer main takes from a load thread is to the request it has just made,
\* without a lock, for any number of threads and samples and with rates of 0 too
\* (multiload.c:436-455, 1331-1361).
THEOREM AnswersInStep == Spec => []AnswersThisSample
<1>1. SamplingInv => AnswersThisSample
  BY DEF SamplingInv, ThreadInv, UsedInv, IsTaken, AnswersThisSample, Taken
<1>. QED
  BY <1>1, SamplingInvariance, PTL

\* From the third sample on, the interval of an answer begins after the request
\* before it (multiload.c:452-455).
THEOREM IntervalsInStep == Spec => []IntervalsAreRecent
<1>1. SamplingInv => IntervalsAreRecent
  BY DEF SamplingInv, ThreadInv, UsedInv, IsTaken, IntervalsAreRecent, Taken
<1>. QED
  BY <1>1, SamplingInvariance, PTL

-----------------------------------------------------------------------------
(* A run: each part behaves in the composition as it does alone, so what is proved of  *)
(* one part holds of the program.                                                      *)

\* The proofs about the barrier, at the constants of this program.
B == INSTANCE StartupBarrier_proofs WITH
  NrThreads <- NrChase + NrLoad, MainCounts <- FALSE, Branch <- FALSE, Spurious <- FALSE

\* A run of the program is a behaviour of the sampling, whose steps wait for the
\* barrier, and one of the barrier (multiload.c:830-846, 1302-1361).
THEOREM RunImplementsParts == RunSpec => Spec /\ Barrier!Spec
<1>1. RunInit => Init /\ Barrier!Init
  BY DEF RunInit
<1>2. [RunNext]_runVars => [Next]_vars
  BY DEF RunNext, runVars, BarrierStep, MainSamples, Chases, Loads, Next
<1>3. [RunNext]_runVars => [Barrier!Next]_(Barrier!vars)
  BY DEF RunNext, runVars, barrierVars, Barrier!vars, BarrierStep, MainSamples,
         Chases, Loads
<1>4. RunSpec => Spec
  BY <1>1, <1>2, PTL DEF RunSpec, Spec
<1>5. RunSpec => Barrier!Spec
  BY <1>1, <1>3, PTL DEF RunSpec, Barrier!Spec
<1> QED
  BY <1>4, <1>5

\* In the whole program too each answer main takes from a load thread is to its
\* present request, although the request may have come before the thread had left
\* the barrier.
THEOREM AnswersOfTheRun == RunSpec => []AnswersThisSample
  BY RunImplementsParts, AnswersInStep, PTL

\* And each interval but the first two begins after the request before it.
THEOREM IntervalsOfTheRun == RunSpec => []IntervalsAreRecent
  BY RunImplementsParts, IntervalsInStep, PTL

-----------------------------------------------------------------------------
(* What is proved of the barrier *)

\* The barrier of the program is the one StartupBarrier_proofs is about.
LEMMA SameBarrier == Barrier!Spec => B!Spec
<1>1. Barrier!Init => B!Init
  BY DEF Barrier!Init, B!Init, Barrier!NoOne, B!NoOne, Barrier!Everyone, B!Everyone,
         Barrier!Threads, B!Threads, Barrier!Main, B!Main
<1>2. Barrier!Next => B!Next
  <2>1. Barrier!Threads = B!Threads /\ Barrier!Everyone = B!Everyone
    BY DEF Barrier!Everyone, B!Everyone, Barrier!Threads, B!Threads, Barrier!Main,
           B!Main
  <2>2. \A t : (Barrier!Create(t) => B!Create(t)) /\ (Barrier!Prepare(t) => B!Prepare(t))
    BY DEF Barrier!Create, B!Create, Barrier!Prepare, B!Prepare, Barrier!Threads,
           B!Threads, Barrier!Main, B!Main
  <2>3. \A p : Barrier!Step(p) \/ Barrier!SpuriousWakeup(p) =>
               B!Step(p) \/ B!SpuriousWakeup(p)
    <3> USE DEF Barrier!Everyone, B!Everyone, Barrier!Threads, B!Threads,
            Barrier!Main, B!Main, Barrier!Counted, B!Counted, Barrier!NoOne, B!NoOne
    <3>1. \A p : Barrier!Lock(p) => B!Lock(p)
      BY DEF Barrier!Lock, B!Lock
    <3>2. \A p : Barrier!Decide(p) => B!Decide(p)
      BY DEF Barrier!Decide, B!Decide, Barrier!Wait, B!Wait, Barrier!Release, B!Release
    <3>3. \A p : Barrier!Relock(p) => B!Relock(p)
      BY DEF Barrier!Relock, B!Relock
    <3>4. \A p : Barrier!Unlock(p) => B!Unlock(p)
      BY DEF Barrier!Unlock, B!Unlock
    <3>5. \A p : Barrier!SpuriousWakeup(p) => B!SpuriousWakeup(p)
      BY DEF Barrier!SpuriousWakeup, B!SpuriousWakeup
    <3> QED
      BY <3>1, <3>2, <3>3, <3>4, <3>5 DEF Barrier!Step, B!Step
  <2>4. (Barrier!Look => B!Look) /\ (Barrier!Exit => B!Exit)
    BY DEF Barrier!Look, B!Look, Barrier!Exit, B!Exit, Barrier!Wait, B!Wait,
           Barrier!Everyone, B!Everyone, Barrier!Threads, B!Threads, Barrier!Main,
           B!Main, Barrier!Counted, B!Counted, Barrier!NoOne, B!NoOne
  <2> QED
    BY <2>1, <2>2, <2>3, <2>4, Zenon DEF Barrier!Next, B!Next
<1>3. [Barrier!Next]_(Barrier!vars) => [B!Next]_(B!vars)
  BY <1>2 DEF Barrier!vars, B!vars
<1> QED
  BY <1>1, <1>3, PTL DEF Barrier!Spec, B!Spec

\* Nobody, main included, begins in the whole program before everybody has prepared,
\* for every number of threads (multiload.c:830-846, 1302-1307).
THEOREM StartOfTheRun == RunSpec => []Barrier!NoEarlyStart
<1>1. B!Spec => []B!NoEarlyStart
  BY B!StartsTogether, ThreadsAssumption
<1>2. B!NoEarlyStart => Barrier!NoEarlyStart
  BY DEF Barrier!NoEarlyStart, B!NoEarlyStart, Barrier!Everyone, B!Everyone,
         Barrier!Threads, B!Threads, Barrier!Main, B!Main
<1> QED
  BY <1>1, <1>2, RunImplementsParts, SameBarrier, PTL

-----------------------------------------------------------------------------
(* The options: what is selected is what was typed, the kind of run is the rank of what *)
(* was asked, and the threads created so far are the first of those it means.           *)

\* A word typed for a kernel that is a name selects what it names, as far as the
\* tables allow, and a kernel that needs an argument has one.
KernelInv ==
  /\ program \in Opt!Programs /\ stride \in Strides
  /\ word \in [c : Typed \union {""}, l : Typed \union {""}]
  /\ chase \in Opt!Kernels(Opt!Chases(program)) /\ memload \in Opt!Kernels(Opt!Memloads)
  /\ opc # "exit" =>
       /\ word.l \in Opt!Kernels(Opt!Memloads) => memload = word.l
       /\ word.c \in Opt!Kernels(Opt!Chases(program)) => chase = word.c \/ word.c = "critword"
       /\ chase \in Opt!RequiresArg => extra_args

\* The kind of run that the kernels asked for mean.
RankOfAsked ==
  IF "chaseload" \in asked THEN "RUN_CHASE_LOADED"
  ELSE IF asked \intersect Opt!Kernels(Opt!Memloads) # {} THEN "RUN_BANDWIDTH" ELSE "RUN_CHASE"

RankInv == run_test_type \in Opt!RunTypes /\ (opc # "exit" => run_test_type = RankOfAsked)

\* The threads created so far, and what the checks before them have found.
Chasing(len) ==
  IF run_test_type = "RUN_CHASE" THEN len
  ELSE IF run_test_type = "RUN_CHASE_LOADED" /\ len > 0 THEN 1 ELSE 0

RoleInv ==
  /\ nr_threads \in 0..MaxThreads /\ (opc # "exit" => nr_threads > 0)
  /\ roles \in Seq(Opt!RunTypes) /\ Len(roles) <= nr_threads
  /\ opc = "options" => roles = <<>>
  /\ opc = "running" => Len(roles) = nr_threads
  /\ \A j \in 1..Len(roles) : roles[j] = Opt!Role(j - 1)
  /\ nr_chase_threads = Chasing(Len(roles))
  /\ nr_load_threads = Len(roles) - Chasing(Len(roles))
  /\ opc \in {"create", "running"} => stride >= 8 /\ Opt!Fits

OptMiscType ==
  /\ opc \in {"options", "create", "running", "exit"}
  /\ nr_options \in 0..MaxOptions /\ extra_args \in BOOLEAN

OptInv == KernelInv /\ RankInv /\ RoleInv /\ OptMiscType

-----------------------------------------------------------------------------
(* Options: the tables *)

ChaseNames == {"simple", "gpu", "work", "incr", "branch", "chaseload", "t0", "t1", "t2",
  "nta", "movdqa", "movntdqa", "parallel2", "parallel3", "parallel4", "parallel5",
  "parallel6", "parallel7", "parallel8", "parallel9", "parallel10", "critword2", "critword"}

LoadNames == {"memcpy-libc", "memset-libc", "memsetz-libc", "stream-copy", "stream-sum",
  "stream-triad", "stream-triad-nontemporal-injection-delay"}

LEMMA TheTables ==
  /\ \A p \in Opt!Programs : /\ Opt!Chases(p) \in Seq(ChaseNames)
                             /\ 1 \in DOMAIN Opt!Chases(p) /\ Opt!Chases(p)[1] = "simple"
  /\ Opt!Memloads \in Seq(LoadNames)
  /\ \A p \in Opt!Programs : Opt!Kernels(Opt!Chases(p)) \subseteq ChaseNames
  /\ Opt!Kernels(Opt!Memloads) \intersect ChaseNames = {}
  /\ \A p \in Opt!Programs : Opt!Kernels(Opt!Chases(p)) \subseteq Opt!Names
  /\ Opt!Kernels(Opt!Memloads) \subseteq Opt!Names
<1>1. \A p \in Opt!Programs : /\ Opt!Chases(p) \in Seq(ChaseNames)
                              /\ 1 \in DOMAIN Opt!Chases(p) /\ Opt!Chases(p)[1] = "simple"
  <2> SUFFICES ASSUME NEW p \in Opt!Programs
               PROVE  /\ Opt!Chases(p) \in Seq(ChaseNames)
                      /\ 1 \in DOMAIN Opt!Chases(p) /\ Opt!Chases(p)[1] = "simple"
    OBVIOUS
  <2> DEFINE own == IF p = "multichase" THEN <<"simple", "gpu", "work", "incr", "branch">>
                                        ELSE <<"simple", "chaseload", "work", "incr">>
             prefetch == <<"t0", "t1", "t2", "nta", "movdqa", "movntdqa">>
             rest == <<"critword2", "critword">>
  <2>1. own \in Seq(ChaseNames) /\ Len(own) >= 1 /\ own[1] = "simple"
    <3>1. CASE p = "multichase"
      BY <3>1 DEF ChaseNames
    <3>2. CASE p # "multichase"
      BY <3>2 DEF ChaseNames
    <3> QED
      BY <3>1, <3>2
  <2>2. prefetch \in Seq(ChaseNames)
    BY DEF ChaseNames
  <2>3. Opt!Parallel \in Seq(ChaseNames)
    BY DEF ChaseNames, Opt!Parallel
  <2>4. rest \in Seq(ChaseNames)
    BY DEF ChaseNames
  <2>5. Opt!Chases(p) = own \o prefetch \o Opt!Parallel \o rest
    BY DEF Opt!Chases
  <2> HIDE DEF own, prefetch, rest
  <2>6. /\ own \o prefetch \in Seq(ChaseNames) /\ Len(own \o prefetch) >= 1
        /\ (own \o prefetch)[1] = "simple"
    BY <2>1, <2>2, ConcatProperties
  <2>7. /\ own \o prefetch \o Opt!Parallel \in Seq(ChaseNames)
        /\ Len(own \o prefetch \o Opt!Parallel) >= 1
        /\ (own \o prefetch \o Opt!Parallel)[1] = "simple"
    BY <2>3, <2>6, ConcatProperties
  <2> DEFINE most == own \o prefetch \o Opt!Parallel
  <2> HIDE DEF most
  <2>8. /\ most \o rest \in Seq(ChaseNames) /\ Len(most \o rest) >= 1
        /\ (most \o rest)[1] = "simple"
    BY <2>4, <2>7, ConcatProperties DEF most
  <2> QED
    BY <2>5, <2>8 DEF most
<1>2. Opt!Memloads \in Seq(LoadNames)
  BY DEF Opt!Memloads, LoadNames
<1>3. \A p \in Opt!Programs : Opt!Kernels(Opt!Chases(p)) \subseteq ChaseNames
  BY <1>1 DEF Opt!Kernels
<1>4. Opt!Kernels(Opt!Memloads) \subseteq LoadNames
  BY <1>2 DEF Opt!Kernels
<1>5. Opt!Kernels(Opt!Memloads) \intersect ChaseNames = {}
  BY <1>4 DEF ChaseNames, LoadNames
<1>6. /\ \A p \in Opt!Programs : Opt!Kernels(Opt!Chases(p)) \subseteq Opt!Names
      /\ Opt!Kernels(Opt!Memloads) \subseteq Opt!Names
  BY DEF Opt!Names
<1> QED
  BY <1>1, <1>2, <1>3, <1>5, <1>6

\* The first of the names found is well defined.
LEMMA SelectedIsFirst ==
  ASSUME NEW S, NEW table \in Seq(S), NEW w, Opt!Found(table, w) # {}
  PROVE  \E k \in Opt!Found(table, w) : /\ Opt!Selected(table, w) = table[k]
                                        /\ \A l \in Opt!Found(table, w) : k <= l
<1>1. Opt!Found(table, w) \subseteq Nat
  BY DEF Opt!Found
<1>2. \E k \in Opt!Found(table, w) : \A l \in Opt!Found(table, w) : ~(<<l, k>> \in OpToRel(<, Nat))
  BY <1>1, NatLessThanWellFounded, WFMin
<1>3. PICK k \in Opt!Found(table, w) : \A l \in Opt!Found(table, w) : ~(l < k)
  BY <1>1, <1>2 DEF OpToRel
<1>4. \A l \in Opt!Found(table, w) : k <= l
  BY <1>1, <1>3
<1> QED
  BY <1>4 DEF Opt!Selected

LEMMA SelectedIsFound ==
  ASSUME NEW S, NEW table \in Seq(S), NEW w, Opt!Found(table, w) # {}
  PROVE  Opt!Selected(table, w) \in Opt!Kernels(table) \intersect Prefixes[w]
BY SelectedIsFirst DEF Opt!Found, Opt!Kernels

\* A name typed in full selects its kernel, except critword.
LEMMA NamedChase ==
  ASSUME Opt!Assumptions, NEW w \in Typed, NEW p \in Opt!Programs, w \in Opt!Kernels(Opt!Chases(p)),
         w # "critword"
  PROVE  Opt!Found(Opt!Chases(p), w) # {} /\ Opt!Selected(Opt!Chases(p), w) = w
<1>1. Opt!Chases(p) \in Seq(ChaseNames) /\ w \in Opt!Names /\ w \in ChaseNames
  BY TheTables
<1>2. Prefixes[w] \intersect Opt!Names = {w}
  <2>1. w # "stream-triad"
    BY <1>1 DEF ChaseNames
  <2>2. Opt!Longer(w) = {}
    BY <2>1 DEF Opt!Longer
  <2> QED
    BY <1>1, <2>2 DEF Opt!Assumptions
<1>3. Opt!Found(Opt!Chases(p), w) # {}
  BY <1>2 DEF Opt!Found, Opt!Kernels
<1>4. Opt!Selected(Opt!Chases(p), w) \in Opt!Names \intersect Prefixes[w]
  BY <1>1, <1>3, SelectedIsFound, TheTables
<1> QED
  BY <1>2, <1>3, <1>4

LEMMA NamedLoad ==
  ASSUME Opt!Assumptions, NEW w \in Typed, w \in Opt!Kernels(Opt!Memloads)
  PROVE  Opt!Found(Opt!Memloads, w) # {} /\ Opt!Selected(Opt!Memloads, w) = w
<1>1. Opt!Memloads \in Seq(LoadNames) /\ w \in Opt!Names
  BY TheTables
<1>2. Prefixes[w] \intersect Opt!Names = {w} \union Opt!Longer(w)
  BY <1>1 DEF Opt!Assumptions
<1>3. Opt!Found(Opt!Memloads, w) # {}
  BY <1>2 DEF Opt!Found, Opt!Kernels
<1>4. Opt!Selected(Opt!Memloads, w) \in Opt!Names \intersect Prefixes[w]
  BY <1>1, <1>3, SelectedIsFound, TheTables
<1>5. CASE w # "stream-triad"
  <2>1. w # "critword"
    BY DEF Opt!Kernels, Opt!Memloads
  <2>2. Opt!Longer(w) = {}
    BY <1>5, <2>1 DEF Opt!Longer
  <2> QED
    BY <1>2, <1>3, <1>4, <2>2
<1>6. CASE w = "stream-triad"
  <2>1. 6 \in Opt!Found(Opt!Memloads, w)
    BY <1>2, <1>6 DEF Opt!Found, Opt!Memloads
  <2>2. PICK k \in Opt!Found(Opt!Memloads, w) : /\ Opt!Selected(Opt!Memloads, w) = Opt!Memloads[k]
                                                /\ \A l \in Opt!Found(Opt!Memloads, w) : k <= l
    BY <1>1, <1>3, SelectedIsFirst
  <2>3. k \in 1..6
    BY <2>1, <2>2 DEF Opt!Found, Opt!Memloads
  <2>4. Opt!Memloads[k] # "stream-triad-nontemporal-injection-delay"
    BY <2>3 DEF Opt!Memloads
  <2>5. Opt!Longer(w) = {"stream-triad-nontemporal-injection-delay"}
    BY <1>6 DEF Opt!Longer
  <2> QED
    BY <1>2, <1>3, <1>4, <2>2, <2>4, <2>5
<1> QED
  BY <1>5, <1>6

-----------------------------------------------------------------------------
(* Options: the kernels *)

LEMMA KernelStep ==
  ASSUME Opt!Assumptions, KernelInv, [Opt!Next]_(Opt!optVars)
  PROVE  KernelInv'
<1> USE DEF KernelInv
<1>1. /\ Opt!Chases(program) \in Seq(ChaseNames) /\ Opt!Memloads \in Seq(LoadNames)
      /\ program \in Opt!Programs
  BY TheTables
<1>2. ASSUME NEW w \in Typed, NEW a \in Opt!Arguments, Opt!OptChase(w, a), Opt!Rest, opc = "options"
      PROVE  KernelInv'
  <2>1. /\ word' = [word EXCEPT !.c = w]
        /\ UNCHANGED <<program, stride, memload>>
    BY <1>2 DEF Opt!OptChase, Opt!Rest
  <2>2. /\ word' \in [c : Typed \union {""}, l : Typed \union {""}]
        /\ word'.c = w /\ word'.l = word.l
    BY <2>1
  <2>3. CASE Opt!Found(Opt!Chases(program), w) = {}
    <3>1. opc' = "exit" /\ UNCHANGED chase
      BY <1>2, <2>3 DEF Opt!OptChase
    <3> QED
      BY <2>1, <2>2, <3>1
  <2>4. CASE Opt!Found(Opt!Chases(program), w) # {}
    <3> DEFINE k == Opt!Selected(Opt!Chases(program), w)
    <3>1. k \in Opt!Kernels(Opt!Chases(program))
      BY <1>1, <2>4, SelectedIsFound
    <3>2. /\ chase' = k
          /\ opc' = IF k = "chaseload"
                       \/ (run_test_type # "RUN_BANDWIDTH" /\ Opt!ArgumentOK(k, a))
                    THEN "options" ELSE "exit"
          /\ extra_args' = (extra_args \/ (k \in Opt!RequiresArg /\ a = "some"))
      BY <1>2, <2>4 DEF Opt!OptChase
    <3>3. w \in Opt!Kernels(Opt!Chases(program)) => k = w \/ w = "critword"
      BY <1>1, NamedChase
    <3>4. opc' # "exit" /\ k \in Opt!RequiresArg => extra_args'
      BY <3>2 DEF Opt!RequiresArg, Opt!ArgumentOK
    <3> QED
      BY <1>2, <2>1, <2>2, <3>1, <3>2, <3>3, <3>4
  <2> QED
    BY <2>3, <2>4
<1>3. ASSUME NEW w \in Typed, NEW a \in Opt!Arguments, Opt!OptLoad(w, a), Opt!Rest, opc = "options"
      PROVE  KernelInv'
  <2>1. /\ word' = [word EXCEPT !.l = w]
        /\ UNCHANGED <<program, stride, chase, extra_args>>
    BY <1>3 DEF Opt!OptLoad, Opt!Rest
  <2>2. /\ word' \in [c : Typed \union {""}, l : Typed \union {""}]
        /\ word'.l = w /\ word'.c = word.c
    BY <2>1
  <2>3. CASE Opt!Found(Opt!Memloads, w) = {}
    <3>1. opc' = "exit" /\ UNCHANGED memload
      BY <1>3, <2>3 DEF Opt!OptLoad
    <3> QED
      BY <2>1, <2>2, <3>1
  <2>4. CASE Opt!Found(Opt!Memloads, w) # {}
    <3>1. memload' = Opt!Selected(Opt!Memloads, w)
      BY <1>3, <2>4 DEF Opt!OptLoad
    <3>2. memload' \in Opt!Kernels(Opt!Memloads)
      BY <3>1, <1>1, <2>4, SelectedIsFound
    <3>3. w \in Opt!Kernels(Opt!Memloads) => memload' = w
      BY <3>1, NamedLoad
    <3> QED
      BY <1>3, <2>1, <2>2, <3>2, <3>3
  <2> QED
    BY <2>3, <2>4
<1>4. ASSUME NEW m \in 0..MaxThreads, Opt!OptThreads(m), Opt!Rest, opc = "options"
      PROVE  KernelInv'
  BY <1>4 DEF Opt!OptThreads, Opt!Rest
<1>5. CASE Opt!GetOpt
  BY <1>2, <1>3, <1>4, <1>5 DEF Opt!GetOpt
<1>6. CASE Opt!Usage \/ Opt!Sanity
  BY <1>6 DEF Opt!Usage, Opt!Sanity, Opt!Rest
<1>7. CASE Opt!Create
  BY <1>7 DEF Opt!Create
<1>8. CASE UNCHANGED Opt!optVars
  BY <1>8 DEF Opt!optVars
<1> QED
  BY <1>5, <1>6, <1>7, <1>8 DEF Opt!Next

LEMMA RankStep ==
  ASSUME Opt!Assumptions, KernelInv, RankInv, [Opt!Next]_(Opt!optVars)
  PROVE  RankInv'
<1> USE DEF RankInv, Opt!RunTypes
<1>1. /\ Opt!Chases(program) \in Seq(ChaseNames) /\ Opt!Memloads \in Seq(LoadNames)
      /\ Opt!Kernels(Opt!Chases(program)) \subseteq ChaseNames
      /\ Opt!Kernels(Opt!Memloads) \intersect ChaseNames = {} /\ "chaseload" \in ChaseNames
  BY TheTables DEF KernelInv, ChaseNames
<1>2. ASSUME NEW w \in Typed, NEW a \in Opt!Arguments, Opt!OptChase(w, a), opc = "options"
      PROVE  RankInv'
  <2>1. CASE Opt!Found(Opt!Chases(program), w) = {}
    BY <1>2, <2>1 DEF Opt!OptChase
  <2>2. CASE Opt!Found(Opt!Chases(program), w) # {}
    <3> DEFINE k == Opt!Selected(Opt!Chases(program), w)
    <3>1. k \in Opt!Kernels(Opt!Chases(program))
      BY <1>1, <2>2, SelectedIsFound
    <3>2. /\ asked' = asked \union {k}
          /\ run_test_type' = IF k = "chaseload" THEN "RUN_CHASE_LOADED" ELSE run_test_type
          /\ opc' = IF k = "chaseload"
                       \/ (run_test_type # "RUN_BANDWIDTH" /\ Opt!ArgumentOK(k, a))
                    THEN "options" ELSE "exit"
      BY <1>2, <2>2 DEF Opt!OptChase
    <3>3. k \notin Opt!Kernels(Opt!Memloads)
      BY <1>1, <3>1
    <3> HIDE DEF k
    <3>4. asked' \intersect Opt!Kernels(Opt!Memloads) = asked \intersect Opt!Kernels(Opt!Memloads)
      BY <3>2, <3>3
    <3> QED
      BY <1>2, <3>2, <3>4 DEF RankOfAsked
  <2> QED
    BY <2>1, <2>2
<1>3. ASSUME NEW w \in Typed, NEW a \in Opt!Arguments, Opt!OptLoad(w, a), opc = "options"
      PROVE  RankInv'
  <2>1. CASE Opt!Found(Opt!Memloads, w) = {}
    BY <1>3, <2>1 DEF Opt!OptLoad
  <2>2. CASE Opt!Found(Opt!Memloads, w) # {}
    <3>1. /\ memload' \in Opt!Kernels(Opt!Memloads) /\ asked' = asked \union {memload'}
          /\ run_test_type' = Opt!TypeWithLoad
      BY <1>1, <1>3, <2>2, SelectedIsFound DEF Opt!OptLoad
    <3>2. asked' \intersect Opt!Kernels(Opt!Memloads) # {}
      BY <3>1
    <3>3. "chaseload" \in asked' <=> "chaseload" \in asked
      BY <1>1, <3>1
    <3>4. "chaseload" \in asked <=> run_test_type = "RUN_CHASE_LOADED"
      BY <1>3 DEF RankOfAsked
    <3> QED
      BY <3>1, <3>2, <3>3, <3>4 DEF RankOfAsked, Opt!TypeWithLoad
  <2> QED
    BY <2>1, <2>2
<1>4. CASE Opt!GetOpt
  BY <1>2, <1>3, <1>4 DEF Opt!GetOpt, Opt!OptThreads, RankOfAsked
<1>5. CASE Opt!Usage \/ Opt!Sanity
  BY <1>5 DEF Opt!Usage, Opt!Sanity, RankOfAsked
<1>6. CASE Opt!Create
  BY <1>6 DEF Opt!Create, RankOfAsked
<1>7. CASE UNCHANGED Opt!optVars
  BY <1>7 DEF Opt!optVars, RankOfAsked
<1> QED
  BY <1>4, <1>5, <1>6, <1>7 DEF Opt!Next

-----------------------------------------------------------------------------
(* Options: the threads *)

LEMMA RoleStep ==
  ASSUME Opt!Assumptions, RankInv, RoleInv, OptMiscType, [Opt!Next]_(Opt!optVars)
  PROVE  RoleInv'
<1> USE DEF RoleInv
<1>1. /\ nr_threads \in Nat /\ Len(roles) \in Nat /\ MaxThreads \in Nat \ {0}
      /\ run_test_type \in Opt!RunTypes
  BY DEF Opt!Assumptions, RankInv
<1>2. CASE Opt!GetOpt
  <2>1. /\ opc = "options" /\ opc' \in {"options", "exit"}
        /\ UNCHANGED <<roles, nr_chase_threads, nr_load_threads>>
        /\ \/ UNCHANGED nr_threads
           \/ nr_threads' \in 0..MaxThreads /\ (opc' # "exit" => nr_threads' # 0)
    BY <1>2 DEF Opt!GetOpt, Opt!OptChase, Opt!OptLoad, Opt!OptThreads, Opt!Rest
  <2>2. roles' = <<>> /\ Len(roles') = 0 /\ Len(roles) = 0
    BY <2>1
  <2>3. Chasing(0) = 0 /\ Chasing(0)' = 0
    BY DEF Chasing
  <2> QED
    BY <1>1, <2>1, <2>2, <2>3
<1>3. CASE Opt!Usage
  BY <1>3 DEF Opt!Usage, Opt!Rest, Chasing, Opt!Role
<1>4. CASE Opt!Sanity
  BY <1>4 DEF Opt!Sanity, Opt!Rest, Chasing, Opt!Role, Opt!Fits, Opt!Indices
<1>5. CASE Opt!Create
  <2>1. /\ opc = "create"
        /\ UNCHANGED <<program, stride, nr_threads, chase, run_test_type>>
    BY <1>5 DEF Opt!Create
  <2>2. \A j : Opt!Role(j)' = Opt!Role(j) /\ Chasing(j)' = Chasing(j)
    BY <2>1 DEF Opt!Role, Chasing
  <2>3. Opt!Fits' = Opt!Fits
    BY <2>1 DEF Opt!Fits, Opt!Indices
  <2>4. CASE opc' \in {"running", "exit"} /\ UNCHANGED <<roles, nr_chase_threads, nr_load_threads>>
                /\ (opc' = "running" => Len(roles) = nr_threads)
    BY <2>1, <2>2, <2>3, <2>4
  <2>5. CASE /\ Len(roles) # nr_threads
             /\ roles' = Append(roles, Opt!Role(Len(roles)))
             /\ nr_chase_threads' = nr_chase_threads + (IF Opt!Role(Len(roles)) = "RUN_CHASE" THEN 1 ELSE 0)
             /\ nr_load_threads' = nr_load_threads + (IF Opt!Role(Len(roles)) = "RUN_CHASE" THEN 0 ELSE 1)
             /\ UNCHANGED opc
    <3> DEFINE len == Len(roles)
    <3>1. Opt!Role(len) \in Opt!RunTypes
      BY DEF Opt!Role, Opt!RunTypes
    <3>2. /\ roles' \in Seq(Opt!RunTypes) /\ Len(roles') = len + 1
          /\ \A j \in 1..len : roles'[j] = roles[j]
          /\ roles'[len + 1] = Opt!Role(len)
      BY <2>5, <3>1
    <3>3. len + 1 <= nr_threads
      BY <1>1, <2>5
    <3>4. (len + 1) - 1 = len
      BY <1>1
    <3>5. \A j \in 1..(len + 1) : roles'[j] = Opt!Role(j - 1)
      <4>1. \A j \in 1..(len + 1) : j \in 1..len \/ j = len + 1
        BY <1>1
      <4> QED
        BY <3>2, <3>4, <4>1
    <3>6. Chasing(len + 1) = Chasing(len) + (IF Opt!Role(len) = "RUN_CHASE" THEN 1 ELSE 0)
      <4>1. len \in Nat /\ len + 1 > 0 /\ (len > 0 <=> len # 0)
        BY <1>1
      <4>2. CASE run_test_type = "RUN_CHASE"
        BY <4>1, <4>2 DEF Chasing, Opt!Role
      <4>3. CASE run_test_type = "RUN_BANDWIDTH"
        BY <4>1, <4>3 DEF Chasing, Opt!Role
      <4>4. CASE run_test_type = "RUN_CHASE_LOADED"
        BY <4>1, <4>4 DEF Chasing, Opt!Role
      <4> QED
        BY <1>1, <4>2, <4>3, <4>4 DEF Opt!RunTypes
    <3>7. Chasing(len) \in Nat
      BY <1>1 DEF Chasing
    <3>8. /\ nr_chase_threads' = Chasing(len + 1)
          /\ nr_load_threads' = (len + 1) - Chasing(len + 1)
      BY <1>1, <2>5, <3>6, <3>7
    <3> HIDE DEF len
    <3> QED
      BY <2>1, <2>2, <2>3, <2>5, <3>2, <3>3, <3>5, <3>8
  <2> QED
    BY <1>5, <2>4, <2>5 DEF Opt!Create
<1>6. CASE UNCHANGED Opt!optVars
  BY <1>6 DEF Opt!optVars, Chasing, Opt!Role, Opt!Fits, Opt!Indices
<1> QED
  BY <1>2, <1>3, <1>4, <1>5, <1>6 DEF Opt!Next

LEMMA MiscStep ==
  ASSUME Opt!Assumptions, RankInv, OptMiscType, [Opt!Next]_(Opt!optVars)
  PROVE  OptMiscType'
<1> USE DEF OptMiscType
<1>1. CASE Opt!GetOpt
  <2>1. nr_options' \in 0..MaxOptions
    BY <1>1 DEF Opt!GetOpt, Opt!Assumptions
  <2>2. extra_args' \in BOOLEAN
    BY <1>1 DEF Opt!GetOpt, Opt!OptChase, Opt!OptLoad, Opt!OptThreads
  <2>3. opc' \in {"options", "exit"}
    BY <1>1 DEF Opt!GetOpt, Opt!OptChase, Opt!OptLoad, Opt!OptThreads
  <2> QED
    BY <2>1, <2>2, <2>3
<1>2. CASE Opt!Usage \/ Opt!Sanity \/ Opt!Create
  BY <1>2 DEF Opt!Usage, Opt!Sanity, Opt!Create
<1>3. CASE UNCHANGED Opt!optVars
  BY <1>3 DEF Opt!optVars
<1> QED
  BY <1>1, <1>2, <1>3 DEF Opt!Next

-----------------------------------------------------------------------------
(* Options: the invariant *)

LEMMA InitOptInv == Opt!Assumptions /\ Opt!Init => OptInv
<1> SUFFICES ASSUME Opt!Assumptions, Opt!Init PROVE OptInv
  OBVIOUS
<1> DEFINE plain == /\ program \in Opt!Programs /\ stride \in Strides
                    /\ chase = "simple" /\ memload = "memcpy-libc"
                    /\ word = [c |-> "", l |-> ""]
<1>5. plain
  BY DEF Opt!Init
<1>1. KernelInv
  <2>1. /\ 1 \in DOMAIN Opt!Chases(program) /\ Opt!Chases(program)[1] = "simple"
        /\ Opt!Kernels(Opt!Chases(program)) \subseteq ChaseNames /\ "" \notin ChaseNames
    BY <1>5, TheTables DEF ChaseNames
  <2>2. chase \in Opt!Kernels(Opt!Chases(program)) /\ chase \notin Opt!RequiresArg
    BY <1>5, <2>1 DEF Opt!Kernels, Opt!RequiresArg
  <2>3. memload \in Opt!Kernels(Opt!Memloads)
    <3>1. 1 \in DOMAIN Opt!Memloads /\ Opt!Memloads[1] = "memcpy-libc"
      BY DEF Opt!Memloads
    <3> QED
      BY <1>5, <3>1 DEF Opt!Kernels
  <2>4. "" \notin Opt!Kernels(Opt!Memloads)
    <3>1. \A k \in DOMAIN Opt!Memloads : Opt!Memloads[k] \in LoadNames
      BY TheTables
    <3>2. "" \notin LoadNames
      BY DEF LoadNames
    <3> QED
      BY <3>1, <3>2 DEF Opt!Kernels
  <2>5. word \in [c : Typed \union {""}, l : Typed \union {""}] /\ word.c = "" /\ word.l = ""
    BY <1>5
  <2> QED
    BY <1>5, <2>1, <2>2, <2>3, <2>4, <2>5 DEF KernelInv
<1>2. RankInv
  <2>1. run_test_type = "RUN_CHASE" /\ asked = {}
    BY DEF Opt!Init
  <2>2. RankOfAsked = "RUN_CHASE"
    BY <2>1 DEF RankOfAsked
  <2> QED
    BY <2>1, <2>2 DEF RankInv, Opt!RunTypes
<1>3. RoleInv
  <2>1. /\ opc = "options" /\ nr_threads = 1 /\ roles = <<>> /\ Len(roles) = 0
        /\ nr_chase_threads = 0 /\ nr_load_threads = 0
    BY DEF Opt!Init
  <2>2. Chasing(0) = 0
    BY DEF Chasing
  <2>3. 1 \in 0..MaxThreads /\ roles \in Seq(Opt!RunTypes)
    BY <2>1 DEF Opt!Assumptions
  <2> QED
    BY <2>1, <2>2, <2>3 DEF RoleInv
<1>4. OptMiscType
  <2>1. opc = "options" /\ nr_options = 0 /\ (extra_args = FALSE)
    BY Zenon DEF Opt!Init
  <2>2. nr_options \in 0..MaxOptions
    BY <2>1 DEF Opt!Assumptions
  <2>3. extra_args \in BOOLEAN
    BY <2>1, Zenon
  <2> QED
    BY <2>1, <2>2, <2>3 DEF OptMiscType
<1> QED
  BY <1>1, <1>2, <1>3, <1>4 DEF OptInv

LEMMA OptInductive == Opt!Assumptions /\ OptInv /\ [Opt!Next]_(Opt!optVars) => OptInv'
BY KernelStep, RankStep, RoleStep, MiscStep DEF OptInv

LEMMA OptionsKept ==
  ASSUME Opt!Assumptions, OptInv
  PROVE  Opt!OptionsAreKept
<1>1. Opt!RunTypeIsThatOfTheOptions
  BY DEF OptInv, RankInv, RankOfAsked, Opt!RunTypeIsThatOfTheOptions, Opt!Kernels
<1>2. Opt!NamedKernelsRun
  <2>1. (\E k \in DOMAIN Opt!Memloads : Opt!Memloads[k] = word.l) => word.l \in Opt!Kernels(Opt!Memloads)
    BY DEF Opt!Kernels
  <2>2. (\E k \in DOMAIN Opt!Chases(program) : Opt!Chases(program)[k] = word.c)
           => word.c \in Opt!Kernels(Opt!Chases(program))
    BY DEF Opt!Kernels
  <2> QED
    BY <2>1, <2>2 DEF OptInv, KernelInv, Opt!NamedKernelsRun
<1> QED
  BY <1>1, <1>2 DEF Opt!OptionsAreKept

LEMMA OptTypes ==
  ASSUME Opt!Assumptions, OptInv
  PROVE  Opt!TypeOK
<1> USE DEF OptInv
<1>1. \E k \in DOMAIN Opt!Chases(program) : Opt!Chases(program)[k] = chase
  BY DEF KernelInv, Opt!Kernels
<1>2. \E k \in DOMAIN Opt!Memloads : Opt!Memloads[k] = memload
  BY DEF KernelInv, Opt!Kernels
<1>3. Chasing(Len(roles)) \in Nat
  BY DEF RoleInv, Chasing
<1>4. nr_chase_threads + nr_load_threads = Len(roles)
  BY <1>3 DEF RoleInv
<1> QED
  BY <1>1, <1>2, <1>4 DEF RankInv, RoleInv, OptMiscType, Opt!TypeOK

LEMMA ParallelismType == \A c : Opt!Parallelism(c) \in 1..10
<1> SUFFICES ASSUME NEW c PROVE Opt!Parallelism(c) \in 1..10
  OBVIOUS
<1>1. CASE \E k \in 1..9 : Opt!Parallel[k] = c
  <2>1. (CHOOSE k \in 1..9 : Opt!Parallel[k] = c) \in 1..9
    BY <1>1
  <2> QED
    BY <1>1, <2>1 DEF Opt!Parallelism
<1>2. CASE ~\E k \in 1..9 : Opt!Parallel[k] = c
  BY <1>2 DEF Opt!Parallelism
<1> QED
  BY <1>1, <1>2

\* The rows of the first threads are among those of all.
LEMMA RowsOfFewer ==
  ASSUME NEW j \in Nat, NEW m \in Nat, NEW f \in Nat, j <= m
  PROVE  j * f <= m * f
<1>1. PICK d \in Nat : m = j + d
  OBVIOUS
<1>2. m * f = j * f + d * f /\ d * f \in Nat /\ j * f \in Nat
  BY <1>1
<1> QED
  BY <1>2

LEMMA ThreadsReady ==
  ASSUME Opt!Assumptions, OptInv
  PROVE  Opt!ThreadsAreReady
<1> USE DEF OptInv
<1>1. /\ Len(roles) \in Nat /\ nr_threads \in Nat /\ run_test_type \in Opt!RunTypes
      /\ \A j \in DOMAIN roles : j \in 1..Len(roles) /\ roles[j] = Opt!Role(j - 1)
  BY DEF RoleInv, RankInv
<1>2. \A j \in DOMAIN roles : roles[j] = "RUN_CHASE" <=> j <= nr_chase_threads
  <2>1. SUFFICES ASSUME NEW j \in DOMAIN roles
                 PROVE  Opt!Role(j - 1) = "RUN_CHASE" <=> j <= Chasing(Len(roles))
    BY <1>1 DEF RoleInv
  <2>2. j \in Nat /\ 1 <= j /\ j <= Len(roles)
    BY <1>1
  <2>3. CASE run_test_type = "RUN_CHASE"
    BY <2>2, <2>3 DEF Opt!Role, Chasing
  <2>4. CASE run_test_type = "RUN_BANDWIDTH"
    BY <2>2, <2>4 DEF Opt!Role, Chasing
  <2>5. CASE run_test_type = "RUN_CHASE_LOADED"
    <3>1. j - 1 # 0 <=> ~(j <= 1)
      BY <2>2
    <3>2. Len(roles) > 0
      BY <1>1, <2>2
    <3> QED
      BY <2>5, <3>1, <3>2 DEF Opt!Role, Chasing
  <2> QED
    BY <1>1, <2>3, <2>4, <2>5 DEF Opt!RunTypes
<1>3. Opt!ChaseThreadsComeFirst
  <2> SUFFICES ASSUME opc = "running" PROVE Opt!ChaseThreadsComeFirst
    BY DEF Opt!ChaseThreadsComeFirst
  <2>1. Len(roles) = nr_threads /\ nr_threads > 0
    BY DEF RoleInv
  <2>2. Chasing(Len(roles)) \in Nat
    BY <1>1 DEF Chasing
  <2>3. nr_chase_threads + nr_load_threads = nr_threads
    BY <1>1, <2>1, <2>2 DEF RoleInv
  <2>4. run_test_type = "RUN_CHASE_LOADED" => nr_chase_threads = 1
    BY <2>1 DEF RoleInv, Chasing
  <2> QED
    BY <1>2, <2>3, <2>4 DEF Opt!ChaseThreadsComeFirst
<1>4. Opt!ChasesAreReady
  <2> SUFFICES ASSUME opc = "running", run_test_type = "RUN_CHASE_LOADED" => chase = "chaseload",
                      NEW j \in DOMAIN roles, roles[j] = "RUN_CHASE"
               PROVE  /\ j * Opt!Parallelism(chase) <= Opt!Indices
                      /\ chase \in Opt!RequiresArg => extra_args
    BY DEF Opt!ChasesAreReady
  <2>1. chase \in Opt!RequiresArg => extra_args
    BY DEF KernelInv
  <2>2. stride \in Nat /\ stride >= 8 /\ Opt!Fits /\ Len(roles) = nr_threads
    BY DEF KernelInv, RoleInv, Opt!Assumptions
  <2>3. /\ j \in Nat /\ j <= nr_threads
        /\ Opt!Parallelism(chase) \in Nat /\ Opt!ObjectSize(chase) \in {8, 16, 64}
    BY <1>1, <2>2, ParallelismType DEF Opt!ObjectSize
  <2>4. Opt!Indices \in Nat
    BY <2>2, <2>3 DEF Opt!Indices
  <2>5. CASE program = "multichase" \/ run_test_type = "RUN_CHASE"
    <3>1. nr_threads * Opt!Parallelism(chase) <= Opt!Indices
      <4>1. Opt!Indices >= nr_threads * Opt!Parallelism(chase)
        BY <2>2, <2>5 DEF Opt!Fits
      <4>2. nr_threads * Opt!Parallelism(chase) \in Nat
        BY <1>1, <2>3
      <4> QED
        BY <2>4, <4>1, <4>2
    <3>2. j * Opt!Parallelism(chase) <= nr_threads * Opt!Parallelism(chase)
      BY <1>1, <2>3, RowsOfFewer
    <3>3. j * Opt!Parallelism(chase) \in Nat /\ nr_threads * Opt!Parallelism(chase) \in Nat
      BY <1>1, <2>3
    <3> QED
      BY <2>1, <2>4, <3>1, <3>2, <3>3
  <2>6. CASE ~(program = "multichase" \/ run_test_type = "RUN_CHASE")
    <3>1. run_test_type = "RUN_CHASE_LOADED"
      BY <1>1, <2>6 DEF Opt!RunTypes, Opt!Role
    <3>2. chase = "chaseload" /\ j = 1
      <4>1. j <= nr_chase_threads
        BY <1>2
      <4>2. nr_chase_threads = 1
        BY <3>1, <1>3 DEF Opt!ChaseThreadsComeFirst
      <4> QED
        BY <1>1, <3>1, <4>1, <4>2
    <3>3. Opt!Parallelism("chaseload") = 1 /\ Opt!ObjectSize("chaseload") = 8
      <4>1. \A k \in 1..9 : Opt!Parallel[k] # "chaseload"
        BY DEF Opt!Parallel
      <4> QED
        BY <4>1 DEF Opt!Parallelism, Opt!ObjectSize
    <3>4. stride \div 8 >= 1
      BY <2>2
    <3> QED
      BY <2>1, <2>2, <3>2, <3>3, <3>4 DEF Opt!Indices
  <2> QED
    BY <2>5, <2>6
<1> QED
  BY <1>3, <1>4 DEF Opt!ThreadsAreReady

-----------------------------------------------------------------------------
(* Arenas: the weights *)

SumRec(w, n, s) == s = [k \in 0..n |-> IF k = 0 THEN 0 ELSE s[k - 1] + w[k]]

LEMMA SumsExist ==
  ASSUME NEW w \in Seq(Nat), NEW n \in 0..Len(w)
  PROVE  \E s : SumRec(w, n, s)
<1> DEFINE Bad == {m \in 0..Len(w) : ~\E s : SumRec(w, m, s)}
<1>1. SUFFICES ASSUME Bad # {} PROVE FALSE
  OBVIOUS
<1>2. Bad \subseteq Nat
  OBVIOUS
<1>3. \E m \in Bad : \A l \in Bad : ~(<<l, m>> \in OpToRel(<, Nat))
  <2> HIDE DEF Bad
  <2> QED
    BY <1>1, <1>2, NatLessThanWellFounded, WFMin
<1>4. PICK m \in Bad : \A l \in Bad : ~(l < m)
  BY <1>2, <1>3 DEF OpToRel
<1>5. CASE m = 0
  <2>1. SumRec(w, 0, [k \in 0..0 |-> 0])
    BY DEF SumRec
  <2> QED
    BY <1>4, <1>5, <2>1
<1>6. CASE m # 0
  <2>1. m - 1 \in 0..Len(w) /\ m - 1 \notin Bad
    BY <1>4, <1>6
  <2>2. PICK s : SumRec(w, m - 1, s)
    BY <2>1
  <2> DEFINE t == [k \in 0..m |-> IF k = m THEN s[m - 1] + w[m] ELSE s[k]]
  <2>3. SumRec(w, m, t)
    <3>1. \A k \in 0..(m - 1) : s[k] = IF k = 0 THEN 0 ELSE s[k - 1] + w[k]
      BY <2>2 DEF SumRec
    <3>2. \A k \in 0..m : t[k] = IF k = 0 THEN 0 ELSE t[k - 1] + w[k]
      <4>1. SUFFICES ASSUME NEW k \in 0..m PROVE t[k] = IF k = 0 THEN 0 ELSE t[k - 1] + w[k]
        OBVIOUS
      <4>2. CASE k = m
        BY <1>6, <4>2
      <4>3. CASE k # m
        BY <1>6, <3>1, <4>3
      <4> QED
        BY <4>2, <4>3
    <3> HIDE DEF t
    <3>3. t = [k \in 0..m |-> t[k]]
      BY DEF t
    <3> QED
      BY <3>2, <3>3 DEF SumRec
  <2> QED
    BY <1>4, <2>3
<1> QED
  BY <1>5, <1>6

LEMMA SumToRec ==
  ASSUME NEW w \in Seq(Nat), NEW k \in 0..Len(w)
  PROVE  Buf!SumTo(w, k) = IF k = 0 THEN 0 ELSE Buf!SumTo(w, k - 1) + w[k]
<1>1. SumRec(w, Len(w), Buf!Sums(w))
  <2>1. \E s : SumRec(w, Len(w), s)
    BY SumsExist
  <2>2. Buf!Sums(w) = CHOOSE s : SumRec(w, Len(w), s)
    BY Zenon DEF Buf!Sums, SumRec
  <2> QED
    BY <2>1, <2>2
<1> QED
  BY <1>1 DEF Buf!SumTo, SumRec

LEMMA Least ==
  ASSUME NEW T \in SUBSET Nat, T # {}
  PROVE  \E m \in T : \A l \in T : m <= l
<1>1. \E m \in T : \A l \in T : ~(<<l, m>> \in OpToRel(<, Nat))
  BY NatLessThanWellFounded, WFMin
<1>2. PICK m \in T : \A l \in T : ~(l < m)
  BY <1>1 DEF OpToRel
<1>3. \A l \in T : m <= l
  BY <1>2
<1> QED
  BY <1>3

LEMMA SumType ==
  ASSUME NEW w \in Seq(Nat)
  PROVE  \A k \in 0..Len(w) : Buf!SumTo(w, k) \in Nat
<1> DEFINE Bad == {k \in 0..Len(w) : Buf!SumTo(w, k) \notin Nat}
<1>1. SUFFICES ASSUME Bad # {} PROVE FALSE
  OBVIOUS
<1>2. PICK m \in Bad : \A l \in Bad : m <= l
  <2>1. Bad \in SUBSET Nat
    OBVIOUS
  <2> HIDE DEF Bad
  <2> QED
    BY <1>1, <2>1, Least
<1>3. Buf!SumTo(w, m) = IF m = 0 THEN 0 ELSE Buf!SumTo(w, m - 1) + w[m]
  BY SumToRec
<1>4. m # 0 => m - 1 \in 0..Len(w) /\ m - 1 \notin Bad /\ w[m] \in Nat
  BY <1>2
<1> QED
  BY <1>3, <1>4

LEMMA SumGrows ==
  ASSUME NEW w \in Seq(Nat), NEW j \in 0..Len(w)
  PROVE  \A k \in 0..Len(w) : j <= k => Buf!SumTo(w, j) <= Buf!SumTo(w, k)
<1> DEFINE Bad == {k \in 0..Len(w) : j <= k /\ ~(Buf!SumTo(w, j) <= Buf!SumTo(w, k))}
<1>1. SUFFICES ASSUME Bad # {} PROVE FALSE
  OBVIOUS
<1>2. PICK m \in Bad : \A l \in Bad : m <= l
  <2>1. Bad \in SUBSET Nat
    OBVIOUS
  <2> HIDE DEF Bad
  <2> QED
    BY <1>1, <2>1, Least
<1>3. m # j
  BY SumType
<1>4. m - 1 \in 0..Len(w) /\ j <= m - 1 /\ m \in 1..Len(w)
  BY <1>3
<1>5. Buf!SumTo(w, j) <= Buf!SumTo(w, m - 1)
  BY <1>2, <1>4
<1>6. Buf!SumTo(w, m) = Buf!SumTo(w, m - 1) + w[m]
  BY <1>4, SumToRec
<1>7. w[m] \in Nat /\ Buf!SumTo(w, j) \in Nat /\ Buf!SumTo(w, m - 1) \in Nat /\ Buf!SumTo(w, m) \in Nat
  BY <1>4, SumType
<1> QED
  BY <1>5, <1>6, <1>7

\* A draw belongs to the node whose weight it falls into.
LEMMA NodeOfDraw ==
  ASSUME NEW w \in Seq(Nat), NEW r \in 0..(Buf!WeightSum(w) - 1)
  PROVE  /\ Buf!NodeOf(w, r) \in DOMAIN w
         /\ \A k \in DOMAIN w :
              Buf!NodeOf(w, r) = k <=> r \in Buf!SumTo(w, k - 1)..(Buf!SumTo(w, k) - 1)
<1> DEFINE hits == {k \in DOMAIN w : Buf!Cumulated(w, k) >= r}
<1>1. Len(w) \in Nat /\ Buf!WeightSum(w) \in Nat /\ r \in Nat /\ r <= Buf!WeightSum(w) - 1
  BY SumType DEF Buf!WeightSum
<1>2. Len(w) # 0
  <2>1. Buf!SumTo(w, 0) = 0
    BY SumToRec
  <2> QED
    BY <1>1, <2>1 DEF Buf!WeightSum
<1>3. Len(w) \in hits
  BY <1>1, <1>2, SumType DEF Buf!WeightSum, Buf!Cumulated
<1>4. hits \in SUBSET Nat
  OBVIOUS
<1>5. \E m \in hits : \A l \in hits : m <= l
  <2> HIDE DEF hits
  <2> QED
    BY <1>3, <1>4, Least
<1>6. Buf!NodeOf(w, r) \in hits /\ \A l \in hits : Buf!NodeOf(w, r) <= l
  BY <1>5 DEF Buf!NodeOf
<1>7. ASSUME NEW k \in DOMAIN w
      PROVE  Buf!NodeOf(w, r) = k <=> r \in Buf!SumTo(w, k - 1)..(Buf!SumTo(w, k) - 1)
  <2>1. /\ k \in 1..Len(w) /\ k - 1 \in 0..Len(w) /\ Buf!SumTo(w, k) \in Nat
        /\ Buf!SumTo(w, k - 1) \in Nat
    BY SumType
  <2>2. ASSUME Buf!NodeOf(w, r) = k
        PROVE  r \in Buf!SumTo(w, k - 1)..(Buf!SumTo(w, k) - 1)
    <3>1. r <= Buf!SumTo(w, k) - 1
      BY <1>1, <1>6, <2>1, <2>2 DEF Buf!Cumulated
    <3>2. CASE k = 1
      <4>1. Buf!SumTo(w, 0) = 0
        BY SumToRec
      <4> QED
        BY <1>1, <2>1, <3>1, <3>2, <4>1
    <3>3. CASE k # 1
      <4>1. k - 1 \in DOMAIN w /\ k - 1 \notin hits
        BY <1>6, <2>1, <2>2, <3>3
      <4>2. ~(Buf!SumTo(w, k - 1) - 1 >= r)
        BY <4>1 DEF Buf!Cumulated
      <4> QED
        BY <1>1, <2>1, <3>1, <4>2
    <3> QED
      BY <3>2, <3>3
  <2>3. ASSUME r \in Buf!SumTo(w, k - 1)..(Buf!SumTo(w, k) - 1)
        PROVE  Buf!NodeOf(w, r) = k
    <3>1. k \in hits
      BY <1>1, <2>1, <2>3 DEF Buf!Cumulated
    <3>2. ASSUME NEW l \in hits, l < k PROVE FALSE
      <4>1. l \in 0..Len(w) /\ l <= k - 1
        BY <2>1, <3>2
      <4>2. Buf!SumTo(w, l) <= Buf!SumTo(w, k - 1) /\ Buf!SumTo(w, l) \in Nat
        BY <2>1, <4>1, SumGrows, SumType
      <4>3. Buf!SumTo(w, l) - 1 >= r
        BY DEF Buf!Cumulated
      <4> QED
        BY <1>1, <2>1, <2>3, <4>2, <4>3
    <3>3. Buf!NodeOf(w, r) \in hits /\ Buf!NodeOf(w, r) <= k
      BY <1>6, <3>1
    <3>4. Buf!NodeOf(w, r) \in Nat /\ k \in Nat /\ ~(Buf!NodeOf(w, r) < k)
      BY <1>4, <2>1, <3>2, <3>3
    <3> QED
      BY <3>3, <3>4
  <2> QED
    BY <2>2, <2>3
<1> QED
  BY <1>6, <1>7

\* So a node has as many draws as its weight says.
LEMMA DrawsOfNode ==
  ASSUME NEW w \in Seq(Nat), NEW k \in DOMAIN w
  PROVE  Cardinality({r \in 0..(Buf!WeightSum(w) - 1) : Buf!NodeOf(w, r) = k}) = w[k]
<1>1. /\ k \in 1..Len(w) /\ k - 1 \in 0..Len(w) /\ Buf!SumTo(w, k) \in Nat /\ w[k] \in Nat
      /\ Buf!SumTo(w, k - 1) \in Nat /\ Buf!WeightSum(w) \in Nat
  BY SumType DEF Buf!WeightSum
<1>2. Buf!SumTo(w, k) = Buf!SumTo(w, k - 1) + w[k]
  BY <1>1, SumToRec
<1>3. Buf!SumTo(w, k) <= Buf!WeightSum(w)
  BY <1>1, SumGrows DEF Buf!WeightSum
<1>4. Buf!SumTo(w, k - 1)..(Buf!SumTo(w, k) - 1) \subseteq 0..(Buf!WeightSum(w) - 1)
  BY <1>1, <1>3
<1>5. {r \in 0..(Buf!WeightSum(w) - 1) : Buf!NodeOf(w, r) = k} = Buf!SumTo(w, k - 1)..(Buf!SumTo(w, k) - 1)
  BY <1>4, NodeOfDraw
<1>6. Cardinality(Buf!SumTo(w, k - 1)..(Buf!SumTo(w, k) - 1)) = w[k]
  <2> DEFINE a == Buf!SumTo(w, k - 1)
             b == Buf!SumTo(w, k) - 1
  <2>1. a \in Int /\ b \in Int /\ (IF a > b THEN 0 ELSE b - a + 1) = w[k]
    BY <1>1, <1>2
  <2> HIDE DEF a, b
  <2>2. Cardinality(a..b) = IF a > b THEN 0 ELSE b - a + 1
    BY <2>1, FS_Interval
  <2> QED
    BY <2>1, <2>2 DEF a, b
<1> QED
  BY <1>5, <1>6

LEMMA NoWeight ==
  ASSUME NEW w \in Seq(Nat), Buf!WeightSum(w) = 0
  PROVE  \A k \in DOMAIN w : w[k] = 0
<1> TAKE k \in DOMAIN w
<1>1. /\ k \in 1..Len(w) /\ k - 1 \in 0..Len(w) /\ Buf!SumTo(w, k) \in Nat /\ w[k] \in Nat
      /\ Buf!SumTo(w, k - 1) \in Nat
  BY SumType
<1>2. Buf!SumTo(w, k) = Buf!SumTo(w, k - 1) + w[k]
  BY <1>1, SumToRec
<1>3. Buf!SumTo(w, k) <= 0
  BY <1>1, SumGrows DEF Buf!WeightSum
<1> QED
  BY <1>1, <1>2, <1>3

-----------------------------------------------------------------------------
(* Arenas: the buffers *)

\* The program divides by 48 bytes less than it has.
Wraps == Buf!Triad /\ req.size < Buf!Ops * Buf!Align

LEMMA PowersAreNumbers == \A p \in Buf!Powers : p \in Nat /\ p > 0
<1> DEFINE Positive(n) == n \in Nat /\ n > 0
<1>1. /\ Positive(2^0) /\ Positive(2^1) /\ Positive(2^2) /\ Positive(2^3)
      /\ Positive(2^4) /\ Positive(2^5) /\ Positive(2^6) /\ Positive(2^7)
      /\ Positive(2^8) /\ Positive(2^9) /\ Positive(2^10) /\ Positive(2^11)
      /\ Positive(2^12) /\ Positive(2^13) /\ Positive(2^14) /\ Positive(2^15)
      /\ Positive(2^16)
  OBVIOUS
<1> HIDE DEF Positive
<1>2. ASSUME NEW k \in 0..16 PROVE Positive(2^k)
  <2>1. k \in {0, 1, 2, 3, 4, 5, 6, 7, 8, 9, 10, 11, 12, 13, 14, 15, 16}
    OBVIOUS
  <2> QED
    BY <1>1, <2>1, Zenon
<1> QED
  BY <1>2 DEF Buf!Powers, Positive

\* What is assumed of the request.
LEMMA TheRequest ==
  ASSUME Buf!Assumptions, req \in Requests
  PROVE  /\ req.size \in Nat /\ req.size > 0 /\ req.offset \in Nat /\ req.page \in Nat
         /\ req.weights \in Seq(Nat) /\ 2^Width \in Nat
         /\ 4 * (req.size + req.offset + req.page + 32) <= 2^Width
         /\ (req.file => req.page \in Buf!Powers)
BY DEF Buf!Assumptions, Buf!ArenaAssumptions, Buf!IsRequest, Buf!Align

\* The rounded size.
LEMMA Rounded ==
  ASSUME NEW n \in Nat, NEW p \in Nat, p > 0
  PROVE  /\ Buf!RoundUp(n, p) \in Nat /\ n <= Buf!RoundUp(n, p) /\ Buf!RoundUp(n, p) < n + p
<1> DEFINE q == (n + p - 1) \div p
<1>1. n + p - 1 \in Nat
  OBVIOUS
<1>2. q \in Nat /\ q * p <= n + p - 1 /\ n + p - 1 < q * p + p
  BY <1>1
<1>3. q * p \in Nat
  BY <1>2
<1> HIDE DEF q
<1>4. n <= q * p /\ q * p < n + p
  BY <1>2, <1>3
<1> QED
  BY <1>3, <1>4 DEF Buf!RoundUp, q

LEMMA OpsType == /\ Buf!Ops \in {1, 2, 3} /\ (Buf!Triad => Buf!Ops = 3)
                 /\ (req.fn \in {"memset", "sum"} => Buf!Ops = 1)
                 /\ (req.fn \in {"memcpy", "copy"} => Buf!Ops = 2)
BY DEF Buf!Ops, Buf!Triad

LEMMA UsableOfTriad ==
  ASSUME Buf!Assumptions, req \in Requests, Buf!Triad
  PROVE  /\ Buf!Usable \in Nat
         /\ req.size >= 48 => Buf!Usable = req.size - 48
         /\ req.size < 48 => Buf!Usable = req.size + 2^Width - 48
<1> DEFINE V == 2^Width
<1>1. /\ req.size \in Nat /\ V \in Nat /\ req.size < V /\ V > 128
  BY TheRequest
<1>2. Buf!Usable = (req.size + V - 48) % V
  BY OpsType DEF Buf!Usable, Buf!Align
<1> HIDE DEF V
<1>3. CASE req.size >= 48
  <2>1. req.size - 48 \in Nat /\ req.size - 48 < V /\ req.size + V - 48 = (req.size - 48) + V
    BY <1>1, <1>3
  <2>2. \A a \in Nat : a < V => (a + V) % V = a
    BY <1>1
  <2> QED
    BY <1>2, <1>3, <2>1, <2>2, <1>1
<1>4. CASE req.size < 48
  <2>1. req.size + V - 48 \in Nat /\ req.size + V - 48 < V
    BY <1>1, <1>4
  <2>2. \A a \in Nat : a < V => a % V = a
    BY <1>1
  <2> QED
    BY <1>2, <1>4, <2>1, <2>2, <1>1 DEF V
<1> QED
  BY <1>1, <1>3, <1>4

LEMMA AlignedDown ==
  ASSUME NEW n \in Nat
  PROVE  /\ Buf!Aligned(n) \in Nat /\ Buf!Aligned(n) <= n /\ n < Buf!Aligned(n) + 16
         /\ Buf!Aligned(n) % 16 = 0
BY DEF Buf!Aligned, Buf!Align

LEMMA FirstOfTriad ==
  ASSUME Buf!Assumptions, req \in Requests, Buf!Triad
  PROVE  /\ Buf!FirstBuffer \in Nat /\ req.offset <= Buf!FirstBuffer
         /\ Buf!FirstBuffer <= req.offset + 16
<1>1. req.offset + Buf!Align \in Nat /\ req.offset \in Nat /\ Buf!Align = 16
  BY TheRequest DEF Buf!Align
<1>2. Buf!FirstBuffer = req.offset + 16 \/ Buf!FirstBuffer = req.offset
  BY <1>1 DEF Buf!FirstBuffer
<1> QED
  BY <1>1, <1>2

\* The buffers lie in what was asked for.
LEMMA BuffersFit ==
  ASSUME Buf!Assumptions, req \in Requests, req.fn \in Buf!Kernels, ~Wraps
  PROVE  /\ Buf!Length \in Nat /\ Buf!FirstBuffer \in Nat /\ req.offset <= Buf!FirstBuffer
         /\ Buf!FirstBuffer + Buf!Ops * Buf!Length <= req.offset + req.size
         /\ Buf!Triad => Buf!Stored(Buf!Length) = Buf!Length
         /\ Buf!Length <= req.size
<1>1. req.size \in Nat /\ req.offset \in Nat
  BY TheRequest
<1>2. CASE Buf!Triad
  <2>1. req.size >= 48 /\ Buf!Ops = 3
    BY <1>1, <1>2, OpsType DEF Wraps, Buf!Align
  <2>2. Buf!Usable = req.size - 48 /\ Buf!Usable \in Nat
    BY <1>2, <2>1, UsableOfTriad
  <2>3. Buf!Length = Buf!Aligned(Buf!Usable \div 3)
    BY <1>2, <2>1 DEF Buf!Length
  <2>4. Buf!Usable \div 3 \in Nat /\ 3 * (Buf!Usable \div 3) <= Buf!Usable
    BY <2>2
  <2>5. Buf!Length \in Nat /\ Buf!Length <= Buf!Usable \div 3 /\ Buf!Length % 16 = 0
    BY <2>3, <2>4, AlignedDown
  <2>6. Buf!FirstBuffer + 3 * Buf!Length <= req.offset + req.size /\ Buf!Length <= req.size
    BY <1>1, <1>2, <2>1, <2>2, <2>4, <2>5, FirstOfTriad
  <2>7. \A n \in Nat : n % 16 = 0 => ((n + 15) \div 16) * 2 * 8 = n
    OBVIOUS
  <2>8. Buf!Stored(Buf!Length) = Buf!Length
    BY <2>5, <2>7 DEF Buf!Stored, Buf!Word
  <2> QED
    BY <1>2, <2>1, <2>5, <2>6, <2>8, FirstOfTriad
<1>3. CASE req.fn \in {"memset", "sum"}
  <2>1. /\ ~Buf!Triad /\ Buf!Ops = 1 /\ Buf!FirstBuffer = req.offset
        /\ req.size \div 1 = req.size
    BY <1>1, <1>3, OpsType DEF Buf!FirstBuffer, Buf!Triad
  <2>2. Buf!Length = req.size \/ Buf!Length = (req.size \div 8) * 8
    BY <1>3, <2>1 DEF Buf!Length, Buf!Word
  <2>3. Buf!Length \in Nat /\ Buf!Length <= req.size
    BY <1>1, <2>2
  <2> QED
    BY <1>1, <2>1, <2>3
<1>4. CASE req.fn \in {"memcpy", "copy"}
  <2>1. /\ ~Buf!Triad /\ Buf!Ops = 2 /\ Buf!FirstBuffer = req.offset
        /\ req.size \div 2 \in Nat /\ 2 * (req.size \div 2) <= req.size
    BY <1>1, <1>4, OpsType DEF Buf!FirstBuffer, Buf!Triad
  <2>2. Buf!Length = req.size \div 2 \/ Buf!Length = ((req.size \div 2) \div 8) * 8
    BY <1>4, <2>1 DEF Buf!Length, Buf!Word
  <2>3. Buf!Length \in Nat /\ Buf!Length <= req.size \div 2
    BY <2>1, <2>2
  <2> QED
    BY <1>1, <2>1, <2>3
<1> QED
  BY <1>2, <1>3, <1>4 DEF Buf!Kernels, Buf!Triad

\* A triad of fewer than 48 bytes does not fit into its mapping.
LEMMA WrappedOutgrow ==
  ASSUME Buf!Assumptions, req \in Requests, Wraps, req.page > 0
  PROVE  Buf!Length \in Nat /\ Buf!Length > Buf!RoundUp(req.size + req.offset, req.page)
<1> DEFINE V == 2^Width
<1>1. /\ req.size \in Nat /\ req.size > 0 /\ req.offset \in Nat /\ req.page \in Nat /\ V \in Nat
      /\ 4 * (req.size + req.offset + req.page + 32) <= V
  BY TheRequest
<1>2. Buf!Triad /\ Buf!Ops = 3 /\ req.size < 48
  BY OpsType DEF Wraps, Buf!Align
<1>3. Buf!Usable \in Nat /\ Buf!Usable = req.size + V - 48
  BY <1>2, UsableOfTriad
<1> HIDE DEF V
<1>4. Buf!Length = Buf!Aligned(Buf!Usable \div 3)
  BY <1>2 DEF Buf!Length
<1>5. Buf!Usable \div 3 \in Nat /\ Buf!Usable <= 3 * (Buf!Usable \div 3) + 2
  BY <1>3
<1>6. Buf!Length \in Nat /\ Buf!Usable \div 3 < Buf!Length + 16
  BY <1>4, <1>5, AlignedDown
<1>7. req.size + req.offset \in Nat
  BY <1>1
<1>8. /\ Buf!RoundUp(req.size + req.offset, req.page) < req.size + req.offset + req.page
      /\ Buf!RoundUp(req.size + req.offset, req.page) \in Nat
  BY <1>1, <1>7, Rounded
<1>9. Buf!Length > req.size + req.offset + req.page
  BY <1>1, <1>3, <1>5, <1>6
<1> QED
  BY <1>1, <1>6, <1>8, <1>9

-----------------------------------------------------------------------------
(* Arenas: allocation *)

ArenaLocations == {"flags", "map", "read", "enable", "defrag", "advise", "bind", "returned"}

\* What a thread has where it is in alloc_arena_mmap: a page size that was checked, the
\* rounded size, and nodes for the pages before the next.
SizeInv ==
  /\ req \in Requests /\ enabled \in Buf!EnabledStates /\ defrag \in Buf!DefragStates
  /\ apc \in [Buf!Threads -> ArenaLocations] /\ ended \in {"no", "exit", "crashed"}
  /\ arena_size \in [Buf!Threads -> Nat] /\ nodes \in [Buf!Threads -> Seq(Nat)]
  /\ \A t \in Buf!Threads :
       /\ apc[t] # "flags" => req.page \in Buf!Powers
       /\ apc[t] \notin {"flags", "map"} =>
            arena_size[t] = Buf!RoundUp(req.size + req.offset, req.page)
       /\ apc[t] = "bind" => req.weights # <<>>
       /\ apc[t] = "returned" /\ req.weights # <<>> =>
            Len(nodes[t]) * req.page >= arena_size[t]
       /\ \A k \in DOMAIN nodes[t] : nodes[t][k] \in DOMAIN req.weights

LEMMA InitSizeInv == Buf!Init => SizeInv
<1> SUFFICES ASSUME Buf!Init PROVE SizeInv
  OBVIOUS
<1>1. /\ req \in Requests /\ enabled \in Buf!EnabledStates /\ defrag \in Buf!DefragStates
      /\ apc = [t \in Buf!Threads |-> "flags"] /\ ended = "no"
      /\ arena_size = [t \in Buf!Threads |-> 0] /\ nodes = [t \in Buf!Threads |-> <<>>]
  BY DEF Buf!Init, Buf!ArenaInit
<1>2. nodes \in [Buf!Threads -> Seq(Nat)] /\ arena_size \in [Buf!Threads -> Nat]
  BY <1>1
<1>3. \A t \in Buf!Threads : apc[t] = "flags" /\ DOMAIN nodes[t] = {}
  BY <1>1
<1> QED
  BY <1>1, <1>2, <1>3 DEF SizeInv, ArenaLocations

\* A step of thread t that leaves the others alone.
LEMMA OthersSize ==
  ASSUME SizeInv, NEW t \in Buf!Threads, NEW loc \in ArenaLocations, req' = req,
         apc' = [apc EXCEPT ![t] = loc] \/ apc' = apc,
         enabled' \in Buf!EnabledStates, defrag' \in Buf!DefragStates,
         ended' \in {"no", "exit", "crashed"},
         arena_size' = arena_size, nodes' = nodes,
         apc'[t] # "flags" => req.page \in Buf!Powers,
         apc'[t] \notin {"flags", "map"} =>
            arena_size[t] = Buf!RoundUp(req.size + req.offset, req.page),
         apc'[t] = "bind" => req.weights # <<>>,
         apc'[t] = "returned" /\ req.weights # <<>> =>
            Len(nodes[t]) * req.page >= arena_size[t]
  PROVE  SizeInv'
<1>1. apc' \in [Buf!Threads -> ArenaLocations] /\ \A w \in Buf!Threads \ {t} : apc'[w] = apc[w]
  BY DEF SizeInv
<1> QED
  BY <1>1 DEF SizeInv

LEMMA SizeStep ==
  ASSUME Buf!Assumptions, SizeInv, NEW t \in Buf!Threads, Buf!AllocStep(t)
  PROVE  SizeInv'
<1> USE DEF Buf!To, Buf!Stop, ArenaLocations
<1>1. /\ apc[t] \in ArenaLocations /\ req \in Requests /\ ended = "no"
      /\ apc \in [Buf!Threads -> ArenaLocations] /\ arena_size \in [Buf!Threads -> Nat]
      /\ nodes \in [Buf!Threads -> Seq(Nat)] /\ req.weights \in Seq(Nat)
      /\ req.size + req.offset \in Nat
      /\ enabled \in Buf!EnabledStates /\ defrag \in Buf!DefragStates
      /\ apc[t] # "flags" => req.page \in Buf!Powers
      /\ apc[t] \notin {"flags", "map"} =>
            arena_size[t] = Buf!RoundUp(req.size + req.offset, req.page)
  BY TheRequest DEF SizeInv, Buf!AllocStep
<1>2. CASE Buf!Flags(t)
  <2>1. req.file => req.page \in Buf!Powers
    BY <1>1, TheRequest
  <2>2. \/ apc' = apc /\ ended' = "exit"
        \/ apc' = [apc EXCEPT ![t] = "map"] /\ req.page \in Buf!Powers /\ UNCHANGED ended
    BY <1>2, <2>1 DEF Buf!Flags
  <2>3. apc[t] = "flags" /\ UNCHANGED <<req, enabled, defrag, arena_size, nodes>>
    BY <1>2 DEF Buf!Flags
  <2> QED
    BY <1>1, <2>2, <2>3, OthersSize
<1>3. CASE Buf!Map(t)
  <2>1. /\ apc[t] = "map" /\ UNCHANGED <<req, enabled, defrag, nodes>>
        /\ \/ /\ arena_size' = [arena_size EXCEPT ![t] = Buf!RoundUp(req.size + req.offset, req.page)]
              /\ \E loc \in {"read", "advise"} : apc' = [apc EXCEPT ![t] = loc]
              /\ UNCHANGED ended
           \/ ended' = "exit" /\ UNCHANGED <<apc, arena_size>>
    BY <1>3 DEF Buf!Map
  <2>2. Buf!RoundUp(req.size + req.offset, req.page) \in Nat
    BY <1>1, <2>1, Rounded, PowersAreNumbers
  <2> QED
    BY <1>1, <2>1, <2>2 DEF SizeInv
<1>4. CASE Buf!ReadState(t)
  BY <1>1, <1>4, OthersSize DEF Buf!ReadState
<1>5. CASE Buf!Enable(t)
  <2>1. enabled' \in Buf!EnabledStates
    BY <1>1, <1>5 DEF Buf!Enable, Buf!EnabledStates
  <2> QED
    BY <1>1, <1>5, <2>1, OthersSize DEF Buf!Enable
<1>6. CASE Buf!Defrag(t)
  <2>1. defrag' \in Buf!DefragStates
    BY <1>1, <1>6 DEF Buf!Defrag, Buf!DefragStates
  <2> QED
    BY <1>1, <1>6, <2>1, OthersSize DEF Buf!Defrag
<1>7. CASE Buf!Advise(t)
  <2>1. /\ apc[t] = "advise" /\ UNCHANGED <<req, enabled, defrag, arena_size, nodes>>
        /\ \/ ended' = "exit" /\ UNCHANGED apc
           \/ /\ apc' = [apc EXCEPT ![t] = IF req.weights = <<>> THEN "returned" ELSE "bind"]
              /\ UNCHANGED ended
    BY <1>7 DEF Buf!Advise
  <2> QED
    BY <1>1, <2>1, OthersSize
<1>8. CASE Buf!Bind(t)
  <2>1. apc[t] = "bind" /\ UNCHANGED <<req, enabled, defrag, arena_size>>
    BY <1>8 DEF Buf!Bind
  <2>2. req.weights # <<>>
    BY <2>1 DEF SizeInv
  <2>3. CASE Len(nodes[t]) * req.page >= arena_size[t]
    <3>1. apc' = [apc EXCEPT ![t] = "returned"] /\ UNCHANGED <<nodes, ended>>
      BY <1>8, <2>3 DEF Buf!Bind
    <3> QED
      BY <1>1, <2>1, <2>3, <3>1, OthersSize
  <2>4. CASE ~(Len(nodes[t]) * req.page >= arena_size[t])
    <3>1. \/ ended' \in {"exit", "crashed"} /\ UNCHANGED <<apc, nodes>>
          \/ \E r \in 0..(Buf!WeightSum(req.weights) - 1) :
               /\ nodes' = [nodes EXCEPT ![t] = Append(nodes[t], Buf!NodeOf(req.weights, r))]
               /\ UNCHANGED <<apc, ended>>
      BY <1>8, <2>4 DEF Buf!Bind
    <3>2. CASE ended' \in {"exit", "crashed"} /\ UNCHANGED <<apc, nodes>>
      BY <1>1, <2>1, <2>2, <3>2, OthersSize
    <3>3. ASSUME NEW r \in 0..(Buf!WeightSum(req.weights) - 1),
                 nodes' = [nodes EXCEPT ![t] = Append(nodes[t], Buf!NodeOf(req.weights, r))],
                 UNCHANGED <<apc, ended>>
          PROVE  SizeInv'
      <4> DEFINE node == Buf!NodeOf(req.weights, r)
      <4>1. node \in DOMAIN req.weights
        BY <1>1, NodeOfDraw
      <4>2. node \in Nat
        BY <1>1, <4>1
      <4> HIDE DEF node
      <4>3. Append(nodes[t], node) \in Seq(Nat)
        BY <1>1, <4>2
      <4>4. \A k \in DOMAIN Append(nodes[t], node) :
              Append(nodes[t], node)[k] \in DOMAIN req.weights
        <5>1. nodes[t] \in Seq(Nat) /\ \A k \in DOMAIN nodes[t] : nodes[t][k] \in DOMAIN req.weights
          BY DEF SizeInv
        <5> QED
          BY <4>1, <4>2, <5>1
      <4>5. /\ nodes' \in [Buf!Threads -> Seq(Nat)]
            /\ nodes'[t] = Append(nodes[t], node)
            /\ \A u \in Buf!Threads \ {t} : nodes'[u] = nodes[u]
        BY <1>1, <3>3, <4>3 DEF node
      <4> QED
        BY <2>1, <3>3, <4>4, <4>5 DEF SizeInv
    <3> QED
      BY <3>1, <3>2, <3>3
  <2> QED
    BY <2>3, <2>4
<1> QED
  BY <1>2, <1>3, <1>4, <1>5, <1>6, <1>7, <1>8 DEF Buf!AllocStep

-----------------------------------------------------------------------------
(* Arenas: the passes *)

\* Buffers apart from each other, in what was asked for.
Placed(b) ==
  /\ \A k \in 1..Buf!Ops : /\ b[k] \in Nat /\ req.offset <= b[k]
                           /\ b[k] + Buf!Length <= req.offset + req.size
  /\ \A k, l \in 1..Buf!Ops : k # l => b[k] + Buf!Length <= b[l] \/ b[l] + Buf!Length <= b[k]

\* What a pass has touched is what it reports, in what was asked for.
SoundPass(touched) ==
  /\ touched.writes \cap touched.reads = {}
  /\ touched.writes \union touched.reads \subseteq req.offset..(req.offset + req.size - 1)
  /\ Cardinality(touched.writes \union touched.reads) = Buf!Bites

NoPass == [writes |-> {}, reads |-> {}]

LoadInv ==
  /\ DOMAIN bufs = Buf!Threads /\ done \in [Buf!Threads -> 0..MaxPasses] /\ DOMAIN last = Buf!Threads
  /\ \A t \in Buf!Threads :
       /\ bufs[t] # <<>> =>
            /\ req.fn \in Buf!Kernels /\ \A u \in Buf!Threads : apc[u] = "returned"
            /\ bufs[t] \in Seq(0..(2^Width - 1)) /\ Len(bufs[t]) = Buf!Ops
            /\ ~Wraps => Placed(bufs[t])
       /\ done[t] > 0 => SoundPass(last[t])
       /\ done[t] = 0 => last[t] = NoPass
  /\ ended = "crashed" =>
       \/ Wraps
       \/ req.weights # <<>> /\ Buf!WeightSum(req.weights) = 0
  /\ ended = "crashed" /\ (\E t \in Buf!Threads : apc[t] = "bind") => Buf!WeightSum(req.weights) = 0

LEMMA InitLoadInv == Buf!Assumptions /\ Buf!Init => LoadInv
<1> SUFFICES ASSUME Buf!Assumptions, Buf!Init PROVE LoadInv
  OBVIOUS
<1>1. /\ ended = "no" /\ bufs = [t \in Buf!Threads |-> <<>>] /\ done = [t \in Buf!Threads |-> 0]
      /\ last = [t \in Buf!Threads |-> NoPass]
  BY DEF Buf!Init, Buf!ArenaInit, NoPass
<1>2. MaxPasses \in Nat
  BY DEF Buf!Assumptions
<1> QED
  BY <1>1, <1>2 DEF LoadInv

\* What is said of the request alone stays.
LEMMA SameRequest ==
  ASSUME req' = req
  PROVE  /\ Buf!Ops' = Buf!Ops /\ Buf!Length' = Buf!Length /\ Buf!Triad' = Buf!Triad
         /\ Wraps' = Wraps /\ Buf!Bites' = Buf!Bites
         /\ \A b : Placed(b)' = Placed(b)
         /\ \A x : SoundPass(x)' = SoundPass(x)
<1>1. Buf!Ops' = Buf!Ops /\ Buf!Triad' = Buf!Triad
  BY DEF Buf!Ops, Buf!Triad
<1>2. Buf!Usable' = Buf!Usable
  BY <1>1 DEF Buf!Usable
<1>3. Buf!Length' = Buf!Length
  BY <1>1, <1>2 DEF Buf!Length
<1>4. Wraps' = Wraps /\ Buf!Bites' = Buf!Bites
  BY <1>1, <1>3 DEF Wraps, Buf!Bites
<1>5. \A b : Placed(b)' = Placed(b)
  BY <1>1, <1>3 DEF Placed
<1>6. \A x : SoundPass(x)' = SoundPass(x)
  BY <1>4 DEF SoundPass
<1> QED
  BY <1>1, <1>3, <1>4, <1>5, <1>6

\* While threads allocate no kernel has begun.
LEMMA AllocKeepsLoad ==
  ASSUME Buf!Assumptions, SizeInv, LoadInv, NEW t \in Buf!Threads, Buf!Alloc(t)
  PROVE  LoadInv'
<1>1. /\ UNCHANGED <<req, bufs, done, last>> /\ apc[t] # "returned" /\ ended = "no"
      /\ ended' = "crashed" => Buf!Bind(t) /\ apc[t] = "bind" /\ Buf!WeightSum(req.weights) = 0
  <2> USE DEF Buf!Alloc, Buf!AllocStep, Buf!Stop, Buf!To
  <2>1. UNCHANGED <<bufs, done, last>> /\ ended = "no"
    OBVIOUS
  <2>2. CASE Buf!Flags(t)
    BY <2>1, <2>2 DEF Buf!Flags
  <2>3. CASE Buf!Map(t)
    BY <2>1, <2>3 DEF Buf!Map
  <2>4. CASE Buf!ReadState(t)
    BY <2>1, <2>4 DEF Buf!ReadState
  <2>5. CASE Buf!Enable(t)
    BY <2>1, <2>5 DEF Buf!Enable
  <2>6. CASE Buf!Defrag(t)
    BY <2>1, <2>6 DEF Buf!Defrag
  <2>7. CASE Buf!Advise(t)
    BY <2>1, <2>7 DEF Buf!Advise
  <2>8. CASE Buf!Bind(t)
    BY <2>1, <2>8 DEF Buf!Bind
  <2> QED
    BY <2>2, <2>3, <2>4, <2>5, <2>6, <2>7, <2>8
<1>2. \A u \in Buf!Threads : bufs[u] = <<>>
  BY <1>1 DEF LoadInv
<1>3. ended' = "crashed" => req.weights # <<>> /\ Buf!WeightSum(req.weights) = 0
  BY <1>1 DEF SizeInv
<1>4. /\ Wraps' = Wraps /\ \A x : SoundPass(x)' = SoundPass(x)
  BY <1>1, SameRequest
<1> QED
  BY <1>1, <1>2, <1>3, <1>4 DEF LoadInv

LEMMA InitialBuffers ==
  ASSUME Buf!Assumptions, req \in Requests, req.fn \in Buf!Kernels,
         NEW b, b = [k \in 1..Buf!Ops |-> Buf!Wrap(Buf!FirstBuffer + (k - 1) * Buf!Length)]
  PROVE  b \in Seq(0..(2^Width - 1)) /\ Len(b) = Buf!Ops /\ (~Wraps => Placed(b))
<1> DEFINE V == 2^Width
<1>1. /\ V \in Nat /\ V > 128 /\ req.size \in Nat /\ req.offset \in Nat /\ req.page \in Nat
      /\ 4 * (req.size + req.offset + req.page + 32) <= V
      /\ Buf!Ops \in {1, 2, 3}
  BY TheRequest, OpsType
<1>2. Buf!Length \in Nat /\ Buf!FirstBuffer \in Nat
  <2>1. CASE ~Wraps
    BY <2>1, BuffersFit
  <2>2. CASE Wraps
    <3>1. Buf!Triad /\ Buf!Ops = 3
      BY <2>2, OpsType DEF Wraps
    <3>2. Buf!Usable \div 3 \in Nat
      BY <3>1, UsableOfTriad
    <3>3. Buf!Length \in Nat
      BY <3>1, <3>2, AlignedDown DEF Buf!Length
    <3> QED
      BY <3>1, <3>3, FirstOfTriad
  <2> QED
    BY <2>1, <2>2
<1>3. \A k \in 1..Buf!Ops : Buf!FirstBuffer + (k - 1) * Buf!Length \in Nat
  <2>1. \A m, n \in Nat : \A k \in 1..3 : m + (k - 1) * n \in Nat
    <3>1. \A m, n \in Nat : m + (1 - 1) * n \in Nat /\ m + (2 - 1) * n \in Nat /\ m + (3 - 1) * n \in Nat
      OBVIOUS
    <3>2. \A k \in 1..3 : k = 1 \/ k = 2 \/ k = 3
      OBVIOUS
    <3> QED
      BY <3>1, <3>2
  <2>2. 1..Buf!Ops \subseteq 1..3
    BY <1>1
  <2> QED
    BY <1>2, <2>1, <2>2
<1> HIDE DEF V
<1>4. \A a \in Nat : Buf!Wrap(a) \in 0..(V - 1) /\ (a < V => Buf!Wrap(a) = a)
  <2>1. \A a, v \in Nat : v > 0 => a % v \in 0..(v - 1)
    OBVIOUS
  <2>2. \A a, v \in Nat : a < v => a % v = a
    OBVIOUS
  <2>3. \A a : Buf!Wrap(a) = a % V
    BY DEF Buf!Wrap, V
  <2>4. V \in Nat /\ V > 0
    BY <1>1
  <2> QED
    BY <2>1, <2>2, <2>3, <2>4
<1>5. b \in Seq(0..(V - 1)) /\ Len(b) = Buf!Ops
  <2>1. \A k \in 1..Buf!Ops : Buf!Wrap(Buf!FirstBuffer + (k - 1) * Buf!Length) \in 0..(V - 1)
    BY <1>3, <1>4
  <2>2. Buf!Ops \in Nat
    BY <1>1
  <2> QED
    BY <2>1, <2>2
<1>6. ASSUME ~Wraps PROVE Placed(b)
  <2>1. /\ req.offset <= Buf!FirstBuffer /\ Buf!FirstBuffer + Buf!Ops * Buf!Length <= req.offset + req.size
        /\ req.offset + req.size < V
    <3>1. req.offset <= Buf!FirstBuffer /\ Buf!FirstBuffer + Buf!Ops * Buf!Length <= req.offset + req.size
      BY <1>6, BuffersFit
    <3>2. req.offset + req.size < V
      BY <1>1
    <3> QED
      BY <3>1, <3>2
  <2>2. CASE Buf!Ops = 1
    <3>1. Buf!FirstBuffer + (1 - 1) * Buf!Length = Buf!FirstBuffer /\ Buf!Ops * Buf!Length = Buf!Length
      BY <1>2, <2>2
    <3>2. b[1] = Buf!FirstBuffer
      BY <1>1, <1>2, <1>4, <2>1, <2>2, <3>1
    <3> QED
      BY <1>1, <1>2, <2>1, <2>2, <3>1, <3>2 DEF Placed
  <2>3. CASE Buf!Ops = 2
    <3>1. /\ Buf!FirstBuffer + (1 - 1) * Buf!Length = Buf!FirstBuffer
          /\ Buf!FirstBuffer + (2 - 1) * Buf!Length = Buf!FirstBuffer + Buf!Length
          /\ Buf!FirstBuffer + 2 * Buf!Length <= req.offset + req.size
      BY <1>2, <2>1, <2>3
    <3>2. b[1] = Buf!FirstBuffer /\ b[2] = Buf!FirstBuffer + Buf!Length
      BY <1>1, <1>2, <1>4, <2>1, <2>3, <3>1
    <3> QED
      BY <1>1, <1>2, <2>1, <2>3, <3>1, <3>2 DEF Placed
  <2>4. CASE Buf!Ops = 3
    <3>1. /\ Buf!FirstBuffer + (1 - 1) * Buf!Length = Buf!FirstBuffer
          /\ Buf!FirstBuffer + (2 - 1) * Buf!Length = Buf!FirstBuffer + Buf!Length
          /\ Buf!FirstBuffer + (3 - 1) * Buf!Length = Buf!FirstBuffer + 2 * Buf!Length
          /\ Buf!FirstBuffer + 3 * Buf!Length <= req.offset + req.size
      BY <1>2, <2>1, <2>4
    <3>2. /\ b[1] = Buf!FirstBuffer /\ b[2] = Buf!FirstBuffer + Buf!Length
          /\ b[3] = Buf!FirstBuffer + 2 * Buf!Length
      BY <1>1, <1>2, <1>4, <2>1, <2>4, <3>1
    <3> QED
      BY <1>1, <1>2, <2>1, <2>4, <3>1, <3>2 DEF Placed
  <2> QED
    BY <1>1, <2>2, <2>3, <2>4
<1> QED
  BY <1>5, <1>6 DEF V

LEMMA RotatedBuffers ==
  ASSUME NEW S, NEW b \in Seq(S), Len(b) = Buf!Ops
  PROVE  /\ Buf!Rotated(b) \in Seq(S) /\ Len(Buf!Rotated(b)) = Buf!Ops
         /\ Placed(b) => Placed(Buf!Rotated(b))
<1>1. Buf!Ops \in {1, 2, 3}
  BY OpsType
<1>2. Buf!Rotated(b) = [k \in 1..Buf!Ops |-> IF k < Buf!Ops THEN b[k + 1] ELSE b[1]]
  BY DEF Buf!Rotated
<1>3. CASE Buf!Ops = 1
  <2>1. Buf!Rotated(b) = [k \in 1..1 |-> b[1]]
    BY <1>2, <1>3
  <2> QED
    BY <1>3, <2>1 DEF Placed
<1>4. CASE Buf!Ops = 2
  <2>1. Buf!Rotated(b) = [k \in 1..2 |-> IF k < 2 THEN b[k + 1] ELSE b[1]]
    BY <1>2, <1>4
  <2>2. b[1] \in S /\ b[2] \in S
    BY <1>4
  <2>3. /\ Buf!Rotated(b) \in Seq(S) /\ Len(Buf!Rotated(b)) = 2
        /\ Buf!Rotated(b)[1] = b[2] /\ Buf!Rotated(b)[2] = b[1]
    BY <2>1, <2>2
  <2> QED
    BY <1>4, <2>3 DEF Placed
<1>5. CASE Buf!Ops = 3
  <2>1. Buf!Rotated(b) = [k \in 1..3 |-> IF k < 3 THEN b[k + 1] ELSE b[1]]
    BY <1>2, <1>5
  <2>2. b[1] \in S /\ b[2] \in S /\ b[3] \in S
    BY <1>5
  <2>3. /\ Buf!Rotated(b) \in Seq(S) /\ Len(Buf!Rotated(b)) = 3
        /\ Buf!Rotated(b)[1] = b[2] /\ Buf!Rotated(b)[2] = b[3] /\ Buf!Rotated(b)[3] = b[1]
    BY <2>1, <2>2
  <2> QED
    BY <1>5, <2>3 DEF Placed
<1> QED
  BY <1>1, <1>3, <1>4, <1>5

\* As many bytes as the buffers are long.
LEMMA BytesOf ==
  ASSUME NEW a \in Nat, NEW n \in Nat
  PROVE  IsFiniteSet(Buf!Bytes(a, n)) /\ Cardinality(Buf!Bytes(a, n)) = n
<1>1. a \in Int /\ a + n - 1 \in Int /\ (IF a > a + n - 1 THEN 0 ELSE a + n - 1 - a + 1) = n
  OBVIOUS
<1> QED
  BY <1>1, FS_Interval DEF Buf!Bytes

LEMMA BytesApart ==
  ASSUME NEW X, NEW Y, IsFiniteSet(X), IsFiniteSet(Y), X \cap Y = {}
  PROVE  IsFiniteSet(X \union Y) /\ Cardinality(X \union Y) = Cardinality(X) + Cardinality(Y)
<1>1. Cardinality(X \cap Y) = 0
  BY FS_EmptySet
<1>2. Cardinality(X) \in Nat /\ Cardinality(Y) \in Nat
  BY FS_CardinalityType
<1>3. /\ IsFiniteSet(X \union Y)
      /\ Cardinality(X \union Y) = Cardinality(X) + Cardinality(Y) - Cardinality(X \cap Y)
  BY FS_Union
<1> QED
  BY <1>1, <1>2, <1>3

LEMMA PassIsSound ==
  ASSUME Buf!Assumptions, req \in Requests, req.fn \in Buf!Kernels, ~Wraps, NEW b, Placed(b)
  PROVE  SoundPass(Buf!Touches(b))
<1> DEFINE touched == Buf!Touches(b)
           First == Buf!Bytes(b[1], Buf!Length)
           Second == Buf!Bytes(b[2], Buf!Length)
           Third == Buf!Bytes(b[3], Buf!Length)
           Wanted == req.offset..(req.offset + req.size - 1)
<1>1. /\ Buf!Length \in Nat /\ (Buf!Triad => Buf!Stored(Buf!Length) = Buf!Length)
      /\ req.size \in Nat /\ req.offset \in Nat
  BY BuffersFit, TheRequest
<1>2. \A k \in 1..Buf!Ops : b[k] \in Nat /\ Buf!Bytes(b[k], Buf!Length) \subseteq Wanted
  BY <1>1 DEF Buf!Bytes, Placed
<1>3. \A k, l \in 1..Buf!Ops : k # l => Buf!Bytes(b[k], Buf!Length) \cap Buf!Bytes(b[l], Buf!Length) = {}
  BY <1>1 DEF Buf!Bytes, Placed
<1>4. \A k \in 1..Buf!Ops : /\ IsFiniteSet(Buf!Bytes(b[k], Buf!Length))
                            /\ Cardinality(Buf!Bytes(b[k], Buf!Length)) = Buf!Length
  BY <1>1, <1>2, BytesOf
<1>5. CASE req.fn \in {"memset", "sum"}
  <2>1. Buf!Ops = 1 /\ 1 \in 1..Buf!Ops
    BY <1>5, OpsType
  <2>2. touched.writes \union touched.reads = First /\ touched.writes \cap touched.reads = {}
    BY <1>5 DEF Buf!Touches
  <2>3. Cardinality(First) = Buf!Bites
    BY <1>1, <1>4, <2>1 DEF Buf!Bites
  <2> QED
    BY <1>2, <2>1, <2>2, <2>3 DEF SoundPass
<1>6. CASE req.fn \in {"memcpy", "copy"}
  <2>1. Buf!Ops = 2 /\ 1 \in 1..Buf!Ops /\ 2 \in 1..Buf!Ops
    BY <1>6, OpsType
  <2>2. First \cap Second = {} /\ IsFiniteSet(First) /\ IsFiniteSet(Second)
    BY <1>3, <1>4, <2>1
  <2>3. touched.writes \union touched.reads = First \union Second /\ touched.writes \cap touched.reads = {}
    BY <1>6, <2>2 DEF Buf!Touches
  <2>4. Cardinality(First \union Second) = Buf!Bites
    <3>1. Cardinality(First \union Second) = Buf!Length + Buf!Length
      BY <1>4, <2>1, <2>2, BytesApart
    <3> QED
      BY <1>1, <2>1, <3>1 DEF Buf!Bites
  <2>5. First \union Second \subseteq Wanted
    BY <1>2, <2>1
  <2> QED
    BY <2>3, <2>4, <2>5 DEF SoundPass
<1>7. CASE Buf!Triad
  <2>1. Buf!Ops = 3 /\ 1 \in 1..Buf!Ops /\ 2 \in 1..Buf!Ops /\ 3 \in 1..Buf!Ops
    BY <1>7, OpsType
  <2>2. /\ First \cap Second = {} /\ First \cap Third = {} /\ Second \cap Third = {}
        /\ IsFiniteSet(First) /\ IsFiniteSet(Second) /\ IsFiniteSet(Third)
    BY <1>3, <1>4, <2>1
  <2>3. touched = [writes |-> First, reads |-> Second \union Third]
    BY <1>1, <1>7 DEF Buf!Touches, Buf!Triad
  <2>4. Cardinality(First \union (Second \union Third)) = Buf!Bites
    <3>1. /\ IsFiniteSet(Second \union Third)
          /\ Cardinality(Second \union Third) = Buf!Length + Buf!Length
      BY <1>4, <2>1, <2>2, BytesApart
    <3>2. First \cap (Second \union Third) = {}
      BY <2>2
    <3>3. Cardinality(First \union (Second \union Third)) = Buf!Length + (Buf!Length + Buf!Length)
      <4> HIDE DEF First, Second, Third
      <4>1. Cardinality(First) = Buf!Length
        BY <1>4, <2>1 DEF First
      <4> QED
        BY <2>2, <3>1, <3>2, <4>1, BytesApart
    <3> QED
      BY <1>1, <2>1, <3>3 DEF Buf!Bites
  <2>5. First \union (Second \union Third) \subseteq Wanted
    BY <1>2, <2>1
  <2>6. touched.writes \cap touched.reads = {}
    BY <2>2, <2>3
  <2> HIDE DEF First, Second, Third
  <2> QED
    BY <2>3, <2>4, <2>5, <2>6 DEF SoundPass
<1> QED
  BY <1>5, <1>6, <1>7 DEF Buf!Kernels, Buf!Triad

\* A step of the load leaves the allocation alone.
LEMMA LoadKeepsSize ==
  ASSUME SizeInv, NEW t \in Buf!Threads, Buf!LoadStep(t)
  PROVE  SizeInv'
<1>1. /\ UNCHANGED <<req, apc, enabled, defrag, arena_size, nodes>>
      /\ ended' \in {"no", "exit", "crashed"}
  BY DEF Buf!LoadStep, Buf!Start, Buf!Pass, Buf!arenaVars, SizeInv
<1> QED
  BY <1>1 DEF SizeInv

LEMMA StartStep ==
  ASSUME Buf!Assumptions, SizeInv, LoadInv, NEW t \in Buf!Threads, Buf!Start(t)
  PROVE  LoadInv'
<1> DEFINE b == [k \in 1..Buf!Ops |-> Buf!Wrap(Buf!FirstBuffer + (k - 1) * Buf!Length)]
<1>1. /\ req.fn \in Buf!Kernels /\ \A u \in Buf!Threads : apc[u] = "returned"
      /\ bufs' = [bufs EXCEPT ![t] = b]
      /\ UNCHANGED <<req, apc, done, last, ended>>
      /\ req \in Requests
  BY DEF Buf!Start, Buf!arenaVars, SizeInv
<1>2. b \in Seq(0..(2^Width - 1)) /\ Len(b) = Buf!Ops /\ (~Wraps => Placed(b))
  BY <1>1, InitialBuffers
<1>3. /\ Wraps' = Wraps /\ Buf!Ops' = Buf!Ops /\ \A x : Placed(x)' = Placed(x)
      /\ \A x : SoundPass(x)' = SoundPass(x)
  BY <1>1, SameRequest
<1> HIDE DEF b
<1>4. /\ DOMAIN bufs' = Buf!Threads /\ bufs'[t] = b
      /\ \A u \in Buf!Threads \ {t} : bufs'[u] = bufs[u]
  BY <1>1 DEF LoadInv
<1>5. \A u \in Buf!Threads : bufs'[u] # <<>> =>
        /\ bufs'[u] \in Seq(0..(2^Width - 1)) /\ Len(bufs'[u]) = Buf!Ops
        /\ ~Wraps => Placed(bufs'[u])
  BY <1>2, <1>4 DEF LoadInv
<1> QED
  BY <1>1, <1>3, <1>4, <1>5 DEF LoadInv

LEMMA PassStep ==
  ASSUME Buf!Assumptions, SizeInv, LoadInv, NEW t \in Buf!Threads, Buf!Pass(t), ended = "no"
  PROVE  LoadInv'
<1> DEFINE b == Buf!Rotated(bufs[t])
           touched == Buf!Touches(b)
<1>1. /\ bufs[t] # <<>> /\ done[t] < MaxPasses /\ UNCHANGED <<req, apc>>
      /\ req \in Requests /\ req.fn \in Buf!Kernels /\ \A u \in Buf!Threads : apc[u] = "returned"
      /\ bufs[t] \in Seq(0..(2^Width - 1)) /\ Len(bufs[t]) = Buf!Ops
      /\ ~Wraps => Placed(bufs[t])
  BY DEF Buf!Pass, LoadInv, SizeInv
<1>2. /\ arena_size[t] = Buf!RoundUp(req.size + req.offset, req.page)
      /\ req.page \in Nat /\ req.page > 0
  BY <1>1, PowersAreNumbers DEF SizeInv
<1>3. req.size \in Nat /\ req.offset \in Nat
  BY <1>1, TheRequest
<1>4. req.size + req.offset <= arena_size[t] /\ arena_size[t] \in Nat
  BY <1>2, <1>3, Rounded
<1>5. Wraps => Buf!Length \in Nat /\ Buf!Length > arena_size[t]
  BY <1>1, <1>2, WrappedOutgrow
<1>6. ~Wraps => Buf!Length \in Nat /\ Buf!Length <= arena_size[t]
  <2>1. ~Wraps => Buf!Length \in Nat /\ Buf!Length <= req.size
    BY <1>1, BuffersFit
  <2> QED
    BY <1>3, <1>4, <2>1
<1>7. /\ Wraps' = Wraps /\ Buf!Ops' = Buf!Ops /\ \A x : Placed(x)' = Placed(x)
      /\ \A x : SoundPass(x)' = SoundPass(x)
  BY <1>1, SameRequest
<1>8. CASE Buf!Length > arena_size[t]
  <2>1. Wraps
    BY <1>4, <1>6, <1>8
  <2>2. ended' = "crashed" /\ UNCHANGED <<bufs, done, last>>
    BY <1>8 DEF Buf!Pass
  <2> QED
    BY <1>1, <1>7, <2>1, <2>2 DEF LoadInv
<1>9. CASE ~(Buf!Length > arena_size[t])
  <2>1. ~Wraps
    BY <1>5, <1>9
  <2>2. /\ bufs' = [bufs EXCEPT ![t] = b] /\ done' = [done EXCEPT ![t] = @ + 1]
        /\ last' = [last EXCEPT ![t] = touched]
        /\ ended' = IF touched.writes \union touched.reads \subseteq 0..(arena_size[t] - 1)
                    THEN "no" ELSE "crashed"
    BY <1>9, Zenon DEF Buf!Pass
  <2>3. b \in Seq(0..(2^Width - 1)) /\ Len(b) = Buf!Ops /\ Placed(b)
    BY <1>1, <2>1, RotatedBuffers
  <2>4. SoundPass(touched)
    BY <1>1, <2>1, <2>3, PassIsSound
  <2> HIDE DEF b, touched
  <2>5. touched.writes \union touched.reads \subseteq 0..(arena_size[t] - 1)
    <3>1. req.offset..(req.offset + req.size - 1) \subseteq 0..(arena_size[t] - 1)
      BY <1>3, <1>4
    <3> QED
      BY <2>4, <3>1 DEF SoundPass
  <2>6. ended' = "no"
    BY <2>2, <2>5
  <2>7. /\ DOMAIN bufs' = Buf!Threads /\ bufs'[t] = b
        /\ \A u \in Buf!Threads \ {t} : bufs'[u] = bufs[u]
    BY <2>2 DEF LoadInv
  <2>8. /\ DOMAIN last' = Buf!Threads /\ last'[t] = touched
        /\ \A u \in Buf!Threads \ {t} : last'[u] = last[u]
    BY <2>2 DEF LoadInv
  <2>9. /\ done' \in [Buf!Threads -> 0..MaxPasses] /\ done'[t] > 0
        /\ \A u \in Buf!Threads \ {t} : done'[u] = done[u]
    <3>1. done \in [Buf!Threads -> 0..MaxPasses] /\ MaxPasses \in Nat
      BY DEF LoadInv, Buf!Assumptions
    <3> QED
      BY <1>1, <2>2, <3>1
  <2>10. \A u \in Buf!Threads : bufs'[u] # <<>> =>
          /\ bufs'[u] \in Seq(0..(2^Width - 1)) /\ Len(bufs'[u]) = Buf!Ops
          /\ ~Wraps => Placed(bufs'[u])
    BY <2>3, <2>7 DEF LoadInv
  <2>11. \A u \in Buf!Threads : /\ done'[u] > 0 => SoundPass(last'[u])
                                /\ done'[u] = 0 => last'[u] = NoPass
    BY <2>4, <2>8, <2>9 DEF LoadInv
  <2>12. \A u \in Buf!Threads : bufs'[u] # <<>> =>
           /\ (req.fn \in Buf!Kernels)' /\ \A v \in Buf!Threads : apc'[v] = "returned"
           /\ bufs'[u] \in Seq(0..(2^Width - 1)) /\ Len(bufs'[u]) = (Buf!Ops)'
           /\ (~Wraps => Placed(bufs[u]))'
    BY <1>1, <1>7, <2>10 DEF Buf!Kernels
  <2>13. \A u \in Buf!Threads : /\ done'[u] > 0 => SoundPass(last[u])'
                                /\ done'[u] = 0 => last'[u] = NoPass'
    BY <1>7, <2>11 DEF NoPass
  <2> QED
    BY <2>6, <2>7, <2>8, <2>9, <2>12, <2>13 DEF LoadInv
<1> QED
  BY <1>8, <1>9

-----------------------------------------------------------------------------
(* Arenas: the two sysfs files, read and then written without a lock, never leave  *)
(* the states that accept them once they are in them, so that what one thread has read *)
(* stays true enough.                                                                  *)

\* What thread t knows of the files where it is.
Knows(t) ==
  /\ apc[t] \in {"enable", "defrag"} /\ seen[t].enabled \in Buf!Accepted => enabled \in Buf!Accepted
  /\ apc[t] \in {"enable", "defrag"} /\ seen[t].defrag \in Buf!DefragAccepted
       => defrag \in Buf!DefragAccepted
  /\ apc[t] = "defrag" => enabled \in Buf!Accepted
  /\ apc[t] = "advise" /\ req.use_thp /\ ~req.file =>
       enabled \in Buf!Accepted /\ defrag \in Buf!DefragAccepted
  /\ apc[t] \in {"bind", "returned"} /\ req.use_thp =>
       /\ enabled \in Buf!Accepted /\ defrag \in Buf!DefragAccepted
       /\ ~Buf!IsHuge(req.page) /\ ~req.file

HugeInv ==
  /\ req \in Requests
  /\ apc \in [Buf!Threads -> ArenaLocations]
  /\ DOMAIN seen = Buf!Threads
  /\ \A t \in Buf!Threads : Knows(t)

LEMMA InitHugeInv == Buf!Init => HugeInv
  BY DEF Buf!Init, Buf!ArenaInit, HugeInv, Knows, ArenaLocations

\* A step of one thread that keeps accepted files accepted: what the others know of
\* them stays true.
LEMMA OthersKnow ==
  ASSUME HugeInv, NEW t \in Buf!Threads, NEW loc \in ArenaLocations,
         req' = req, apc' = [apc EXCEPT ![t] = loc] \/ apc' = apc,
         DOMAIN seen' = Buf!Threads, \A w \in Buf!Threads \ {t} : seen'[w] = seen[w],
         enabled \in Buf!Accepted => enabled' \in Buf!Accepted,
         defrag \in Buf!DefragAccepted => defrag' \in Buf!DefragAccepted,
         Knows(t)'
  PROVE  HugeInv'
<1>1. apc' \in [Buf!Threads -> ArenaLocations] /\ \A w \in Buf!Threads \ {t} : apc'[w] = apc[w]
  BY DEF HugeInv
<1>2. ASSUME NEW w \in Buf!Threads \ {t} PROVE Knows(w)'
  BY <1>1, <1>2 DEF HugeInv, Knows, Buf!IsHuge
<1> QED
  BY <1>1, <1>2 DEF HugeInv

LEMMA AllocKeepsHuge == ASSUME HugeInv, NEW t \in Buf!Threads, Buf!AllocStep(t) PROVE HugeInv'
<1> USE DEF Buf!To, Buf!Stop, ArenaLocations
<1>1. CASE Buf!Flags(t)
  <2>1. Knows(t)'
    BY <1>1 DEF Buf!Flags, HugeInv, Knows
  <2> QED
    BY <1>1, <2>1, OthersKnow DEF Buf!Flags, HugeInv
<1>2. CASE Buf!Map(t)
  <2>1. Knows(t)'
    BY <1>2 DEF Buf!Map, HugeInv, Knows
  <2> QED
    BY <1>2, <2>1, OthersKnow DEF Buf!Map, HugeInv
<1>3. CASE Buf!ReadState(t)
  <2>1. Knows(t)'
    BY <1>3 DEF Buf!ReadState, HugeInv, Knows
  <2>2. DOMAIN seen' = Buf!Threads /\ \A w \in Buf!Threads \ {t} : seen'[w] = seen[w]
    BY <1>3 DEF Buf!ReadState, HugeInv
  <2> QED
    BY <1>3, <2>1, <2>2, OthersKnow DEF Buf!ReadState
<1>4. CASE Buf!Enable(t)
  <2>1. Knows(t)'
    BY <1>4 DEF Buf!Enable, HugeInv, Knows, Buf!Accepted
  <2> QED
    BY <1>4, <2>1, OthersKnow DEF Buf!Enable, HugeInv, Buf!Accepted
<1>5. CASE Buf!Defrag(t)
  <2>1. Knows(t)'
    BY <1>5 DEF Buf!Defrag, Buf!NeedsDefrag, HugeInv, Knows, Buf!DefragAccepted
  <2> QED
    BY <1>5, <2>1, OthersKnow DEF Buf!Defrag, HugeInv, Buf!DefragAccepted
<1>6. CASE Buf!Advise(t)
  <2>1. Knows(t)'
    BY <1>6 DEF Buf!Advise, Buf!MayAdvise, HugeInv, Knows, Buf!IsHuge
  <2> QED
    BY <1>6, <2>1, OthersKnow DEF Buf!Advise, HugeInv
<1>7. CASE Buf!Bind(t)
  <2>1. Knows(t)'
    BY <1>7 DEF Buf!Bind, HugeInv, Knows, Buf!IsHuge
  <2> QED
    BY <1>7, <2>1, OthersKnow DEF Buf!Bind, HugeInv
<1> QED
  BY <1>1, <1>2, <1>3, <1>4, <1>5, <1>6, <1>7 DEF Buf!AllocStep

LEMMA LoadKeepsHuge ==
  ASSUME HugeInv, NEW t \in Buf!Threads, Buf!LoadStep(t)
  PROVE  HugeInv'
<1>1. UNCHANGED <<req, apc, seen, enabled, defrag>>
  BY DEF Buf!LoadStep, Buf!Start, Buf!Pass, Buf!arenaVars
<1> QED
  BY <1>1 DEF HugeInv, Knows

-----------------------------------------------------------------------------
(* Arenas: the load threads *)

BufInv == SizeInv /\ LoadInv /\ HugeInv

LEMMA BufInit == Buf!Assumptions /\ Buf!Init => BufInv
BY InitSizeInv, InitLoadInv, InitHugeInv DEF BufInv

LEMMA BufInductive ==
  ASSUME Buf!Assumptions, BufInv, [Buf!Next]_(Buf!loadVars)
  PROVE  BufInv'
<1> USE DEF BufInv
<1>1. ASSUME NEW t \in Buf!Threads, Buf!Alloc(t) PROVE BufInv'
  <2>1. Buf!AllocStep(t)
    BY <1>1 DEF Buf!Alloc
  <2> QED
    BY <1>1, <2>1, SizeStep, AllocKeepsLoad, AllocKeepsHuge
<1>2. ASSUME NEW t \in Buf!Threads, Buf!LoadStep(t) PROVE BufInv'
  <2>1. LoadInv'
    BY <1>2, StartStep, PassStep DEF Buf!LoadStep
  <2> QED
    BY <1>2, <2>1, LoadKeepsSize, LoadKeepsHuge
<1>3. CASE UNCHANGED Buf!loadVars
  <2>1. /\ UNCHANGED <<req, apc, seen, enabled, defrag, arena_size, nodes, ended>>
        /\ UNCHANGED <<bufs, done, last>>
    BY <1>3 DEF Buf!loadVars, Buf!arenaVars
  <2>2. SizeInv'
    BY <2>1 DEF SizeInv
  <2>3. HugeInv'
    BY <2>1 DEF HugeInv, Knows
  <2>4. /\ Wraps' = Wraps /\ Buf!Ops' = Buf!Ops /\ \A x : Placed(x)' = Placed(x)
        /\ \A x : SoundPass(x)' = SoundPass(x)
    BY <2>1, SameRequest
  <2>5. LoadInv'
    BY <2>1, <2>4 DEF LoadInv
  <2> QED
    BY <2>2, <2>3, <2>5
<1> QED
  BY <1>1, <1>2, <1>3 DEF Buf!Next

LEMMA SameCardinality == \A S : Buf!Cardinality(S) = Cardinality(S)
BY DEF Buf!Cardinality, Buf!IsFiniteSet, Cardinality, IsFiniteSet

LEMMA PassesSound ==
  ASSUME Buf!Assumptions, BufInv
  PROVE  Buf!PassesAreSound
<1> USE DEF BufInv
<1>0. ASSUME NEW t \in Buf!Threads
      PROVE  SoundPass(last[t]) \/ (last[t].writes = {} /\ last[t].reads = {})
  <2>1. done[t] \in Nat
    BY DEF LoadInv
  <2>2. SoundPass(last[t]) \/ last[t] = NoPass
    BY <2>1 DEF LoadInv
  <2>3. NoPass.writes = {} /\ NoPass.reads = {}
    BY DEF NoPass
  <2> QED
    BY <2>2, <2>3
<1>1. Buf!WritesAreNotRead
  BY <1>0 DEF Buf!WritesAreNotRead, SoundPass
<1>2. Buf!StaysInArena
  <2>1. ASSUME NEW t \in Buf!Threads
        PROVE  last[t].writes \union last[t].reads \subseteq req.offset..(req.offset + req.size - 1)
    BY <1>0 DEF SoundPass
  <2> QED
    BY <2>1 DEF Buf!StaysInArena, LoadInv, Wraps
<1>3. Buf!BitesAreTouched
  BY SameCardinality DEF Buf!BitesAreTouched, LoadInv, SoundPass
<1> QED
  BY <1>1, <1>2, <1>3 DEF Buf!PassesAreSound

LEMMA ArenaAsAsked ==
  ASSUME Buf!Assumptions, BufInv
  PROVE  Buf!ArenaIsAsAsked
<1> USE DEF BufInv
<1>1. Buf!ThpIsAccepted
  BY DEF HugeInv, Knows, Buf!ThpIsAccepted
<1>2. Buf!OneKindOfHugePage
  <2>1. req.page \in Nat /\ NativePage \in Nat
    BY PowersAreNumbers, TheRequest DEF Buf!Assumptions, Buf!ArenaAssumptions, SizeInv
  <2> QED
    BY <2>1 DEF HugeInv, Knows, Buf!OneKindOfHugePage, Buf!IsHuge
<1>3. Buf!NodesByWeight
  <2> DEFINE w == req.weights
  <2>1. w \in Seq(Nat) /\ req.size \in Nat /\ req.offset \in Nat
    BY TheRequest DEF SizeInv
  <2>2. ASSUME NEW t \in Buf!Threads, NEW k \in Buf!Range(nodes[t])
        PROVE  Cardinality({r \in 0..(Buf!WeightSum(w) - 1) : Buf!NodeOf(w, r) = k}) = w[k]
    <3>1. k \in DOMAIN w
      BY DEF SizeInv, Buf!Range
    <3> QED
      BY <2>1, <3>1, DrawsOfNode
  <2>3. ASSUME NEW t \in Buf!Threads, apc[t] = "returned", w # <<>>
        PROVE  Len(nodes[t]) * req.page >= req.size + req.offset
    <3>1. /\ arena_size[t] = Buf!RoundUp(req.size + req.offset, req.page)
          /\ Len(nodes[t]) * req.page >= arena_size[t]
          /\ req.page \in Buf!Powers /\ Len(nodes[t]) \in Nat
      BY <2>3 DEF SizeInv
    <3>2. req.page \in Nat /\ req.page > 0
      BY <3>1, PowersAreNumbers
    <3>3. req.size + req.offset <= arena_size[t] /\ arena_size[t] \in Nat
      <4>1. req.size + req.offset \in Nat
        BY <2>1
      <4> QED
        BY <3>1, <3>2, <4>1, Rounded
    <3>4. Len(nodes[t]) * req.page \in Nat
      BY <3>1, <3>2
    <3> QED
      BY <2>1, <3>1, <3>3, <3>4
  <2>4. ASSUME ended = "crashed", \E t \in Buf!Threads : apc[t] = "bind"
        PROVE  \A k \in DOMAIN w : w[k] = 0
    <3>1. Buf!WeightSum(w) = 0
      BY <2>4 DEF LoadInv
    <3> QED
      BY <2>1, <3>1, NoWeight
  <2> HIDE DEF w
  <2> QED
    BY <2>2, <2>3, <2>4, SameCardinality DEF Buf!NodesByWeight, w
<1> QED
  BY <1>1, <1>2, <1>3 DEF Buf!ArenaIsAsAsked

LEMMA BufTypes ==
  ASSUME Buf!Assumptions, BufInv
  PROVE  Buf!TypeOK
<1> USE DEF BufInv
<1>1. Buf!ArenaTypeOK
  <2>1. \A t \in Buf!Threads : arena_size[t] \in Nat /\ Buf!Range(nodes[t]) \subseteq DOMAIN req.weights
    BY DEF SizeInv, Buf!Range
  <2> QED
    BY <2>1 DEF Buf!ArenaTypeOK, SizeInv, ArenaLocations
<1>2. ASSUME NEW t \in Buf!Threads
      PROVE  /\ bufs[t] \in Seq(0..(2^Width - 1)) /\ Len(bufs[t]) \in {0, Buf!Ops}
             /\ done[t] \in 0..MaxPasses
  <2>1. done[t] \in 0..MaxPasses
    BY DEF LoadInv
  <2>2. CASE bufs[t] = <<>>
    BY <2>1, <2>2
  <2>3. CASE bufs[t] # <<>>
    BY <2>1, <2>3 DEF LoadInv
  <2> QED
    BY <2>2, <2>3
<1> QED
  BY <1>1, <1>2 DEF Buf!TypeOK

-----------------------------------------------------------------------------
(* The three parts together *)

LEMMA EachPart == MCSpec => RunSpec /\ Opt!Spec /\ Buf!Spec
<1>1. MCInit => RunInit /\ Opt!Init /\ Buf!Init
  BY DEF MCInit
<1>2. [MCNext]_allVars => [RunNext]_runVars
  BY DEF MCNext, allVars
<1>3. [MCNext]_allVars => [Opt!Next]_(Opt!optVars)
  BY DEF MCNext, allVars, optVars, Opt!optVars
<1>4. [MCNext]_allVars => [Buf!Next]_(Buf!loadVars)
  BY DEF MCNext, allVars, bufVars, Buf!loadVars, Buf!arenaVars
<1>5. MCSpec => RunSpec
  BY <1>1, <1>2, PTL DEF MCSpec, RunSpec
<1>6. MCSpec => Opt!Spec
  BY <1>1, <1>3, PTL DEF MCSpec, Opt!Spec
<1>7. MCSpec => Buf!Spec
  BY <1>1, <1>4, PTL DEF MCSpec, Buf!Spec
<1> QED
  BY <1>5, <1>6, <1>7

LEMMA OptInvariance == Opt!Spec => []OptInv
<1>1. Opt!Init => OptInv
  BY PartsAssumption, InitOptInv
<1>2. OptInv /\ [Opt!Next]_(Opt!optVars) => OptInv'
  BY PartsAssumption, OptInductive
<1> QED
  BY <1>1, <1>2, PTL DEF Opt!Spec

\* A command line that is accepted means the same in whatever order its options come,
\* and a kernel named as the usage names it is the one that runs, for every set of
\* words typed (multiload.c:893-918, 965-982).
THEOREM OptionsOfTheRun == MCSpec => []OptionsAreKept
<1>1. OptInv => Opt!OptionsAreKept
  BY PartsAssumption, OptionsKept
<1> QED
  BY <1>1, OptInvariance, EachPart, PTL DEF OptionsAreKept

\* The threads are those that main and their kernels expect, for every number of them
\* (multiload.c:1197-1204, 1263-1298).
THEOREM ThreadsOfTheRun == MCSpec => []ThreadsAreReady
<1>1. OptInv => Opt!ThreadsAreReady
  BY PartsAssumption, ThreadsReady
<1> QED
  BY <1>1, OptInvariance, EachPart, PTL DEF ThreadsAreReady

LEMMA BufInvariance == Buf!Spec => []BufInv
<1>1. Buf!Init => BufInv
  BY PartsAssumption, BufInit
<1>2. BufInv /\ [Buf!Next]_(Buf!loadVars) => BufInv'
  BY PartsAssumption, BufInductive
<1> QED
  BY <1>1, <1>2, PTL DEF Buf!Spec

\* An arena is what was asked for, however many threads allocate at the same time:
\* it is returned with transparent huge pages only once the system accepts the advice
\* and goes on accepting it, kinds of huge pages are never combined, and its pages are
\* bound to the last one, in the proportions of the weights, whatever the weights are
\* (arena.c:88-119, 208-261).
THEOREM ArenasOfTheRun == MCSpec => []ArenaIsAsAsked
<1>1. BufInv => Buf!ArenaIsAsAsked
  BY PartsAssumption, ArenaAsAsked
<1> QED
  BY <1>1, BufInvariance, EachPart, PTL DEF ArenaIsAsAsked

\* A pass touches what the thread reports, inside its arena, and never writes what it
\* reads, for all kernels, sizes and offsets (multiload.c:467-643).
THEOREM PassesOfTheRun == MCSpec => []PassesAreSound
<1>1. BufInv => Buf!PassesAreSound
  BY PartsAssumption, PassesSound
<1> QED
  BY <1>1, BufInvariance, EachPart, PTL DEF PassesAreSound

\* Every variable of the three parts keeps its type: no counter of the barrier is
\* decremented below zero, no size wraps and no node is out of the weights.
THEOREM TypesOfTheRun == MCSpec => []MCTypeOK
<1>1. Barrier!Spec => []Barrier!TypeOK
  <2>1. B!Spec => []B!TypeOK
    BY B!TypeCorrect, ThreadsAssumption
  <2>2. B!TypeOK => Barrier!TypeOK
    BY DEF Barrier!TypeOK, B!TypeOK, Barrier!NoOne, B!NoOne, Barrier!Everyone, B!Everyone,
           Barrier!Threads, B!Threads, Barrier!Main, B!Main
  <2> QED
    BY <2>1, <2>2, SameBarrier, PTL
<1>2. Opt!Spec => []Opt!TypeOK
  <2>1. OptInv => Opt!TypeOK
    BY PartsAssumption, OptTypes
  <2> QED
    BY <2>1, OptInvariance, PTL
<1>3. Buf!Spec => []Buf!TypeOK
  <2>1. BufInv => Buf!TypeOK
    BY PartsAssumption, BufTypes
  <2> QED
    BY <2>1, BufInvariance, PTL
<1>4. TypeOK /\ Barrier!TypeOK /\ Opt!TypeOK /\ Buf!TypeOK => MCTypeOK
  BY DEF MCTypeOK
<1> QED
  BY <1>1, <1>2, <1>3, <1>4, TypesOfSampling, RunImplementsParts, EachPart, PTL
=============================================================================
