----------------------- MODULE StartupBarrier_proofs -----------------------
(***************************************************************************)
(* Proofs about StartupBarrier, for every number of threads, with and      *)
(* without a counted main, a branch chase or spurious wakeups.             *)
(***************************************************************************)
EXTENDS StartupBarrier, FiniteSetTheorems, TLAPS

\* Locations before a participant has decremented or looked at the counter.
Before == {"off", "create", "prepare", "lock", "decide"}
\* Locations a participant reaches only when it was released.
Released == {"relock", "unlock", "go"}

\* The participants the counter still waits for.
Uncounted == {p \in Counted : pc[p] \in Before}

\* Who holds the mutex.
MutexInv ==
  \A p \in Everyone : pc[p] \in {"decide", "unlock"} <=> wait_mutex = p

\* The counter is the number of participants that have still to decrement it.
CountInv == nr_to_startup = Cardinality(Uncounted)

\* Nobody is released while the counter is not zero, unless a wait may return at will.
ReleaseInv == ~Spurious => \A p \in Everyone : pc[p] \in Released => nr_to_startup = 0

\* The step that takes the counter to zero has made the buffer executable.
ExecutableInv == Branch /\ nr_to_startup = 0 => executable

IInv == TypeOK /\ MutexInv /\ CountInv /\ NoLostWakeup /\ ReleaseInv /\ ExecutableInv

-----------------------------------------------------------------------------
(* Facts about the counted participants *)

LEMMA CountedFinite == IsFiniteSet(Counted) /\ Counted \subseteq Everyone /\ Threads \subseteq Counted
<1>1. Everyone = 0..NrThreads
  BY NrThreadsAssumption DEF Everyone, Threads, Main
<1>2. IsFiniteSet(Everyone)
  BY <1>1, NrThreadsAssumption, FS_Interval
<1>3. Counted \subseteq Everyone /\ Threads \subseteq Counted
  BY DEF Counted, Everyone
<1>. QED  BY <1>2, <1>3, FS_Subset

LEMMA UncountedFinite == IsFiniteSet(Uncounted) /\ Cardinality(Uncounted) \in Nat
<1>1. Uncounted \subseteq Counted
  BY DEF Uncounted
<1>2. IsFiniteSet(Uncounted)
  BY <1>1, CountedFinite, FS_Subset
<1>. QED  BY <1>2, FS_CardinalityType

\* At the start the counter is the number of counted participants.
LEMMA CountedNumber ==
  Cardinality(Counted) = IF MainCounts THEN NrThreads + 1 ELSE NrThreads
<1>1. CASE MainCounts
  <2>1. Counted = 0..NrThreads
    BY <1>1, NrThreadsAssumption DEF Counted, Everyone, Threads, Main
  <2>. QED  BY <1>1, <2>1, NrThreadsAssumption, FS_Interval
<1>2. CASE ~MainCounts
  <2>1. Counted = 1..NrThreads
    BY <1>2 DEF Counted, Threads
  <2>. QED  BY <1>2, <2>1, NrThreadsAssumption, FS_Interval
<1>. QED  BY <1>1, <1>2

LEMMA InitIInv == Init => IInv
<1> SUFFICES ASSUME Init PROVE IInv
  OBVIOUS
<1>. USE NrThreadsAssumption, FlagsAssumption DEF Init
<1>1. TypeOK
  <2>1. nr_to_startup \in 0..(NrThreads + 1)
    <3>1. CASE MainCounts
      BY <3>1
    <3>2. CASE ~MainCounts
      BY <3>2
    <3>. QED  BY <3>1, <3>2
  <2>2. wait_mutex \in Everyone \union {NoOne}
    OBVIOUS
  <2>3. pc \in [Everyone -> {"off", "create", "prepare", "lock", "decide", "wait",
                             "relock", "unlock", "go"}]
    OBVIOUS
  <2>. QED  BY <2>1, <2>2, <2>3 DEF TypeOK
<1>2. MutexInv
  BY DEF MutexInv, NoOne, Everyone, Threads, Main
<1>3. Uncounted = Counted
  BY CountedFinite DEF Uncounted, Before
<1>4. CountInv
  BY <1>3, CountedNumber DEF CountInv
<1>5. NoLostWakeup /\ ReleaseInv /\ ExecutableInv
  BY DEF NoLostWakeup, ReleaseInv, Released, ExecutableInv
<1>. QED  BY <1>1, <1>2, <1>4, <1>5 DEF IInv

-----------------------------------------------------------------------------
(* Every step preserves the invariant *)

\* A step that moves nobody past its decrement keeps the counter right.
LEMMA CountSame ==
  ASSUME CountInv, nr_to_startup' = nr_to_startup,
         \A p \in Counted : pc'[p] \in Before <=> pc[p] \in Before
  PROVE  CountInv'
<1>1. Uncounted' = Uncounted
  BY DEF Uncounted
<1>. QED  BY <1>1 DEF CountInv

\* A decrement takes its caller out of the uncounted ones.
LEMMA DecideCount ==
  ASSUME IInv, NEW p \in Everyone, Decide(p)
  PROVE  /\ CountInv' /\ nr_to_startup \in Nat \ {0}
         /\ nr_to_startup' = 0 => \A q \in Counted : pc'[q] \notin Before
<1>1. p \in Uncounted
  BY DEF Decide, Uncounted, Before
<1>2. Uncounted' = Uncounted \ {p}
  BY <1>1, CountedFinite DEF Decide, Wait, Release, Uncounted, Before, IInv, TypeOK
<1>3. Cardinality(Uncounted') = Cardinality(Uncounted) - 1
  BY <1>1, <1>2, UncountedFinite, FS_RemoveElement
<1>4. nr_to_startup \in Nat \ {0}
  BY <1>1, UncountedFinite, FS_EmptySet DEF IInv, CountInv
<1>5. CountInv'
  BY <1>3 DEF Decide, IInv, CountInv
<1>6. IsFiniteSet(Uncounted')
  BY <1>2, UncountedFinite, FS_RemoveElement
<1>7. ASSUME nr_to_startup' = 0 PROVE Uncounted' = {}
  BY <1>5, <1>6, <1>7, FS_EmptySet DEF CountInv
<1>. QED  BY <1>4, <1>5, <1>7 DEF Uncounted

LEMMA NextIInv == IInv /\ [Next]_vars => IInv'
<1> SUFFICES ASSUME IInv, [Next]_vars PROVE IInv'
  OBVIOUS
<1>. USE NrThreadsAssumption DEF IInv
<1>1. ASSUME NEW t \in Threads, Create(t) PROVE IInv'
  <2>1. TypeOK'
    BY <1>1 DEF Create, TypeOK, Everyone, Threads, Main, NoOne
  <2>2. MutexInv'
    BY <1>1 DEF Create, TypeOK, MutexInv, Everyone, Threads, Main, NoOne
  <2>3. CountInv'
    BY <1>1, CountSame, CountedFinite DEF Create, TypeOK, Before, Everyone, Threads, Main
  <2>4. NoLostWakeup'
    BY <1>1 DEF Create, TypeOK, NoLostWakeup, Everyone
  <2>5. ReleaseInv' /\ ExecutableInv'
    BY <1>1 DEF Create, TypeOK, NoLostWakeup, ReleaseInv, Released, ExecutableInv, Everyone
  <2>. QED  BY <2>1, <2>2, <2>3, <2>4, <2>5
<1>2. ASSUME NEW t \in Threads, Prepare(t) PROVE IInv'
  <2>1. TypeOK'
    BY <1>2 DEF Prepare, TypeOK, Everyone, Threads, Main, NoOne
  <2>2. MutexInv'
    BY <1>2 DEF Prepare, TypeOK, MutexInv, Everyone, Threads, Main, NoOne
  <2>3. CountInv'
    BY <1>2, CountSame, CountedFinite DEF Prepare, TypeOK, Before, Everyone, Threads, Main
  <2>4. NoLostWakeup'
    BY <1>2 DEF Prepare, TypeOK, NoLostWakeup, Everyone
  <2>5. ReleaseInv' /\ ExecutableInv'
    BY <1>2 DEF Prepare, TypeOK, NoLostWakeup, ReleaseInv, Released, ExecutableInv, Everyone
  <2>. QED  BY <2>1, <2>2, <2>3, <2>4, <2>5
<1>3. ASSUME NEW p \in Everyone, Lock(p) PROVE IInv'
  <2>1. TypeOK'
    BY <1>3 DEF Lock, TypeOK, Everyone, Threads, Main, NoOne
  <2>2. MutexInv'
    BY <1>3 DEF Lock, TypeOK, MutexInv, Everyone, Threads, Main, NoOne
  <2>3. CountInv'
    BY <1>3, CountSame, CountedFinite DEF Lock, TypeOK, Before, Everyone, Threads, Main
  <2>4. NoLostWakeup'
    BY <1>3 DEF Lock, TypeOK, NoLostWakeup, Everyone
  <2>5. ReleaseInv' /\ ExecutableInv'
    BY <1>3 DEF Lock, TypeOK, NoLostWakeup, ReleaseInv, Released, ExecutableInv, Everyone
  <2>. QED  BY <2>1, <2>2, <2>3, <2>4, <2>5
<1>4. ASSUME NEW p \in Everyone, Decide(p) PROVE IInv'
  <2>1. TypeOK'
    BY <1>4, DecideCount DEF Decide, Wait, Release, TypeOK, Everyone, Threads, Main, NoOne
  <2>2. MutexInv'
    BY <1>4 DEF Decide, Wait, Release, TypeOK, MutexInv, Everyone, Threads, Main, NoOne
  <2>3. CountInv'
    BY <1>4, DecideCount
  <2>4. NoLostWakeup'
    BY <1>4, DecideCount DEF Decide, Wait, Release, TypeOK, NoLostWakeup, Everyone
  <2>5. ExecutableInv'
    <3>1. nr_to_startup' = 0 => nr_to_startup = 1
      BY <1>4, DecideCount DEF Decide
    <3>2. executable' = (executable \/ (Branch /\ nr_to_startup = 1))
      BY <1>4, Zenon DEF Decide
    <3>. QED  BY <3>1, <3>2, Zenon DEF ExecutableInv
  <2>6. ASSUME ~Spurious, NEW q \in Everyone, pc'[q] \in Released
        PROVE  nr_to_startup' = 0
    <3>1. CASE nr_to_startup' = 0
      BY <3>1
    <3>2. CASE nr_to_startup' # 0
      <4>1. pc' = [pc EXCEPT ![p] = "wait"]
        BY <1>4, <3>2 DEF Decide, Wait
      <4>2. pc[q] \in Released
        BY <2>6, <4>1 DEF TypeOK, Released
      <4>. QED  BY <1>4, <2>6, <4>2, DecideCount DEF ReleaseInv
    <3>. QED  BY <3>1, <3>2
  <2>7. ReleaseInv'
    BY <2>6 DEF ReleaseInv
  <2>. QED  BY <2>1, <2>2, <2>3, <2>4, <2>5, <2>7
<1>5. ASSUME NEW p \in Everyone, Relock(p) PROVE IInv'
  <2>1. TypeOK'
    BY <1>5 DEF Relock, TypeOK, Everyone, Threads, Main, NoOne
  <2>2. MutexInv'
    BY <1>5 DEF Relock, TypeOK, MutexInv, Everyone, Threads, Main, NoOne
  <2>3. CountInv'
    BY <1>5, CountSame, CountedFinite DEF Relock, TypeOK, Before, Everyone, Threads, Main
  <2>4. NoLostWakeup'
    BY <1>5 DEF Relock, TypeOK, NoLostWakeup, Everyone
  <2>5. ReleaseInv' /\ ExecutableInv'
    BY <1>5 DEF Relock, TypeOK, NoLostWakeup, ReleaseInv, Released, ExecutableInv, Everyone
  <2>. QED  BY <2>1, <2>2, <2>3, <2>4, <2>5
<1>6. ASSUME NEW p \in Everyone, Unlock(p) PROVE IInv'
  <2>1. TypeOK'
    BY <1>6 DEF Unlock, TypeOK, Everyone, Threads, Main, NoOne
  <2>2. MutexInv'
    BY <1>6 DEF Unlock, TypeOK, MutexInv, Everyone, Threads, Main, NoOne
  <2>3. CountInv'
    BY <1>6, CountSame, CountedFinite DEF Unlock, TypeOK, Before, Everyone, Threads, Main
  <2>4. NoLostWakeup'
    BY <1>6 DEF Unlock, TypeOK, NoLostWakeup, Everyone
  <2>5. ReleaseInv' /\ ExecutableInv'
    BY <1>6 DEF Unlock, TypeOK, NoLostWakeup, ReleaseInv, Released, ExecutableInv, Everyone
  <2>. QED  BY <2>1, <2>2, <2>3, <2>4, <2>5
<1>7. ASSUME NEW p \in Everyone, SpuriousWakeup(p) PROVE IInv'
  <2>1. TypeOK'
    BY <1>7 DEF SpuriousWakeup, TypeOK, Everyone, Threads, Main, NoOne
  <2>2. MutexInv'
    BY <1>7 DEF SpuriousWakeup, TypeOK, MutexInv, Everyone, Threads, Main, NoOne
  <2>3. CountInv'
    BY <1>7, CountSame, CountedFinite DEF SpuriousWakeup, TypeOK, Before, Everyone,
       Threads, Main
  <2>4. NoLostWakeup'
    BY <1>7 DEF SpuriousWakeup, TypeOK, NoLostWakeup, Everyone
  <2>5. ReleaseInv' /\ ExecutableInv'
    BY <1>7 DEF SpuriousWakeup, TypeOK, NoLostWakeup, ReleaseInv, Released, ExecutableInv,
       Everyone
  <2>. QED  BY <2>1, <2>2, <2>3, <2>4, <2>5
<1>8. ASSUME Look PROVE IInv'
  <2>1. TypeOK'
    BY <1>8 DEF Look, Wait, TypeOK, Everyone, Threads, Main, NoOne
  <2>2. MutexInv'
    BY <1>8 DEF Look, Wait, TypeOK, MutexInv, Everyone, Threads, Main, NoOne
  <2>3. CountInv'
    BY <1>8, CountSame, CountedFinite DEF Look, Wait, TypeOK, Before, Everyone, Threads,
       Main
  <2>4. NoLostWakeup'
    BY <1>8 DEF Look, Wait, TypeOK, NoLostWakeup, Everyone
  <2>5. ReleaseInv' /\ ExecutableInv'
    BY <1>8 DEF Look, Wait, TypeOK, NoLostWakeup, ReleaseInv, Released, ExecutableInv,
       Everyone
  <2>. QED  BY <2>1, <2>2, <2>3, <2>4, <2>5
<1>9. ASSUME Exit PROVE IInv'
  <2>1. TypeOK'
    BY <1>9 DEF Exit, TypeOK, Everyone, Threads, Main, NoOne
  <2>2. MutexInv'
    BY <1>9 DEF Exit, TypeOK, MutexInv, Everyone, Threads, Main, NoOne
  <2>3. CountInv'
    BY <1>9, CountSame, CountedFinite DEF Exit, TypeOK, Before, Everyone, Threads, Main
  <2>4. NoLostWakeup'
    BY <1>9 DEF Exit, TypeOK, NoLostWakeup, Everyone
  <2>5. ReleaseInv' /\ ExecutableInv'
    BY <1>9 DEF Exit, TypeOK, NoLostWakeup, ReleaseInv, Released, ExecutableInv, Everyone
  <2>. QED  BY <2>1, <2>2, <2>3, <2>4, <2>5
<1>10. CASE UNCHANGED vars
  BY <1>10 DEF vars, TypeOK, MutexInv, CountInv, Uncounted, NoLostWakeup, ReleaseInv,
     ExecutableInv
<1>. QED
  BY <1>1, <1>2, <1>3, <1>4, <1>5, <1>6, <1>7, <1>8, <1>9, <1>10 DEF Next, Step

-----------------------------------------------------------------------------
(* The theorems *)

\* The invariant holds in every reachable state.
THEOREM Invariance == Spec => []IInv
BY InitIInv, NextIInv, PTL DEF Spec

\* The counter, the mutex and the locations keep their types; in particular the
\* unsigned nr_to_startup is never decremented below zero.
THEOREM TypeCorrect == Spec => []TypeOK
BY Invariance, PTL DEF IInv

\* Nobody sleeps once the counter is zero, even if waits return at will
\* (multichase.c:529-543, multiload.c:831-838, fairness.c:58-65).
THEOREM WakeupsKept == Spec => []NoLostWakeup
BY Invariance, PTL DEF IInv

\* If pthread_cond_wait returns only when it was signalled, nobody starts early
\* (multichase.c:528-545 and 904-909).
THEOREM StartsTogether == ~Spurious => (Spec => []NoEarlyStart)
<1> SUFFICES ASSUME ~Spurious PROVE Spec => []NoEarlyStart
  OBVIOUS
<1>1. IInv => NoEarlyStart
  <2> SUFFICES ASSUME IInv, NEW p \in Everyone, pc[p] = "go"
               PROVE  /\ \A t \in Threads : pc[t] \notin {"off", "prepare"}
                      /\ Branch /\ ~MainCounts => executable
    BY DEF NoEarlyStart
  <2>1. nr_to_startup = 0
    BY DEF IInv, ReleaseInv, Released
  <2>2. Uncounted = {}
    BY <2>1, UncountedFinite, FS_EmptySet DEF IInv, CountInv
  <2>3. \A t \in Threads : pc[t] \notin Before
    BY <2>2, CountedFinite DEF Uncounted
  <2>. QED  BY <2>1, <2>3 DEF IInv, ExecutableInv, Before
<1>. QED  BY Invariance, <1>1, PTL
=============================================================================
