--------------------------- MODULE StartupBarrier ---------------------------
(***************************************************************************)
(* The startup barrier of the multichase programs: every thread builds its *)
(* part of the shared buffer, and neither a thread nor main goes on before *)
(* the last one is ready.  The same code is in multichase.c (thread_start  *)
(* and main), multiload.c (thread_start and main) and fairness.c           *)
(* (wait_for_startup, which main calls too).                               *)
(*                                                                         *)
(* A thread is created by main while earlier ones already run.  The wait   *)
(* on the condition variable is not in a loop; POSIX lets it return with   *)
(* no signal, which the model does when Spurious is TRUE.                  *)
(***************************************************************************)
EXTENDS Naturals, FiniteSets

CONSTANTS
  NrThreads,     \* nr_threads
  MainCounts,    \* main is counted and decrements too (fairness.c)
  Branch,        \* the chase is "branch": the buffer becomes code (multichase.c)
  Spurious       \* pthread_cond_wait may return with no signal

ASSUME NrThreadsAssumption == NrThreads \in Nat \ {0}
ASSUME FlagsAssumption ==
  MainCounts \in BOOLEAN /\ Branch \in BOOLEAN /\ Spurious \in BOOLEAN

Threads == 1..NrThreads
Main == 0
Everyone == Threads \union {Main}
NoOne == NrThreads + 1
Bug_Counted == Everyone    \* main decrements a counter that does not count it

\* Those who decrement nr_to_startup.
Counted == IF MainCounts THEN Everyone ELSE Threads

VARIABLES
  nr_to_startup,  \* the counter that wait_mutex protects
  wait_mutex,     \* who holds it, or NoOne
  pc,             \* where each thread, and main, is
  executable,     \* the buffer was made executable
  alive           \* the process runs; exit(1) anywhere, or main's return, ends it

vars == <<nr_to_startup, wait_mutex, pc, executable, alive>>

TypeOK ==
  /\ nr_to_startup \in 0..(NrThreads + 1)
  /\ wait_mutex \in Everyone \union {NoOne}
  /\ pc \in [Everyone -> {"off", "create", "prepare", "lock", "decide", "wait",
                          "relock", "unlock", "go"}]
  /\ executable \in BOOLEAN
  /\ alive \in BOOLEAN

Init ==
  /\ nr_to_startup = (IF MainCounts THEN NrThreads + 1 ELSE NrThreads)
  /\ wait_mutex = NoOne
  /\ pc = [p \in Everyone |-> IF p = Main THEN "create" ELSE "off"]
  /\ executable = FALSE
  /\ alive = TRUE

-----------------------------------------------------------------------------
\* main's loop over pthread_create, one thread per step.
Create(t) ==
  /\ alive
  /\ pc[Main] = "create"
  /\ pc[t] = "off"
  /\ \A u \in Threads : u < t => pc[u] # "off"
  /\ pc' = [pc EXCEPT ![t] = "prepare", ![Main] = IF t = NrThreads THEN "lock" ELSE @]
  /\ UNCHANGED <<nr_to_startup, wait_mutex, executable, alive>>

\* Affinity, generation of the chases or of the load buffer, cache flush.
Prepare(t) ==
  /\ alive
  /\ pc[t] = "prepare"
  /\ pc' = [pc EXCEPT ![t] = "lock"]
  /\ UNCHANGED <<nr_to_startup, wait_mutex, executable, alive>>

Lock(p) ==
  /\ alive
  /\ pc[p] = "lock"
  /\ wait_mutex = NoOne
  /\ wait_mutex' = p
  /\ pc' = [pc EXCEPT ![p] = "decide"]
  /\ UNCHANGED <<nr_to_startup, executable, alive>>

Bug_Release(p) ==    \* pthread_cond_signal: wakes one waiter
  IF \E q \in Everyone : pc[q] = "wait"
  THEN \E q \in Everyone : pc[q] = "wait" /\ pc' = [pc EXCEPT ![p] = "unlock", ![q] = "relock"]
  ELSE pc' = [pc EXCEPT ![p] = "unlock"]

\* pthread_cond_broadcast, the caller going on to unlock.
Release(p) ==
  pc' = [q \in Everyone |->
           IF q = p THEN "unlock" ELSE IF pc[q] = "wait" THEN "relock" ELSE pc[q]]

\* pthread_cond_wait gives up the mutex in the same step.
Wait(p) ==
  /\ pc' = [pc EXCEPT ![p] = "wait"]
  /\ wait_mutex' = NoOne

Bug_Decide(p) ==    \* leaves the barrier one thread early
  /\ alive
  /\ p \in Counted
  /\ pc[p] = "decide"
  /\ nr_to_startup' = nr_to_startup - 1
  /\ executable' = (executable \/ (Branch /\ nr_to_startup = 1))
  /\ IF nr_to_startup > 2 THEN Wait(p) ELSE Release(p) /\ UNCHANGED wait_mutex
  /\ UNCHANGED alive

\* The last thread makes the buffer executable, then everybody is released.
Decide(p) ==
  /\ alive
  /\ p \in Counted
  /\ pc[p] = "decide"
  /\ nr_to_startup' = nr_to_startup - 1
  /\ executable' = (executable \/ (Branch /\ nr_to_startup = 1))
  /\ IF nr_to_startup' # 0 THEN Wait(p) ELSE Release(p) /\ UNCHANGED wait_mutex
  /\ UNCHANGED alive

\* A main that is not counted only looks at the counter.
Look ==
  /\ alive
  /\ Main \notin Counted
  /\ pc[Main] = "decide"
  /\ IF nr_to_startup # 0 THEN Wait(Main)
     ELSE pc' = [pc EXCEPT ![Main] = "unlock"] /\ UNCHANGED wait_mutex
  /\ UNCHANGED <<nr_to_startup, executable, alive>>

\* pthread_cond_wait returns holding the mutex; nothing is tested again.
Relock(p) ==
  /\ alive
  /\ pc[p] = "relock"
  /\ wait_mutex = NoOne
  /\ wait_mutex' = p
  /\ pc' = [pc EXCEPT ![p] = "unlock"]
  /\ UNCHANGED <<nr_to_startup, executable, alive>>

SpuriousWakeup(p) ==
  /\ alive
  /\ Spurious
  /\ pc[p] = "wait"
  /\ pc' = [pc EXCEPT ![p] = "relock"]
  /\ UNCHANGED <<nr_to_startup, wait_mutex, executable, alive>>

Unlock(p) ==
  /\ alive
  /\ pc[p] = "unlock"
  /\ wait_mutex' = NoOne
  /\ pc' = [pc EXCEPT ![p] = "go"]
  /\ UNCHANGED <<nr_to_startup, executable, alive>>

\* exit(1) in main's loop, in a thread that prepares or in make_buffer_executable,
\* or main's return after its last sample.
Exit ==
  /\ alive
  /\ \/ pc[Main] \in {"create", "go"}
     \/ \E t \in Threads : pc[t] = "prepare"
     \/ Branch /\ nr_to_startup = 1 /\ \E t \in Threads : pc[t] = "decide"
  /\ alive' = FALSE
  /\ UNCHANGED <<nr_to_startup, wait_mutex, pc, executable>>

-----------------------------------------------------------------------------
Step(p) == Lock(p) \/ Decide(p) \/ Relock(p) \/ Unlock(p)

Next ==
  \/ \E t \in Threads : Create(t) \/ Prepare(t)
  \/ \E p \in Everyone : Step(p) \/ SpuriousWakeup(p)
  \/ Look \/ Exit

Spec == Init /\ [][Next]_vars

\* Every thread is scheduled: a mutex is taken finitely often here, so a free one
\* is eventually taken by each that wants it.
Fairness ==
  /\ \A t \in Threads : WF_vars(Create(t)) /\ WF_vars(Prepare(t))
  /\ \A p \in Everyone : WF_vars(Step(p))
  /\ WF_vars(Look)
FairSpec == Spec /\ Fairness

-----------------------------------------------------------------------------
(* Properties *)

\* Nobody chases or samples before every thread has generated its chases, and a
\* branch chase is executable by then ("wait and/or wake up everyone if we're all
\* ready", multichase.c:528; "now wait for them all", multichase.c:904).
NoEarlyStart ==
  \A p \in Everyone : pc[p] = "go" =>
    /\ \A t \in Threads : pc[t] \notin {"off", "prepare"}
    /\ Branch /\ ~MainCounts => executable

\* Nobody sleeps on the condition variable once the counter is zero: the last
\* decrement and the broadcast happen under the mutex that a waiter gave up only
\* when it slept (multichase.c:537-541), and main looks before it waits.
NoLostWakeup ==
  nr_to_startup = 0 => \A p \in Everyone : pc[p] # "wait"

\* The barrier opens: everybody goes on unless the process ends first.
EveryoneStarts == <>(~alive \/ \A p \in Everyone : pc[p] = "go")
=============================================================================
