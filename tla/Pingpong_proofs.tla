--------------------------- MODULE Pingpong_proofs ---------------------------
(***************************************************************************)
(* Proofs about Pingpong, for every mask of cpus, every number of samples  *)
(* and of exchanges: the threads of a pair take turns, no page is used     *)
(* that is not mapped, and the printed table is of the pairs that it       *)
(* should have, each cell from exchanges of its own pair.                  *)
(*                                                                         *)
(* The argument follows a pair: which threads exist where main is          *)
(* (PairInv), that there is one page from the even thread's setup to the   *)
(* unmapping (PageInv), that without a spurious wakeup both threads have   *)
(* been through setup when one enters its loop (MeetInv), and who may      *)
(* store (TurnInv). It then follows main: what its samples hold (the       *)
(* counters), which cells of the row and which rows it has printed.        *)
(***************************************************************************)
EXTENDS Pingpong, FiniteSetTheorems, WellFoundedInduction, SequenceTheorems, TLAPS

Idle == {"none", "exited"}
Inside == {"test", "xchg", "store", "add"}
Before == {"options", "row", "col", "odd"}   \* main: no thread exists
During == {"sample", "joinodd", "joineven", "unmap"}

\* The locations of a thread.
Locations == {"none", "setup", "rendezvous", "waiting", "enter",
              "test", "xchg", "store", "add", "exited"}

TypeInv ==
  /\ i \in Nat /\ j \in Nat /\ printed \in Seq(Nat \X Nat)
  /\ pingpong_mutex \in Nat /\ word \in Nat
  /\ fn \in Modes \union {"none"} /\ (fn = "none" => mpc \in Ended \union {"options"})
  /\ mpc \in Ended \union Before \union During \union {"even"}
  /\ wait_for_buddy \in BOOLEAN /\ spurious \in BOOLEAN
  /\ tpc \in [Threads -> Locations]
  /\ cache \in [Threads -> Nat]
  /\ exch \in [Threads -> Nat]

PairInv ==
  Live =>
    /\ mpc \in Before => tpc[0] \in Idle /\ tpc[1] \in Idle
    /\ mpc = "even" => tpc[0] \in Idle
    /\ mpc = "joineven" => tpc[1] = "exited"
    /\ mpc = "unmap" => tpc[0] = "exited" /\ tpc[1] = "exited"

PageInv ==
  Live =>
    /\ mapped = (IF pingpong_mutex = NULL THEN {} ELSE {pingpong_mutex})
    /\ mpc \in Before \union {"even"} \/ tpc[0] = "setup" => pingpong_mutex = NULL
    /\ mpc \in During /\ tpc[0] # "setup" => pingpong_mutex # NULL

TurnInv ==
  Live =>
    /\ mpc \notin Before /\ pingpong_mutex = NULL => exch[0] = 0 /\ exch[1] = 0
    /\ \A t \in Threads : tpc[t] = "store" =>
         fn = "unlocked" /\ pingpong_mutex # NULL

\* Between two threads that have met.
MeetInv ==
  Live /\ ~spurious =>
    /\ wait_for_buddy => tpc[0] # "waiting" /\ tpc[1] # "waiting"
    /\ ~wait_for_buddy => \E t \in Threads : tpc[t] = "waiting" /\ tpc[1 - t] # "waiting"
    /\ \A t \in Threads :
         /\ tpc[t] = "enter" => pingpong_mutex # NULL
         /\ tpc[t] \in Inside => pingpong_mutex # NULL /\ cache[t] = pingpong_mutex

IInv == /\ TypeInv /\ PairInv /\ PageInv /\ TurnInv /\ MeetInv
        /\ ExchangesAlternate /\ PagesOutliveTheirUse

\* The bounds of the counters, wherever main is.
BoundInv ==
  /\ sample_no \in 0..NrSamples /\ stop_loops \in BOOLEAN
  /\ taken \in Nat /\ nr_pingpongs \in Nat
  /\ taken + nr_pingpongs <= 2 * MaxExchanges
  /\ word <= MaxExchanges + 1 /\ last_lo \in 0..MaxExchanges
  /\ nr \in [Threads -> 0..MaxExchanges]
  /\ exch \in [Threads -> 0..MaxExchanges]
  /\ \A t \in Threads : tpc[t] = "store" => exch[t] < MaxExchanges

\* What main was told of is what the counting thread has made: twice its exchanges in
\* the first two loops, at most twice the changes it saw in the third.
CountInv ==
  Live =>
    /\ mpc = "odd" => nr_pingpongs = 0
    /\ mpc = "even" =>
         /\ taken = 0 /\ nr_pingpongs = 0 /\ last_lo = 0 /\ nr[1] = 0
         /\ tpc[1] \in Inside => tpc[1] \in {"test", "xchg"} /\ cache[1] = NULL
    /\ mpc \in During =>
         /\ \A t \in Threads : nr[t] <= exch[t]
         /\ tpc[0] = "setup" => last_lo = 0
         /\ fn # "xadd" =>
              /\ taken + nr_pingpongs + 2 * nr[0] = 2 * exch[0]
              /\ nr[0] <= Batch /\ (tpc[0] # "add" => nr[0] < Batch)
              /\ tpc[1] # "add"
              /\ tpc[0] # "setup" => word \in {0, 1}
         /\ fn = "xadd" =>
              /\ taken + nr_pingpongs + 2 * nr[1] <= 2 * exch[1]
              /\ taken + nr_pingpongs + 2 * nr[1] <= 2 * last_lo
              /\ tpc[0] # "add"
              /\ tpc[0] # "setup" => word = exch[0] /\ last_lo <= word

\* The cpus before one, the cpus of the rows, the cells of the table, and those before a cell.
Below(c) == {d \in Cpus : d < c}
TestedCpus == {c \in Cpus : Cardinality(Below(c)) < nr_tested_cores}
Earlier(p, q) == p[1] < q[1] \/ (p[1] = q[1] /\ p[2] < q[2])
CellsBefore(rows, q) == {p \in rows \X Cpus : p[1] < p[2] /\ Earlier(p, q)}

\* The first cell that is not printed is not before this one.
Position ==
  IF mpc \in {"options", "row", "done"} THEN <<i, 0>>
  ELSE IF mpc \in {"joinodd", "joineven", "unmap"} THEN <<i, j + 1>> ELSE <<i, j>>

\* Where the loops over i and j are.
PlaceInv ==
  /\ i <= Last /\ j <= Last + 1
  /\ nr_tested_cores \in TestedCores \union {Cardinality(Cpus)}
  /\ core \in 0..Cardinality(Cpus)
  /\ printed \in Seq(Cpus \X Cpus)
  /\ mapped \subseteq {Pair, Len(printed)}
  /\ pingpong_mutex \in {NULL} \union mapped
  /\ cache \in [Threads -> 0..Pair]
  /\ Live =>
       /\ mpc = "options" => i = 0 /\ printed = <<>>
       /\ mpc \in {"options", "row"} => core = Cardinality(Below(i))
       /\ mpc \notin {"options", "row"} =>
            /\ i \in Cpus /\ i < Last /\ i < j /\ i \in TestedCpus
            /\ core = Cardinality(Below(i)) + 1
            /\ mpc # "col" => j \in Cpus
       /\ mpc = "sample" => mapped \subseteq {Pair}

TableInv ==
  /\ \A n \in DOMAIN printed :
       /\ printed[n][1] \in TestedCpus /\ printed[n][1] < printed[n][2]
       /\ n > 1 => Earlier(printed[n - 1], printed[n])
  /\ Live =>
       /\ \A n \in DOMAIN printed : printed[n] \in CellsBefore(TestedCpus, Position)
       /\ Len(printed) = Cardinality(CellsBefore(TestedCpus, Position))
  /\ mpc = "done" => Len(printed) = Cardinality({p \in TestedCpus \X Cpus : p[1] < p[2]})

\* What the steps share.
Shapes == TypeInv /\ PairInv /\ PageInv

LEMMA PairIsNotNull == TypeInv => Pair \in Nat /\ Pair # NULL
  BY DEF TypeInv, Pair, NULL

\* An exchange that is made, whether it completes a batch or not.
LEMMA CountMoves ==
  ASSUME TypeInv, NEW t \in Threads, NEW counts \in BOOLEAN, Count(t, counts)
  PROVE  /\ exch' = [exch EXCEPT ![t] = exch[t] + 1]
         /\ exch' \in [Threads -> Nat]
         /\ tpc' = [tpc EXCEPT ![t] = "add"] \/ tpc' = [tpc EXCEPT ![t] = "test"]
<1>1. exch' = [exch EXCEPT ![t] = exch[t] + 1]
  BY DEF Count
<1>2. exch \in [Threads -> Nat] /\ exch[t] + 1 \in Nat
  BY DEF TypeInv
<1>3. exch' \in [Threads -> Nat]
  BY <1>1, <1>2
<1>4. tpc' = [tpc EXCEPT ![t] = IF counts /\ BatchDone(t, IF counts THEN nr[t] + 1 ELSE nr[t])
                              THEN "add" ELSE "test"]
  BY DEF Count
<1>5. tpc' = [tpc EXCEPT ![t] = "add"] \/ tpc' = [tpc EXCEPT ![t] = "test"]
  BY <1>4
<1> QED
  BY <1>1, <1>3, <1>5

LEMMA LockedMoves ==
  ASSUME TypeInv, NEW t \in Threads, LockedXchg(t)
  PROVE  \/ UNCHANGED <<word, exch>> /\ tpc' = [tpc EXCEPT ![t] = "test"]
         \/ /\ exch' = [exch EXCEPT ![t] = exch[t] + 1] /\ exch' \in [Threads -> Nat]
            /\ tpc' = [tpc EXCEPT ![t] = "add"] \/ tpc' = [tpc EXCEPT ![t] = "test"]
            /\ word = t /\ word' = 1 - t /\ word' \in Nat
<1>1. CASE MayPass(t) /\ exch[t] < MaxExchanges
  <2>1. word = t /\ word' = 1 - t /\ Count(t, TRUE)
    BY <1>1 DEF LockedXchg, MayPass
  <2>2. 1 - t \in Nat
    BY DEF Threads
  <2> QED
    BY <2>1, <2>2, CountMoves
<1>2. CASE ~(MayPass(t) /\ exch[t] < MaxExchanges)
  BY <1>2 DEF LockedXchg
<1> QED
  BY <1>1, <1>2

\* What a loop does to the shared word: an exchange, or nothing but another test or,
\* in the unlocked loop, the load of a word that lets the thread store.
LEMMA LoopMoves ==
  ASSUME TypeInv, NEW t \in Threads, LockedXchg(t) \/ UnlockedLoad(t) \/ Xadd(t)
  PROVE  \/ /\ UNCHANGED <<word, exch>>
            /\ \/ tpc' = [tpc EXCEPT ![t] = "test"]
               \/ UnlockedLoad(t) /\ word = t /\ tpc' = [tpc EXCEPT ![t] = "store"]
         \/ /\ exch' = [exch EXCEPT ![t] = exch[t] + 1] /\ exch' \in [Threads -> Nat]
            /\ tpc' = [tpc EXCEPT ![t] = "add"] \/ tpc' = [tpc EXCEPT ![t] = "test"]
            /\ word' \in Nat
            /\ Xadd(t) \/ (LockedXchg(t) /\ word = t /\ word' = 1 - t)
<1>1. CASE LockedXchg(t)
  BY <1>1, LockedMoves
<1>2. CASE UnlockedLoad(t)
  BY <1>2 DEF UnlockedLoad, MayPass
<1>3. CASE Xadd(t)
  <2>1. CASE exch[t] < MaxExchanges
    <3>1. Count(t, t = 1 /\ last_lo # word) /\ word' = IF t = 0 THEN word + 1 ELSE word
      BY <1>3, <2>1 DEF Xadd
    <3>2. word' \in Nat
      BY <3>1 DEF TypeInv
    <3> DEFINE counts == t = 1 /\ last_lo # word
    <3>3. counts \in BOOLEAN /\ Count(t, counts)
      BY <3>1
    <3> HIDE DEF counts
    <3> QED
      BY <1>3, <3>2, <3>3, CountMoves
  <2>2. CASE ~(exch[t] < MaxExchanges)
    BY <1>3, <2>2 DEF Xadd
  <2> QED
    BY <2>1, <2>2
<1> QED
  BY <1>1, <1>2, <1>3

LEMMA InitIInv == Init => IInv
<1> SUFFICES ASSUME Init PROVE IInv
  OBVIOUS
<1> USE DEF Init, Before, During, Ended, Idle, Inside, Live, Threads, NULL
<1>1. TypeInv
  BY DEF TypeInv, Locations
<1>2. PairInv /\ PageInv /\ TurnInv /\ MeetInv
  BY DEF PairInv, PageInv, TurnInv, MeetInv
<1> QED
  BY <1>1, <1>2 DEF IInv, ExchangesAlternate, PagesOutliveTheirUse

-----------------------------------------------------------------------------
(* Types *)

LEMMA TypeStep == TypeInv /\ [Next]_vars => TypeInv'
<1> SUFFICES ASSUME TypeInv, [Next]_vars PROVE TypeInv'
  OBVIOUS
<1> USE DEF TypeInv, Locations, Ended, Before, During, Modes, pageVars, threadVars,
            mainVars, NULL
<1>1. CASE Options
  BY <1>1 DEF Options
<1>2. CASE Row
  BY <1>2 DEF Row, FirstCol
<1>3. CASE Col
  BY <1>3 DEF Col, Reset
<1>4. CASE CreateOdd \/ CreateEven
  BY <1>4 DEF CreateOdd, CreateEven, Create, Threads
<1>5. CASE Sample
  BY <1>5 DEF Sample
<1>6. CASE Finish
  <2>1. printed' \in Seq(Nat \X Nat)
    <3>1. printed' = Append(printed, <<i, j>>) \/ printed' = printed
      BY <1>6 DEF Finish
    <3>2. <<i, j>> \in Nat \X Nat /\ printed \in Seq(Nat \X Nat)
      OBVIOUS
    <3>3. Append(printed, <<i, j>>) \in Seq(Nat \X Nat)
      BY <3>2, AppendProperties
    <3> QED
      BY <3>1, <3>2, <3>3
  <2>2. j' \in Nat /\ pingpong_mutex' \in Nat
    BY <1>6 DEF Finish
  <2>3. mpc' \in {"joinodd", "joineven", "unmap", "col"}
    BY <1>6 DEF Finish
  <2> QED
    BY <1>6, <2>1, <2>2, <2>3 DEF Finish
<1>7. CASE Fail
  BY <1>7 DEF Fail
<1>8. ASSUME NEW t \in Threads, Setup(t) PROVE TypeInv'
  <2>1. pingpong_mutex' \in Nat /\ word' \in Nat
    BY <1>8, PairIsNotNull DEF Setup
  <2>2. tpc' = [tpc EXCEPT ![t] = "rendezvous"]
    BY <1>8 DEF Setup
  <2> QED
    BY <1>8, <2>1, <2>2 DEF Setup
<1>9. ASSUME NEW t \in Threads, Rendezvous(t) PROVE TypeInv'
  <2>1. wait_for_buddy' \in BOOLEAN
    BY <1>9 DEF Rendezvous
  <2>2. tpc' \in [Threads -> Locations]
    BY <1>9 DEF Rendezvous
  <2> QED
    BY <1>9, <2>1, <2>2 DEF Rendezvous
<1>10. ASSUME NEW t \in Threads, SpuriousWakeup(t) PROVE TypeInv'
  BY <1>10 DEF SpuriousWakeup
<1>11. ASSUME NEW t \in Threads, Test(t) PROVE TypeInv'
  <2>1. CASE tpc[t] = "enter"
    BY <1>11, <2>1 DEF Test
  <2>2. CASE tpc[t] = "test"
    BY <1>11, <2>2 DEF Test
  <2> QED
    BY <1>11, <2>1, <2>2 DEF Test
<1>12. ASSUME NEW t \in Threads, Xchg(t) PROVE TypeInv'
  <2>1. CASE cache[t] \in mapped
    <3>1. /\ UNCHANGED <<mpc, fn, i, j, printed, pingpong_mutex, cache,
                         wait_for_buddy, spurious>>
          /\ LockedXchg(t) \/ UnlockedLoad(t) \/ Xadd(t)
      BY <1>12, <2>1 DEF Xchg, Access
    <3> QED
      BY <3>1, LoopMoves
  <2>2. CASE cache[t] \notin mapped
    BY <1>12, <2>2 DEF Xchg, Access
  <2> QED
    BY <2>1, <2>2
<1>13. ASSUME NEW t \in Threads, UnlockedStore(t) PROVE TypeInv'
  <2>1. CASE cache[t] \in mapped
    <3>1. /\ UNCHANGED <<mpc, fn, i, j, printed, pingpong_mutex, cache,
                         wait_for_buddy, spurious>>
          /\ word' = 1 - t /\ Count(t, TRUE)
      BY <1>13, <2>1 DEF UnlockedStore, Access
    <3>2. 1 - t \in Nat
      BY DEF Threads
    <3> QED
      BY <3>1, <3>2, CountMoves
  <2>2. CASE cache[t] \notin mapped
    BY <1>13, <2>2 DEF UnlockedStore, Access
  <2> QED
    BY <2>1, <2>2
<1>14. ASSUME NEW t \in Threads, AddBatch(t) PROVE TypeInv'
  BY <1>14 DEF AddBatch
<1>15. CASE UNCHANGED vars
  BY <1>15 DEF vars
<1> QED
  BY <1>1, <1>2, <1>3, <1>4, <1>5, <1>6, <1>7, <1>8, <1>9, <1>10, <1>11, <1>12, <1>13,
     <1>14, <1>15 DEF Next, Main, Thread

-----------------------------------------------------------------------------
(* The threads of a pair, and their page *)

\* A step of a loop that is not a crash, as far as the page and the others see it.
Loops(t) ==
  /\ UNCHANGED <<mpc, fn, pingpong_mutex, mapped, cache, wait_for_buddy, spurious>>
  /\ tpc[t] \in Inside
  /\ \E l \in Inside : tpc' = [tpc EXCEPT ![t] = l]

Crash(t) ==
  /\ mpc' = "crashed" /\ cache[t] \notin mapped /\ tpc[t] \in Inside
  /\ UNCHANGED <<fn, pingpong_mutex, mapped, cache, tpc, word, exch, wait_for_buddy,
                 spurious>>

LEMMA XchgMoves ==
  ASSUME TypeInv, NEW t \in Threads, Xchg(t) \/ UnlockedStore(t) \/ AddBatch(t)
  PROVE  Loops(t) \/ Crash(t)
<1> USE DEF Loops, Crash, Inside
<1>1. CASE AddBatch(t)
  BY <1>1 DEF AddBatch, mainVars, pageVars
<1>2. CASE Xchg(t) /\ cache[t] \in mapped
  <2>1. /\ UNCHANGED <<mpc, fn, pingpong_mutex, mapped, cache, wait_for_buddy, spurious>>
        /\ tpc[t] = "xchg"
        /\ LockedXchg(t) \/ UnlockedLoad(t) \/ Xadd(t)
    BY <1>2 DEF Xchg, Access, mainVars
  <2> QED
    BY <2>1, LoopMoves
<1>3. CASE UnlockedStore(t) /\ cache[t] \in mapped
  <2>1. /\ UNCHANGED <<mpc, fn, pingpong_mutex, mapped, cache, wait_for_buddy, spurious>>
        /\ tpc[t] = "store" /\ Count(t, TRUE)
    BY <1>3 DEF UnlockedStore, Access, mainVars
  <2> QED
    BY <2>1, CountMoves
<1>4. CASE (Xchg(t) \/ UnlockedStore(t)) /\ cache[t] \notin mapped
  BY <1>4 DEF Xchg, UnlockedStore, Access, mainVars, pageVars, threadVars
<1> QED
  BY <1>1, <1>2, <1>3, <1>4

LEMMA PairStep == TypeInv /\ PairInv /\ [Next]_vars => PairInv'
<1> SUFFICES ASSUME TypeInv, PairInv, [Next]_vars PROVE PairInv'
  OBVIOUS
<1> USE DEF PairInv, Live, Ended, Before, Idle
<1>1. CASE Options \/ Row \/ Col \/ Sample
  BY <1>1 DEF Options, Row, Col, Sample, threadVars
<1>2. CASE CreateOdd \/ CreateEven
  BY <1>2 DEF CreateOdd, CreateEven, Create, TypeInv, Threads
<1>3. CASE Finish
  BY <1>3 DEF Finish, threadVars
<1>4. CASE Fail
  BY <1>4 DEF Fail
<1>5. ASSUME NEW t \in Threads, mpc' = mpc, tpc[t] \notin Idle,
             \A w \in Threads \ {t} : tpc'[w] = tpc[w] \/ tpc[w] \notin Idle
      PROVE  PairInv'
  BY <1>5 DEF Threads
<1>6. ASSUME NEW t \in Threads,
             Setup(t) \/ Rendezvous(t) \/ SpuriousWakeup(t) \/ Test(t) \/ Loops(t)
      PROVE  PairInv'
  <2>1. mpc' = mpc /\ tpc[t] \notin Idle
    BY <1>6 DEF Setup, Rendezvous, SpuriousWakeup, Test, Loops, Inside
  <2>2. \A w \in Threads \ {t} : tpc'[w] = tpc[w] \/ tpc[w] \notin Idle
    BY <1>6 DEF Setup, Rendezvous, SpuriousWakeup, Test, Loops, TypeInv
  <2> QED
    BY <1>5, <2>1, <2>2
<1>7. ASSUME NEW t \in Threads, Crash(t) PROVE PairInv'
  BY <1>7 DEF Crash
<1>8. CASE UNCHANGED vars
  BY <1>8 DEF vars, threadVars
<1> QED
  BY <1>1, <1>2, <1>3, <1>4, <1>6, <1>7, <1>8, XchgMoves DEF Next, Main, Thread

LEMMA PageStep == Shapes /\ [Next]_vars => PageInv'
<1> SUFFICES ASSUME Shapes, [Next]_vars PROVE PageInv'
  OBVIOUS
<1> USE DEF Shapes, PairInv, PageInv, Live, Ended, Before, During, Idle, pageVars, NULL
<1>1. CASE Options \/ Row \/ Col \/ Sample
  BY <1>1 DEF Options, Row, Col, Sample, threadVars
<1>2. CASE CreateOdd
  BY <1>2 DEF CreateOdd, Create, TypeInv, Threads
<1>3. CASE CreateEven
  BY <1>3 DEF CreateEven, Create, TypeInv, Threads
<1>4. CASE Finish
  BY <1>4 DEF Finish, UnmapAt, threadVars
<1>5. CASE Fail
  BY <1>5 DEF Fail
<1>6. ASSUME NEW t \in Threads, Setup(t) PROVE PageInv'
  <2>1. CASE t = 0
    <3>1. tpc[0] = "setup" /\ tpc'[0] = "rendezvous" /\ mpc' = mpc
      BY <1>6, <2>1 DEF Setup, TypeInv, Threads
    <3>2. mapped = {} /\ mapped' = mapped \union {Pair} /\ pingpong_mutex' = Pair
      BY <1>6, <2>1, <3>1 DEF Setup
    <3>3. Pair # NULL
      BY PairIsNotNull
    <3> QED
      BY <1>6, <3>1, <3>2, <3>3 DEF Setup
  <2>2. CASE t # 0
    BY <1>6, <2>2 DEF Setup, TypeInv, Threads
  <2> QED
    BY <2>1, <2>2
<1>7. ASSUME NEW t \in Threads, Rendezvous(t) \/ SpuriousWakeup(t) \/ Test(t) PROVE PageInv'
  BY <1>7 DEF Rendezvous, SpuriousWakeup, Test, TypeInv, Threads
<1>8. ASSUME NEW t \in Threads, Loops(t) \/ Crash(t) PROVE PageInv'
  BY <1>8 DEF Loops, Crash, Inside, TypeInv, Threads
<1>9. CASE UNCHANGED vars
  BY <1>9 DEF vars, threadVars
<1> QED
  BY <1>1, <1>2, <1>3, <1>4, <1>5, <1>6, <1>7, <1>8, <1>9, XchgMoves DEF Next, Main, Thread

-----------------------------------------------------------------------------
(* The rendezvous *)

LEMMA MeetStep == Shapes /\ MeetInv /\ [Next]_vars => MeetInv'
<1> SUFFICES ASSUME Shapes, MeetInv, Live', ~spurious', [Next]_vars PROVE MeetInv'
  BY DEF MeetInv
<1> USE DEF Shapes, PairInv, PageInv, MeetInv, Live, Ended, Before, During, Idle, Inside,
            NULL
<1>1. CASE Options \/ Row \/ Col \/ Sample
  BY <1>1 DEF Options, Row, Col, Sample, pageVars, threadVars
<1>2. CASE CreateOdd
  BY <1>2 DEF CreateOdd, Create, pageVars, TypeInv, Threads
<1>3. CASE CreateEven
  BY <1>3 DEF CreateEven, Create, pageVars, TypeInv, Threads
<1>4. CASE Finish
  BY <1>4 DEF Finish, UnmapAt, threadVars, Threads
<1>5. CASE Fail
  BY <1>5 DEF Fail
<1>6. ASSUME NEW t \in Threads, Setup(t) PROVE MeetInv'
  <2>1. /\ Live /\ ~spurious /\ tpc[t] = "setup" /\ tpc' = [tpc EXCEPT ![t] = "rendezvous"]
        /\ UNCHANGED <<cache, wait_for_buddy>>
        /\ t # 0 => pingpong_mutex' = pingpong_mutex
    BY <1>6 DEF Setup, pageVars
  <2>2. t = 0 => pingpong_mutex = NULL
    BY <2>1
  <2> QED
    BY <2>1, <2>2 DEF TypeInv, Threads
<1>7. ASSUME NEW t \in Threads, Rendezvous(t) PROVE MeetInv'
  <2>1. Live /\ ~spurious /\ UNCHANGED <<mpc, pingpong_mutex, cache>> /\ tpc[t] = "rendezvous"
    BY <1>7 DEF Rendezvous, pageVars
  <2>2. CASE wait_for_buddy
    BY <1>7, <2>1, <2>2 DEF Rendezvous, TypeInv, Threads
  <2>3. CASE ~wait_for_buddy
    <3>1. tpc[1 - t] = "waiting"
      BY <2>1, <2>3 DEF Threads
    <3>2. tpc[0] \in {"rendezvous", "waiting"}
      BY <2>1, <3>1 DEF Threads
    <3>3. pingpong_mutex # NULL
      BY <2>1, <3>2 DEF TypeInv
    <3>4. wait_for_buddy' /\ \A w \in Threads : tpc'[w] = "enter"
      BY <1>7, <2>1, <2>3, <3>1 DEF Rendezvous, Threads
    <3> QED
      BY <2>1, <3>3, <3>4 DEF Threads
  <2> QED
    BY <2>2, <2>3
<1>8. ASSUME NEW t \in Threads, SpuriousWakeup(t) PROVE MeetInv'
  BY <1>8 DEF SpuriousWakeup
<1>9. ASSUME NEW t \in Threads, Test(t) PROVE MeetInv'
  BY <1>9 DEF Test, pageVars, TypeInv, Threads
<1>10. ASSUME NEW t \in Threads, Loops(t) PROVE MeetInv'
  BY <1>10 DEF Loops, TypeInv, Threads
<1>11. ASSUME NEW t \in Threads, Crash(t) PROVE MeetInv'
  BY <1>11 DEF Crash
<1>12. CASE UNCHANGED vars
  BY <1>12 DEF vars, pageVars, threadVars
<1> QED
  BY <1>1, <1>2, <1>3, <1>4, <1>5, <1>6, <1>7, <1>8, <1>9, <1>10, <1>11, <1>12, XchgMoves
     DEF Next, Main, Thread

LEMMA UseStep == Shapes /\ MeetInv /\ PagesOutliveTheirUse /\ [Next]_vars
                   => PagesOutliveTheirUse'
<1> SUFFICES ASSUME Shapes, MeetInv, PagesOutliveTheirUse, [Next]_vars
             PROVE  PagesOutliveTheirUse'
  OBVIOUS
<1> USE DEF PagesOutliveTheirUse
<1>1. CASE Main
  BY <1>1 DEF Main, Options, Row, Col, CreateOdd, CreateEven, Create, Sample, Finish
<1>2. CASE Fail
  BY <1>2 DEF Fail
<1>3. ASSUME NEW t \in Threads, Setup(t) \/ Rendezvous(t) \/ SpuriousWakeup(t) \/ Test(t)
                               \/ Loops(t)
      PROVE  PagesOutliveTheirUse'
  BY <1>3 DEF Setup, Rendezvous, SpuriousWakeup, Test, Loops
<1>4. ASSUME NEW t \in Threads, Crash(t), Live PROVE PagesOutliveTheirUse'
  <2>1. ~spurious => cache[t] = pingpong_mutex /\ pingpong_mutex # NULL
    BY <1>4 DEF Crash, MeetInv
  <2>2. ~spurious => cache[t] \in mapped
    BY <1>4, <2>1 DEF Shapes, PageInv
  <2> QED
    BY <1>4, <2>2 DEF Crash
<1>5. CASE UNCHANGED vars
  BY <1>5 DEF vars, threadVars
<1>6. \A t \in Threads : Xchg(t) \/ UnlockedStore(t) \/ AddBatch(t) => Live
  BY DEF Xchg, UnlockedStore, AddBatch
<1> QED
  BY <1>1, <1>2, <1>3, <1>4, <1>5, <1>6, XchgMoves DEF Next, Thread, Shapes

-----------------------------------------------------------------------------
(* The turns *)

LEMMA TurnStep ==
  Shapes /\ TurnInv /\ ExchangesAlternate /\ [Next]_vars
    => TurnInv' /\ ExchangesAlternate'
<1> SUFFICES ASSUME Shapes, TurnInv, ExchangesAlternate, [Next]_vars
             PROVE  TurnInv' /\ ExchangesAlternate'
  OBVIOUS
<1> USE DEF Shapes, PairInv, PageInv, TurnInv, ExchangesAlternate, Live, Ended, Before,
            During, Idle, Inside, NULL
<1>1. CASE Options
  BY <1>1 DEF Options, pageVars, threadVars, Threads
<1>2. CASE Row \/ Col \/ Sample
  BY <1>2 DEF Row, Col, Sample, pageVars, threadVars, Threads
<1>3. CASE CreateOdd
  BY <1>3 DEF CreateOdd, Create, pageVars, TypeInv, Threads
<1>4. CASE CreateEven
  BY <1>4 DEF CreateEven, Create, pageVars, TypeInv, Threads
<1>5. CASE Finish
  BY <1>5 DEF Finish, UnmapAt, threadVars, Threads
<1>6. CASE Fail
  BY <1>6 DEF Fail, mainVars, pageVars, threadVars
<1>7. ASSUME NEW t \in Threads, Setup(t) PROVE TurnInv' /\ ExchangesAlternate'
  <2>1. /\ Live /\ tpc[t] = "setup" /\ tpc' = [tpc EXCEPT ![t] = "rendezvous"]
        /\ UNCHANGED <<mpc, fn, exch>>
    BY <1>7 DEF Setup, mainVars
  <2>2. CASE t = 0
    <3>1. /\ pingpong_mutex = NULL /\ exch[0] = 0 /\ exch[1] = 0 /\ word' = 0
          /\ pingpong_mutex' = Pair
      BY <1>7, <2>1, <2>2 DEF Setup
    <3>2. \A w \in Threads : tpc'[w] # "store"
      BY <2>1, <3>1 DEF TypeInv
    <3> QED
      BY <2>1, <3>1, <3>2, PairIsNotNull
  <2>3. CASE t # 0
    <3>1. UNCHANGED <<pingpong_mutex, word>>
      BY <1>7, <2>3 DEF Setup, pageVars
    <3> QED
      BY <2>1, <3>1 DEF TypeInv, Threads
  <2> QED
    BY <2>2, <2>3
<1>8. ASSUME NEW t \in Threads, Rendezvous(t) \/ SpuriousWakeup(t) \/ Test(t) \/ AddBatch(t)
      PROVE  TurnInv' /\ ExchangesAlternate'
  BY <1>8 DEF Rendezvous, SpuriousWakeup, Test, AddBatch, mainVars, pageVars, TypeInv,
              Threads
<1>9. ASSUME NEW t \in Threads, Xchg(t) PROVE TurnInv' /\ ExchangesAlternate'
  <2>1. CASE cache[t] \notin mapped
    BY <1>9, <2>1 DEF Xchg, Access, mainVars, pageVars, threadVars
  <2>2. CASE cache[t] \in mapped
    <3>1. /\ UNCHANGED <<mpc, fn, pingpong_mutex>>
          /\ Live /\ tpc[t] = "xchg" /\ pingpong_mutex # NULL
          /\ \/ fn = "locked" /\ LockedXchg(t)
             \/ fn = "unlocked" /\ UnlockedLoad(t)
             \/ fn = "xadd" /\ Xadd(t)
      BY <1>9, <2>2 DEF Xchg, Access, mainVars
    <3>2. CASE fn = "locked"
      <4>1. LockedXchg(t) /\ \A w \in Threads : tpc[w] # "store"
        BY <3>1, <3>2
      <4>2. \/ UNCHANGED <<word, exch>> /\ tpc' = [tpc EXCEPT ![t] = "test"]
            \/ /\ exch' = [exch EXCEPT ![t] = exch[t] + 1] /\ word = t /\ word' = 1 - t
               /\ tpc' = [tpc EXCEPT ![t] = "add"] \/ tpc' = [tpc EXCEPT ![t] = "test"]
        BY <4>1, LockedMoves
      <4> QED
        BY <3>1, <3>2, <4>1, <4>2 DEF TypeInv, Threads
    <3>3. CASE fn = "unlocked"
      <4>1. UNCHANGED <<word, exch>>
            /\ \/ tpc' = [tpc EXCEPT ![t] = "test"]
               \/ word = t /\ tpc' = [tpc EXCEPT ![t] = "store"]
        BY <3>1, <3>3 DEF UnlockedLoad, MayPass
      <4> QED
        BY <3>1, <3>3, <4>1 DEF TypeInv, Threads
    <3>4. CASE fn = "xadd"
      <4>1. \E l \in {"add", "test"} : tpc' = [tpc EXCEPT ![t] = l]
        BY <3>1, <3>4 DEF Xadd, Count
      <4> QED
        BY <3>1, <3>4, <4>1 DEF TypeInv, Threads
    <3> QED
      BY <3>1, <3>2, <3>3, <3>4
  <2> QED
    BY <2>1, <2>2
<1>10. ASSUME NEW t \in Threads, UnlockedStore(t) PROVE TurnInv' /\ ExchangesAlternate'
  <2>1. CASE cache[t] \notin mapped
    BY <1>10, <2>1 DEF UnlockedStore, Access, mainVars, pageVars, threadVars
  <2>2. CASE cache[t] \in mapped
    <3>1. /\ UNCHANGED <<mpc, fn, pingpong_mutex>>
          /\ Live /\ tpc[t] = "store" /\ word' = 1 - t /\ Count(t, TRUE)
      BY <1>10, <2>2 DEF UnlockedStore, Access, mainVars
    <3>2. /\ fn = "unlocked" /\ pingpong_mutex # NULL /\ word = t
          /\ \A w \in Threads : tpc[w] = "store" => w = t
      BY <3>1
    <3>3. /\ exch' = [exch EXCEPT ![t] = exch[t] + 1]
          /\ tpc' = [tpc EXCEPT ![t] = "add"] \/ tpc' = [tpc EXCEPT ![t] = "test"]
      BY <3>1, CountMoves
    <3> QED
      BY <3>1, <3>2, <3>3 DEF TypeInv, Threads
  <2> QED
    BY <2>1, <2>2
<1>11. CASE UNCHANGED vars
  BY <1>11 DEF vars, mainVars, pageVars, threadVars
<1> QED
  BY <1>1, <1>2, <1>3, <1>4, <1>5, <1>6, <1>7, <1>8, <1>9, <1>10, <1>11
     DEF Next, Main, Thread

-----------------------------------------------------------------------------
(* The counters *)

\* An exchange, by what it does to the counters and the location.
LEMMA CountEffect ==
  ASSUME TypeInv, BoundInv, NEW t \in Threads, NEW counts \in BOOLEAN, Count(t, counts)
  PROVE  /\ exch' = [exch EXCEPT ![t] = exch[t] + 1]
         /\ nr' = [nr EXCEPT ![t] = IF counts THEN nr[t] + 1 ELSE nr[t]]
         /\ tpc' = [tpc EXCEPT ![t] =
              IF counts /\ nr[t] + 1 = Batch /\ t = (IF fn = "xadd" THEN 1 ELSE 0)
              THEN "add" ELSE "test"]
<1>1. /\ nr' = [nr EXCEPT ![t] = IF counts THEN nr[t] + 1 ELSE nr[t]]
      /\ exch' = [exch EXCEPT ![t] = exch[t] + 1]
  BY DEF Count
<1>2. CASE counts
  BY <1>1, <1>2 DEF Count, BatchDone
<1>3. CASE ~counts
  BY <1>1, <1>3 DEF Count
<1> QED
  BY <1>1, <1>2, <1>3

LEMMA CountMainStep ==
  ASSUME Assumptions, Shapes, TurnInv, BoundInv, CountInv, Main \/ Fail \/ UNCHANGED vars
  PROVE  BoundInv' /\ CountInv'
<1> USE DEF Shapes, TypeInv, PairInv, PageInv, TurnInv, BoundInv, CountInv, Live, Ended,
            Before,
            During, Idle, Inside, NULL, Assumptions, Threads
<1>1. CASE Options
  BY <1>1 DEF Options, pageVars, threadVars
<1>2. CASE Row
  BY <1>2 DEF Row, pageVars, threadVars
<1>3. CASE Col
  BY <1>3 DEF Col, Reset, pageVars, threadVars
<1>4. CASE CreateOdd
  BY <1>4 DEF CreateOdd, Create, pageVars
<1>5. CASE CreateEven
  BY <1>5 DEF CreateEven, Create, pageVars
<1>6. CASE Sample
  BY <1>6 DEF Sample, Rest, pageVars, threadVars
<1>7. CASE Finish
  BY <1>7 DEF Finish, UnmapAt, StopAt, threadVars
<1>8. CASE Fail
  BY <1>8 DEF Fail, mainVars, pageVars, threadVars
<1>9. CASE UNCHANGED vars
  BY <1>9 DEF vars, mainVars, pageVars, threadVars
<1> QED
  BY <1>1, <1>2, <1>3, <1>4, <1>5, <1>6, <1>7, <1>8, <1>9 DEF Main

\* The steps of the threads that touch no counter.
LEMMA CountQuietStep ==
  ASSUME Assumptions, Shapes, TurnInv, BoundInv, CountInv, NEW t \in Threads,
         Setup(t) \/ Rendezvous(t) \/ SpuriousWakeup(t) \/ Test(t)
  PROVE  BoundInv' /\ CountInv'
<1> USE DEF Shapes, TypeInv, PairInv, PageInv, TurnInv, BoundInv, CountInv, Live, Ended,
            Before,
            During, Idle, Inside, NULL, Assumptions, Threads
<1>1. CASE Setup(t)
  <2>1. CASE t = 0
    BY <1>1, <2>1 DEF Setup, mainVars
  <2>2. CASE t = 1
    BY <1>1, <2>2 DEF Setup, mainVars, pageVars
  <2> QED
    BY <2>1, <2>2
<1>2. CASE Rendezvous(t)
  BY <1>2 DEF Rendezvous, mainVars, pageVars
<1>3. CASE SpuriousWakeup(t)
  BY <1>3 DEF SpuriousWakeup, mainVars, pageVars
<1>4. CASE Test(t)
  BY <1>4 DEF Test, mainVars, pageVars
<1> QED
  BY <1>1, <1>2, <1>3, <1>4

\* A thread that passes through its loop to a page that exists: main is sampling or
\* joining, and the even thread has set up the page.
LEMMA PassingThread ==
  ASSUME Shapes, BoundInv, Live, NEW t \in Threads, cache[t] \in mapped, tpc[t] \in Inside
  PROVE  /\ mpc \in During /\ tpc[0] # "setup" /\ pingpong_mutex # NULL
         /\ tpc \in [Threads -> Locations]
         /\ nr \in [Threads -> 0..MaxExchanges] /\ exch \in [Threads -> 0..MaxExchanges]
  BY DEF Shapes, TypeInv, PageInv, BoundInv, Live, Ended, Before, During, NULL

\* An exchange of the locked or the unlocked loop.
LEMMA CountTurnStep ==
  ASSUME Assumptions, Shapes, TurnInv, BoundInv, CountInv, Live, fn # "xadd",
         NEW t \in Threads, tpc[t] \in {"xchg", "store"}, cache[t] \in mapped,
         exch[t] < MaxExchanges, word' = 1 - t, Count(t, TRUE),
         UNCHANGED <<mpc, fn, sample_no, taken, stop_loops, nr_pingpongs, last_lo, cache>>
  PROVE  BoundInv' /\ CountInv'
<1>1. /\ exch' = [exch EXCEPT ![t] = exch[t] + 1]
      /\ nr' = [nr EXCEPT ![t] = nr[t] + 1]
      /\ tpc' = [tpc EXCEPT ![t] = IF nr[t] + 1 = Batch /\ t = 0 THEN "add" ELSE "test"]
  BY CountEffect DEF Shapes
<1>2. /\ mpc \in During /\ tpc[0] # "setup" /\ tpc \in [Threads -> Locations]
      /\ nr \in [Threads -> 0..MaxExchanges] /\ exch \in [Threads -> 0..MaxExchanges]
  BY PassingThread DEF Inside
<1>3. /\ \A v \in Threads : nr[v] <= exch[v]
      /\ taken + nr_pingpongs + 2 * nr[0] = 2 * exch[0]
      /\ nr[0] <= Batch /\ (tpc[0] # "add" => nr[0] < Batch) /\ tpc[1] # "add"
  BY <1>2 DEF CountInv
<1>4. /\ exch'[t] = exch[t] + 1 /\ exch'[1 - t] = exch[1 - t]
      /\ nr'[t] = nr[t] + 1 /\ nr'[1 - t] = nr[1 - t]
      /\ tpc'[t] = (IF nr[t] + 1 = Batch /\ t = 0 THEN "add" ELSE "test")
      /\ tpc'[1 - t] = tpc[1 - t]
  BY <1>1, <1>2 DEF Threads
<1>5. exch[t] + 1 \in 0..MaxExchanges /\ nr[t] + 1 \in 0..MaxExchanges
  BY <1>2, <1>3 DEF Assumptions
<1>6. BoundInv'
  <2>1. nr' \in [Threads -> 0..MaxExchanges] /\ exch' \in [Threads -> 0..MaxExchanges]
    BY <1>1, <1>2, <1>5
  <2>2. word' <= MaxExchanges + 1
    BY DEF Threads, Assumptions
  <2>3. \A v \in Threads : tpc'[v] = "store" => exch'[v] < MaxExchanges
    BY <1>4 DEF BoundInv, Threads
  <2> QED
    BY <2>1, <2>2, <2>3 DEF BoundInv
<1>7. CountInv'
  <2>1. CASE t = 0
    <3>1. nr[0] \in Nat /\ exch[0] \in Nat /\ taken \in Nat /\ nr_pingpongs \in Nat
      BY <1>2 DEF BoundInv, Threads
    <3>2. \A v \in Threads : nr'[v] <= exch'[v]
      BY <1>3, <1>4, <2>1, <3>1 DEF Threads
    <3>3. taken + nr_pingpongs + 2 * nr'[0] = 2 * exch'[0]
      BY <1>3, <1>4, <2>1, <3>1
    <3>4. nr'[0] <= Batch /\ (tpc'[0] # "add" => nr'[0] < Batch) /\ tpc'[1] # "add"
      BY <1>3, <1>4, <2>1, <3>1 DEF Assumptions, Threads
    <3>5. mpc' \in During /\ tpc'[0] # "setup" /\ word' \in {0, 1} /\ fn' # "xadd"
      BY <1>2, <1>4, <2>1
    <3> QED
      BY <3>2, <3>3, <3>4, <3>5 DEF CountInv, During
  <2>2. CASE t = 1
    <3>1. nr[1] \in Nat /\ exch[1] \in Nat /\ taken \in Nat /\ nr_pingpongs \in Nat
      BY <1>2 DEF BoundInv, Threads
    <3>2. \A v \in Threads : nr'[v] <= exch'[v]
      BY <1>3, <1>4, <2>2, <3>1 DEF Threads
    <3>3. /\ mpc' \in During /\ tpc'[0] # "setup" /\ word' \in {0, 1} /\ fn' # "xadd"
          /\ nr'[0] = nr[0] /\ exch'[0] = exch[0] /\ tpc'[0] = tpc[0] /\ tpc'[1] = "test"
      BY <1>2, <1>4, <2>2
    <3> QED
      BY <1>3, <3>2, <3>3 DEF CountInv, During
  <2> QED
    BY <2>1, <2>2 DEF Threads
<1> QED
  BY <1>6, <1>7

\* And of the third one.
LEMMA CountXaddStep ==
  ASSUME Assumptions, Shapes, TurnInv, BoundInv, CountInv, Live, fn = "xadd",
         NEW t \in Threads, tpc[t] = "xchg", cache[t] \in mapped, Xadd(t),
         last_lo' = IF t = 1 THEN word ELSE last_lo,
         UNCHANGED <<mpc, fn, sample_no, taken, stop_loops, nr_pingpongs, cache>>
  PROVE  BoundInv' /\ CountInv'
<1>1. /\ mpc \in During /\ tpc[0] # "setup" /\ tpc \in [Threads -> Locations]
      /\ nr \in [Threads -> 0..MaxExchanges] /\ exch \in [Threads -> 0..MaxExchanges]
  BY PassingThread DEF Inside
<1>2. /\ \A v \in Threads : nr[v] <= exch[v]
      /\ taken + nr_pingpongs + 2 * nr[1] <= 2 * exch[1]
      /\ taken + nr_pingpongs + 2 * nr[1] <= 2 * last_lo
      /\ tpc[0] # "add" /\ word = exch[0] /\ last_lo <= word
  BY <1>1 DEF CountInv
<1>3. /\ taken \in Nat /\ nr_pingpongs \in Nat /\ last_lo \in Nat /\ MaxExchanges \in Nat
      /\ \A v \in Threads : nr[v] \in Nat /\ exch[v] \in Nat /\ exch[v] <= MaxExchanges
  BY <1>1 DEF BoundInv, Assumptions
<1>4. CASE exch[t] < MaxExchanges
  <2> DEFINE counts == t = 1 /\ last_lo # word
             n == IF counts THEN nr[t] + 1 ELSE nr[t]
  <2>1. counts \in BOOLEAN /\ Count(t, counts) /\ word' = IF t = 0 THEN word + 1 ELSE word
    BY <1>4 DEF Xadd
  <2>2. t # 1 => ~counts
    OBVIOUS
  <2>3. counts => last_lo + 1 <= word
    <3>1. word \in Nat
      BY <1>2, <1>3 DEF Threads
    <3> QED
      BY <1>2, <1>3, <3>1
  <2>4. t = 1 /\ ~counts => last_lo = word
    OBVIOUS
  <2> HIDE DEF counts
  <2>5. /\ exch' = [exch EXCEPT ![t] = exch[t] + 1] /\ nr' = [nr EXCEPT ![t] = n]
        /\ tpc' = [tpc EXCEPT ![t] = IF counts /\ nr[t] + 1 = Batch /\ t = 1
                                   THEN "add" ELSE "test"]
    BY <2>1, CountEffect DEF Shapes
  <2>6. n \in 0..MaxExchanges /\ exch[t] + 1 \in 0..MaxExchanges
    BY <1>2, <1>3, <1>4
  <2>7. nr' \in [Threads -> 0..MaxExchanges] /\ exch' \in [Threads -> 0..MaxExchanges]
    BY <1>1, <2>5, <2>6
  <2>8. /\ exch'[t] = exch[t] + 1 /\ exch'[1 - t] = exch[1 - t]
        /\ nr'[t] = n /\ nr'[1 - t] = nr[1 - t]
        /\ tpc'[t] \in {"add", "test"} /\ (t = 0 => tpc'[t] = "test") /\ tpc'[1 - t] = tpc[1 - t]
    BY <1>1, <2>5 DEF Threads
  <2>9. BoundInv'
    <3>1. word' <= MaxExchanges + 1 /\ last_lo' \in 0..MaxExchanges
      BY <1>2, <1>3, <2>1 DEF Threads
    <3>2. \A v \in Threads : tpc'[v] = "store" => exch'[v] < MaxExchanges
      BY <2>8 DEF BoundInv, Threads
    <3> QED
      BY <2>7, <3>1, <3>2 DEF BoundInv
  <2>10. \A v \in Threads : nr'[v] <= exch'[v]
    BY <1>2, <1>3, <2>8 DEF Threads
  <2>11. CASE t = 0
    <3>1. nr'[1] = nr[1] /\ exch'[1] = exch[1] /\ last_lo' = last_lo
          /\ word' = exch'[0] /\ last_lo <= word' /\ tpc'[0] = "test"
      BY <1>2, <1>3, <2>1, <2>8, <2>11 DEF Threads
    <3> QED
      BY <1>1, <1>2, <2>9, <2>10, <3>1 DEF CountInv, During
  <2>12. CASE t = 1
    <3>1. nr'[1] = n /\ exch'[1] = exch[1] + 1 /\ last_lo' = word /\ word' = word
          /\ exch'[0] = exch[0] /\ tpc'[0] = tpc[0]
      BY <2>1, <2>8, <2>12
    <3>2. taken + nr_pingpongs + 2 * n <= 2 * (exch[1] + 1)
      BY <1>2, <1>3, <2>12 DEF Threads
    <3>3. taken + nr_pingpongs + 2 * n <= 2 * word
      BY <1>2, <1>3, <2>3, <2>12 DEF Threads
    <3>4. word <= word'
      BY <1>2, <1>3, <3>1 DEF Threads
    <3> QED
      BY <1>1, <1>2, <2>9, <2>10, <3>1, <3>2, <3>3, <3>4 DEF CountInv, During
  <2> QED
    BY <2>9, <2>11, <2>12 DEF Threads
<1>5. CASE ~(exch[t] < MaxExchanges)
  <2>1. tpc' = [tpc EXCEPT ![t] = "test"] /\ UNCHANGED <<word, nr, exch>>
    BY <1>5 DEF Xadd
  <2>2. last_lo' \in 0..MaxExchanges /\ last_lo' <= word /\ last_lo <= last_lo'
    BY <1>2, <1>3 DEF Threads
  <2>3. BoundInv'
    BY <1>1, <2>1, <2>2 DEF BoundInv
  <2>4. taken + nr_pingpongs + 2 * nr[1] <= 2 * last_lo'
    BY <1>2, <1>3, <2>2 DEF Threads
  <2>5. tpc'[0] \notin {"setup", "add"}
    BY <1>1, <1>2, <2>1
  <2> QED
    BY <1>1, <1>2, <2>1, <2>2, <2>3, <2>4, <2>5 DEF CountInv, During
<1> QED
  BY <1>4, <1>5

LEMMA CountLoopStep ==
  ASSUME Assumptions, Shapes, TurnInv, BoundInv, CountInv, NEW t \in Threads,
         Xchg(t) \/ UnlockedStore(t) \/ AddBatch(t)
  PROVE  BoundInv' /\ CountInv'
<1>1. CASE AddBatch(t)
  <2>1. /\ Live /\ nr_pingpongs' = nr_pingpongs + 2 * nr[t] /\ tpc[t] = "add"
        /\ nr' = [nr EXCEPT ![t] = 0] /\ tpc' = [tpc EXCEPT ![t] = "test"]
        /\ UNCHANGED <<mpc, fn, sample_no, taken, stop_loops, word, cache, last_lo, exch>>
    BY <1>1 DEF AddBatch, mainVars, pageVars
  <2>2. /\ tpc \in [Threads -> Locations] /\ t \in {0, 1}
        /\ nr \in [Threads -> 0..MaxExchanges] /\ exch \in [Threads -> 0..MaxExchanges]
        /\ \A v \in Threads : nr[v] \in Nat /\ exch[v] \in Nat /\ exch[v] <= MaxExchanges
        /\ taken \in Nat /\ nr_pingpongs \in Nat /\ last_lo \in Nat /\ MaxExchanges \in Nat
    BY DEF Shapes, TypeInv, BoundInv, Assumptions, Threads
  <2>3. mpc \in During
    BY <2>1 DEF Shapes, TypeInv, PairInv, CountInv, Live, Ended, Before, During, Idle,
       Inside, Threads
  <2>4. t = (IF fn = "xadd" THEN 1 ELSE 0) /\ taken + nr_pingpongs + 2 * nr[t] <= 2 * exch[t]
    BY <2>1, <2>2, <2>3 DEF CountInv, Threads
  <2>5. /\ nr'[t] = 0 /\ tpc'[t] = "test" /\ nr'[1 - t] = nr[1 - t] /\ tpc'[1 - t] = tpc[1 - t]
        /\ nr' \in [Threads -> 0..MaxExchanges]
    BY <2>1, <2>2 DEF Threads
  <2>6. BoundInv'
    <3>1. nr_pingpongs' \in Nat /\ taken + nr_pingpongs' <= 2 * MaxExchanges
      BY <2>1, <2>2, <2>4
    <3>2. \A v \in Threads : tpc'[v] = "store" => exch[v] < MaxExchanges
      BY <2>5 DEF BoundInv, Threads
    <3> QED
      BY <2>1, <2>5, <3>1, <3>2 DEF BoundInv
  <2>7. \A v \in Threads : nr'[v] <= exch[v]
    BY <2>1, <2>2, <2>3, <2>5 DEF CountInv, Threads
  <2>8. taken + nr_pingpongs' + 2 * nr'[t] = taken + nr_pingpongs + 2 * nr[t]
    BY <2>1, <2>2, <2>5
  <2>9. CASE fn = "xadd"
    <3>1. t = 1 /\ nr'[0] = nr[0] /\ tpc'[0] = tpc[0]
      BY <2>4, <2>5, <2>9
    <3> QED
      BY <2>1, <2>3, <2>6, <2>7, <2>8, <2>9, <3>1 DEF CountInv, During
  <2>10. CASE fn # "xadd"
    <3>1. t = 0 /\ nr'[1] = nr[1] /\ tpc'[1] = tpc[1]
      BY <2>4, <2>5, <2>10
    <3>2. nr'[0] < Batch /\ nr'[0] <= Batch
      BY <2>5, <3>1 DEF Assumptions
    <3> QED
      BY <2>1, <2>3, <2>5, <2>6, <2>7, <2>8, <2>10, <3>1, <3>2 DEF CountInv, During
  <2> QED
    BY <2>6, <2>9, <2>10
<1>2. CASE (Xchg(t) \/ UnlockedStore(t)) /\ cache[t] \notin mapped
  BY <1>2 DEF Xchg, UnlockedStore, Access, mainVars, pageVars, threadVars, BoundInv,
     CountInv, Live, Ended
<1>3. CASE UnlockedStore(t) /\ cache[t] \in mapped
  <2>1. /\ Live /\ tpc[t] = "store" /\ word' = 1 - t /\ Count(t, TRUE)
        /\ UNCHANGED <<mpc, fn, sample_no, taken, stop_loops, nr_pingpongs, last_lo, cache>>
    BY <1>3 DEF UnlockedStore, Access, mainVars
  <2>2. fn # "xadd" /\ exch[t] < MaxExchanges
    BY <2>1 DEF TurnInv, BoundInv
  <2> QED
    BY <1>3, <2>1, <2>2, CountTurnStep
<1>4. CASE Xchg(t) /\ cache[t] \in mapped
  <2>1. /\ Live /\ tpc[t] = "xchg" /\ cache[t] \in mapped
        /\ \/ fn = "locked" /\ LockedXchg(t)
           \/ fn = "unlocked" /\ UnlockedLoad(t)
           \/ fn = "xadd" /\ Xadd(t)
        /\ last_lo' = IF fn = "xadd" /\ t = 1 THEN word ELSE last_lo
        /\ UNCHANGED <<mpc, fn, sample_no, taken, stop_loops, nr_pingpongs, cache>>
    BY <1>4 DEF Xchg, Access, mainVars
  <2>2. CASE fn = "xadd"
    BY <2>1, <2>2, CountXaddStep
  <2>3. CASE fn # "xadd" /\ ~(UNCHANGED <<word, nr, exch>>)
    <3>1. exch[t] < MaxExchanges /\ word' = 1 - t /\ Count(t, TRUE)
      BY <2>1, <2>3 DEF LockedXchg, UnlockedLoad
    <3> QED
      BY <2>1, <2>3, <3>1, CountTurnStep
  <2>4. CASE fn # "xadd" /\ UNCHANGED <<word, nr, exch>>
    <3>1. tpc' = [tpc EXCEPT ![t] = "test"]
            \/ (exch[t] < MaxExchanges /\ tpc' = [tpc EXCEPT ![t] = "store"])
      <4>1. CASE UnlockedLoad(t)
        BY <4>1 DEF UnlockedLoad
      <4>2. CASE LockedXchg(t)
        <5>1. ~(MayPass(t) /\ exch[t] < MaxExchanges)
          BY <2>4, <4>2 DEF LockedXchg, Count, Threads, MayPass
        <5> QED
          BY <4>2, <5>1 DEF LockedXchg
      <4> QED
        BY <2>1, <2>4, <4>1, <4>2
    <3> QED
      BY <2>1, <2>4, <3>1
        DEF Shapes, TypeInv, PairInv, PageInv, TurnInv, BoundInv, CountInv, Live, Ended,
            Before,
            During, Idle, Inside, NULL, Assumptions, Threads
  <2> QED
    BY <2>2, <2>3, <2>4
<1> QED
  BY <1>1, <1>2, <1>3, <1>4 DEF Xchg, UnlockedStore

LEMMA CountStep ==
  ASSUME Assumptions, Shapes, TurnInv, BoundInv, CountInv, [Next]_vars
  PROVE  BoundInv' /\ CountInv'
  BY CountMainStep, CountQuietStep, CountLoopStep DEF Next, Thread

-----------------------------------------------------------------------------
(* The loops over the cpus *)

\* A finite set of numbers that is not empty has a greatest element: of the subsets
\* without one, a least one would still have none without one of its elements.
LEMMA GreatestElement ==
  ASSUME NEW S \in SUBSET Nat, IsFiniteSet(S), S # {}
  PROVE  \E m \in S : \A x \in S : x <= m
<1> DEFINE Bad == {T \in FiniteSubsetsOf(S) : T # {} /\ ~ \E m \in T : \A x \in T : x <= m}
<1>1. SUFFICES ASSUME Bad # {} PROVE FALSE
  BY DEF FiniteSubsetsOf
<1>2. PICK T \in Bad : \A U \in Bad : <<U, T>> \notin StrictSubsetOrdering(S)
  <2>1. Bad \subseteq FiniteSubsetsOf(S)
    OBVIOUS
  <2> HIDE DEF Bad
  <2> QED
    BY <1>1, <2>1, FS_StrictSubsetOrderingWellFounded, WFMin
<1>3. PICK x \in T : TRUE
  OBVIOUS
<1> DEFINE U == T \ {x}
<1>4. U \in FiniteSubsetsOf(S) /\ <<U, T>> \in StrictSubsetOrdering(S)
  BY <1>3, FS_RemoveElement DEF FiniteSubsetsOf, StrictSubsetOrdering
<1>5. U # {}
  <2>1. T \subseteq Nat
    BY DEF FiniteSubsetsOf
  <2>2. CASE U = {}
    <3>1. \A y \in T : y <= x
      BY <1>3, <2>1, <2>2
    <3> QED
      BY <1>3, <3>1
  <2> QED
    BY <2>2
<1>6. PICK m \in U : \A y \in U : y <= m
  BY <1>2, <1>4, <1>5
<1>7. T \subseteq Nat
  BY DEF FiniteSubsetsOf
<1>8. CASE x <= m
  BY <1>3, <1>6, <1>7, <1>8
<1>9. CASE m < x
  <2>1. \A y \in T : y <= x
    BY <1>3, <1>6, <1>7, <1>9
  <2> QED
    BY <1>3, <2>1
<1> QED
  BY <1>3, <1>6, <1>7, <1>8, <1>9

LEMMA LastIsGreatest == Assumptions => Last \in Cpus /\ Last \in Nat /\ \A d \in Cpus : d <= Last
<1> SUFFICES ASSUME Assumptions PROVE Last \in Cpus /\ \A d \in Cpus : d <= Last
  BY DEF Assumptions
<1>1. \E m \in Cpus : \A x \in Cpus : x <= m
  BY GreatestElement DEF Assumptions
<1> QED
  BY <1>1 DEF Last

LEMMA BelowGrows ==
  ASSUME Assumptions, NEW c \in Nat
  PROVE  /\ Cardinality(Below(c)) \in 0..Cardinality(Cpus) /\ Cardinality(Cpus) \in Nat
         /\ c \notin Cpus => Cardinality(Below(c + 1)) = Cardinality(Below(c))
         /\ c \in Cpus => /\ Cardinality(Below(c + 1)) = Cardinality(Below(c)) + 1
                          /\ Cardinality(Below(c)) + 1 <= Cardinality(Cpus)
<1>1. IsFiniteSet(Cpus) /\ Cpus \subseteq Nat /\ Cardinality(Cpus) \in Nat
  BY FS_CardinalityType DEF Assumptions
<1>2. \A e \in Nat : /\ IsFiniteSet(Below(e)) /\ Cardinality(Below(e)) \in Nat
                     /\ Cardinality(Below(e)) <= Cardinality(Cpus)
  <2> TAKE e \in Nat
  <2>1. Below(e) \in SUBSET Cpus
    BY DEF Below
  <2> QED
    BY <1>1, <2>1, FS_Subset, FS_CardinalityType
<1>5. \A d \in Cpus : d < c + 1 <=> d < c \/ d = c
  BY <1>1
<1>3. CASE c \notin Cpus
  <2>1. Below(c + 1) = Below(c)
    BY <1>3, <1>5, Zenon DEF Below
  <2> QED
    BY <1>1, <1>2, <1>3, <2>1
<1>4. CASE c \in Cpus
  <2>1. Below(c + 1) = Below(c) \cup {c} /\ c \notin Below(c)
    <3>1. ~(c < c)
      OBVIOUS
    <3> QED
      BY <1>4, <1>5, <3>1, Zenon DEF Below
  <2>2. Cardinality(Below(c + 1)) = Cardinality(Below(c)) + 1
    BY <1>2, <2>1, FS_AddElement
  <2>3. Cardinality(Below(c + 1)) <= Cardinality(Cpus)
    BY <1>2
  <2> QED
    BY <1>1, <1>2, <1>4, <2>2, <2>3
<1> QED
  BY <1>3, <1>4

\* A step that leaves the loops of main alone keeps the place; what it may do to the
\* pages is said of the page and the copies of its pointer.
LEMMA PlaceKept ==
  ASSUME TypeInv, PlaceInv, UNCHANGED mainVars, mpc' \in {mpc, "failed", "crashed"},
         mapped' \subseteq {Pair, Len(printed)},
         mpc = "sample" => mapped' \subseteq {Pair},
         pingpong_mutex' \in {NULL} \union mapped', cache' \in [Threads -> 0..Pair]
  PROVE  PlaceInv'
  BY DEF PlaceInv, mainVars, Live, Ended, TestedCpus, Pair

LEMMA PlaceMainStep ==
  ASSUME Assumptions, Shapes, PlaceInv, Main
  PROVE  PlaceInv'
<1> USE DEF pageVars, threadVars
<1>1. /\ i \in Nat /\ j \in Nat /\ core \in Nat /\ Last \in Cpus /\ Last \in Nat
      /\ Cpus \subseteq Nat /\ \A d \in Cpus : d <= Last
      /\ Cardinality(Cpus) \in Nat /\ tpc \in [Threads -> Locations]
  BY LastIsGreatest, FS_CardinalityType DEF Assumptions, Shapes, TypeInv, PlaceInv
<1>2. ASSUME UNCHANGED <<i, j, core, nr_tested_cores, printed>>, UNCHANGED pageVars,
             cache' \in [Threads -> 0..Pair], Live,
             \/ mpc = "odd" /\ mpc' = "even"
             \/ mpc = "even" /\ mpc' = "sample"
             \/ mpc = "sample" /\ mpc' = "sample"
      PROVE  PlaceInv'
  <2>1. mpc = "even" => mapped = {}
    BY <1>2 DEF Shapes, PageInv, Live
  <2> QED
    BY <1>2, <2>1 DEF PlaceInv, Live, Ended, TestedCpus, Pair
<1>3. CASE Options
  <2>1. /\ UNCHANGED <<i, j, core, printed, cache>> /\ UNCHANGED pageVars
        /\ mpc = "options" /\ mpc' \in {"options", "failed", "row"}
        /\ nr_tested_cores' \in TestedCores \union {nr_tested_cores}
    BY <1>3 DEF Options
  <2> QED
    BY <2>1 DEF PlaceInv, Live, Ended, Pair
<1>4. CASE Row
  <2>1. /\ UNCHANGED <<nr_tested_cores, printed, cache>> /\ UNCHANGED pageVars
        /\ mpc = "row" /\ Live /\ core = Cardinality(Below(i))
    BY <1>4 DEF Row, PlaceInv, Live, Ended
  <2>2. CASE ~(i < Last /\ core < nr_tested_cores)
    BY <1>4, <2>1, <2>2 DEF Row, PlaceInv, Live, Ended, Pair
  <2>3. CASE i < Last /\ core < nr_tested_cores /\ i \in Cpus
    <3>1. mpc' = "col" /\ core' = core + 1 /\ j' = i + 1 /\ i' = i
      BY <1>4, <2>1, <2>3 DEF Row, FirstCol
    <3>2. i \in TestedCpus
      BY <2>1, <2>3 DEF TestedCpus
    <3>3. core' \in 0..Cardinality(Cpus) /\ j' <= Last + 1 /\ i < j'
      BY <1>1, <2>1, <2>3, <3>1, BelowGrows
    <3> QED
      BY <2>1, <2>3, <3>1, <3>2, <3>3 DEF PlaceInv, Live, Ended, Pair, TestedCpus
  <2>4. CASE i < Last /\ core < nr_tested_cores /\ i \notin Cpus
    <3>1. mpc' = "row" /\ core' = core /\ j' = j /\ i' = i + 1
      BY <1>4, <2>1, <2>4 DEF Row
    <3>2. core = Cardinality(Below(i + 1)) /\ i + 1 <= Last
      BY <1>1, <2>1, <2>4, BelowGrows
    <3> QED
      BY <2>1, <2>4, <3>1, <3>2 DEF PlaceInv, Live, Ended, Pair
  <2> QED
    BY <2>2, <2>3, <2>4
<1>5. CASE Col
  <2>1. /\ UNCHANGED <<nr_tested_cores, printed, cache, core>> /\ UNCHANGED pageVars
        /\ mpc = "col" /\ Live /\ i \in Cpus /\ i < Last /\ i < j /\ i \in TestedCpus
        /\ core = Cardinality(Below(i)) + 1
    BY <1>5 DEF Col, PlaceInv, Live, Ended
  <2>2. CASE j \in Cpus
    BY <1>5, <2>1, <2>2 DEF Col, PlaceInv, Live, Ended, Pair, TestedCpus
  <2>3. CASE j \notin Cpus /\ j <= Last
    <3>1. mpc' = "col" /\ i' = i /\ j' = j + 1 /\ j' <= Last + 1 /\ i < j'
      BY <1>1, <1>5, <2>1, <2>3 DEF Col
    <3> QED
      BY <2>1, <2>3, <3>1 DEF PlaceInv, Live, Ended, Pair, TestedCpus
  <2>4. CASE j \notin Cpus /\ ~(j <= Last)
    <3>1. mpc' = "row" /\ i' = i + 1 /\ j' = j
      BY <1>5, <2>1, <2>4 DEF Col
    <3>2. core = Cardinality(Below(i + 1)) /\ i + 1 <= Last
      BY <1>1, <2>1, BelowGrows
    <3> QED
      BY <2>1, <3>1, <3>2 DEF PlaceInv, Live, Ended, Pair
  <2> QED
    BY <2>2, <2>3, <2>4
<1>6. CASE CreateOdd \/ CreateEven
  <2>1. cache' \in [Threads -> 0..Pair]
    BY <1>6 DEF CreateOdd, CreateEven, Create, PlaceInv, NULL, Pair, Threads, TypeInv,
       Shapes
  <2> QED
    BY <1>2, <1>6, <2>1 DEF CreateOdd, CreateEven, Create, Live, Ended
<1>7. CASE Sample
  BY <1>2, <1>7 DEF Sample, Live, Ended, PlaceInv
<1>8. CASE Finish
  <2>1. /\ UNCHANGED <<i, core, nr_tested_cores, cache>> /\ Live
        /\ mpc \in During
        /\ i \in Cpus /\ i < Last /\ i < j /\ i \in TestedCpus /\ j \in Cpus
        /\ core = Cardinality(Below(i)) + 1
    BY <1>8 DEF Finish, PlaceInv, Live, Ended, During
  <2>2. printed \in Seq(Cpus \X Cpus) /\ Len(printed) \in Nat
    BY DEF PlaceInv
  <2>3. CASE mpc = "sample"
    <3>1. /\ mpc' = "joinodd" /\ printed' = Append(printed, <<i, j>>) /\ j' = j
          /\ UNCHANGED <<mapped, pingpong_mutex>>
      BY <1>8, <2>3 DEF Finish, UnmapAt
    <3>2. printed' \in Seq(Cpus \X Cpus) /\ Len(printed') = Pair
      BY <2>1, <2>2, <3>1, AppendProperties, LenProperties DEF Pair
    <3>3. cache \in [Threads -> 0..(Pair + 1)]
      BY <2>2 DEF PlaceInv, Pair
    <3>4. Pair' = Pair + 1
      BY <3>2 DEF Pair
    <3>5. mapped' \subseteq {Pair', Len(printed')}
      BY <2>1, <2>3, <3>1, <3>2 DEF PlaceInv
    <3> QED
      BY <2>1, <3>1, <3>2, <3>3, <3>4, <3>5 DEF PlaceInv, Live, Ended, TestedCpus
  <2>4. CASE mpc \in {"joinodd", "joineven"}
    BY <1>8, <2>1, <2>4 DEF Finish, UnmapAt, PlaceInv, Live, Ended, TestedCpus, Pair
  <2>5. CASE mpc = "unmap"
    <3>1. /\ mpc' = "col" /\ printed' = printed /\ j' = j + 1
          /\ mapped' \subseteq mapped /\ pingpong_mutex' = NULL
      BY <1>8, <2>5 DEF Finish, UnmapAt
    <3>2. j' <= Last + 1 /\ i < j'
      BY <1>1, <2>1, <3>1
    <3> QED
      BY <2>1, <3>1, <3>2 DEF PlaceInv, Live, Ended, TestedCpus, Pair
  <2> QED
    BY <2>1, <2>3, <2>4, <2>5 DEF During
<1> QED
  BY <1>3, <1>4, <1>5, <1>6, <1>7, <1>8 DEF Main

LEMMA PlaceStep ==
  ASSUME Assumptions, Shapes, PlaceInv, [Next]_vars
  PROVE  PlaceInv'
<1>1. Len(printed) \in Nat /\ Pair \in Nat
  BY DEF PlaceInv, Pair
<1>2. CASE Fail \/ UNCHANGED vars
  BY <1>2, PlaceKept DEF Fail, vars, pageVars, threadVars, Shapes, PlaceInv, Live, Ended
<1>3. ASSUME NEW t \in Threads, Setup(t) PROVE PlaceInv'
  <2>1. CASE t = 0
    <3>1. mapped = {} /\ mapped' = mapped \union {Pair} /\ pingpong_mutex' = Pair
      BY <1>3, <2>1 DEF Setup, Shapes, PageInv
    <3> QED
      BY <1>3, <3>1, PlaceKept DEF Setup, Shapes, PlaceInv
  <2>2. CASE t # 0
    BY <1>3, <2>2, PlaceKept DEF Setup, pageVars, Shapes, PlaceInv
  <2> QED
    BY <2>1, <2>2
<1>4. ASSUME NEW t \in Threads, Rendezvous(t) \/ SpuriousWakeup(t) PROVE PlaceInv'
  BY <1>4, PlaceKept DEF Rendezvous, SpuriousWakeup, pageVars, Shapes, PlaceInv
<1>5. ASSUME NEW t \in Threads, Test(t) PROVE PlaceInv'
  <2>1. pingpong_mutex \in 0..Pair
    BY <1>1 DEF PlaceInv, Pair, NULL
  <2>2. cache' \in [Threads -> 0..Pair]
    BY <1>5, <2>1 DEF Test, PlaceInv
  <2> QED
    BY <1>5, <2>2, PlaceKept DEF Test, pageVars, Shapes, PlaceInv
<1>6. ASSUME NEW t \in Threads, Xchg(t) \/ UnlockedStore(t) \/ AddBatch(t) PROVE PlaceInv'
  <2>1. /\ UNCHANGED mainVars /\ mpc' \in {mpc, "failed", "crashed"}
        /\ UNCHANGED <<mapped, pingpong_mutex, cache>>
    BY <1>6 DEF Xchg, UnlockedStore, AddBatch, Access, pageVars, threadVars
  <2> QED
    BY <2>1, PlaceKept DEF Shapes, PlaceInv, Live, Ended
<1> QED
  BY <1>2, <1>3, <1>4, <1>5, <1>6, PlaceMainStep DEF Next, Thread

-----------------------------------------------------------------------------
(* The table *)

LEMMA CellsAreFinite ==
  ASSUME Assumptions, NEW rows \in SUBSET Cpus, NEW q
  PROVE  IsFiniteSet(CellsBefore(rows, q)) /\ Cardinality(CellsBefore(rows, q)) \in Nat
<1>1. IsFiniteSet(Cpus \X Cpus)
  BY FS_Product DEF Assumptions
<1>2. CellsBefore(rows, q) \in SUBSET (Cpus \X Cpus)
  BY DEF CellsBefore
<1> QED
  BY <1>1, <1>2, FS_Subset, FS_CardinalityType

\* Passing over what is no cpu of the mask passes over no cell; nor does the step into
\* a row, or out of it behind the last cpu.
LEMMA CellsKept ==
  ASSUME Assumptions, NEW rows \in SUBSET Cpus, NEW a \in Nat, NEW b \in Nat
  PROVE  /\ a \notin Cpus => CellsBefore(rows, <<a + 1, 0>>) = CellsBefore(rows, <<a, 0>>)
         /\ CellsBefore(rows, <<a, a + 1>>) = CellsBefore(rows, <<a, 0>>)
         /\ b \notin Cpus => CellsBefore(rows, <<a, b + 1>>) = CellsBefore(rows, <<a, b>>)
         /\ b > Last => CellsBefore(rows, <<a + 1, 0>>) = CellsBefore(rows, <<a, b>>)
<1>1. \A p \in rows \X Cpus : /\ p[1] \in Nat /\ p[2] \in Nat /\ p[1] \in Cpus /\ p[2] \in Cpus
                              /\ p[2] <= Last
  BY LastIsGreatest DEF Assumptions
<1>2. Last \in Nat
  BY LastIsGreatest
<1>3. a \notin Cpus => CellsBefore(rows, <<a + 1, 0>>) = CellsBefore(rows, <<a, 0>>)
  <2> SUFFICES ASSUME a \notin Cpus
               PROVE  \A p \in rows \X Cpus : Earlier(p, <<a + 1, 0>>) <=> Earlier(p, <<a, 0>>)
    BY Zenon DEF CellsBefore
  <2> QED
    BY <1>1 DEF Earlier
<1>4. CellsBefore(rows, <<a, a + 1>>) = CellsBefore(rows, <<a, 0>>)
  <2> SUFFICES \A p \in rows \X Cpus : p[1] < p[2] =>
                 (Earlier(p, <<a, a + 1>>) <=> Earlier(p, <<a, 0>>))
    BY Zenon DEF CellsBefore
  <2> QED
    BY <1>1 DEF Earlier
<1>5. b \notin Cpus => CellsBefore(rows, <<a, b + 1>>) = CellsBefore(rows, <<a, b>>)
  <2> SUFFICES ASSUME b \notin Cpus
               PROVE  \A p \in rows \X Cpus : Earlier(p, <<a, b + 1>>) <=> Earlier(p, <<a, b>>)
    BY Zenon DEF CellsBefore
  <2> QED
    BY <1>1 DEF Earlier
<1>6. b > Last => CellsBefore(rows, <<a + 1, 0>>) = CellsBefore(rows, <<a, b>>)
  <2> SUFFICES ASSUME b > Last
               PROVE  \A p \in rows \X Cpus : Earlier(p, <<a + 1, 0>>) <=> Earlier(p, <<a, b>>)
    BY Zenon DEF CellsBefore
  <2> QED
    BY <1>1, <1>2 DEF Earlier
<1> QED
  BY <1>3, <1>4, <1>5, <1>6

\* A cell that is printed is one more.
LEMMA CellAdded ==
  ASSUME Assumptions, NEW rows \in SUBSET Cpus, NEW a \in rows, NEW b \in Cpus, a < b
  PROVE  /\ CellsBefore(rows, <<a, b + 1>>) = CellsBefore(rows, <<a, b>>) \cup {<<a, b>>}
         /\ Cardinality(CellsBefore(rows, <<a, b + 1>>))
              = Cardinality(CellsBefore(rows, <<a, b>>)) + 1
<1>1. \A p \in rows \X Cpus : p[1] \in Nat /\ p[2] \in Nat /\ p = <<p[1], p[2]>>
  <2>1. \A p \in rows \X Cpus : p[1] \in Nat /\ p[2] \in Nat
    BY DEF Assumptions
  <2>2. ASSUME NEW p \in rows \X Cpus PROVE p = <<p[1], p[2]>>
    OBVIOUS
  <2> QED
    BY <2>1, <2>2
<1>2. a \in Nat /\ b \in Nat /\ <<a, b>> \in rows \X Cpus
  BY DEF Assumptions
<1>3. \A p \in rows \X Cpus : Earlier(p, <<a, b + 1>>) <=> Earlier(p, <<a, b>>) \/ p = <<a, b>>
  <2> TAKE p \in rows \X Cpus
  <2>1. p = <<a, b>> <=> p[1] = a /\ p[2] = b
    BY <1>1
  <2> QED
    BY <1>1, <1>2, <2>1 DEF Earlier
<1>4. CellsBefore(rows, <<a, b + 1>>) = CellsBefore(rows, <<a, b>>) \cup {<<a, b>>}
  <2>1. \A p \in rows \X Cpus : p = <<a, b>> => p[1] < p[2]
    OBVIOUS
  <2> QED
    BY <1>2, <1>3, <2>1, Zenon DEF CellsBefore
<1>5. <<a, b>> \notin CellsBefore(rows, <<a, b>>)
  BY <1>2 DEF CellsBefore, Earlier
<1> QED
  BY <1>4, <1>5, CellsAreFinite, FS_AddElement

\* Where the loop over the rows ends no cell is left.
LEMMA CellsComplete ==
  ASSUME Assumptions, NEW rows \in SUBSET Cpus, NEW a \in Nat,
         a >= Last \/ \A c \in rows : c < a
  PROVE  CellsBefore(rows, <<a, 0>>) = {p \in rows \X Cpus : p[1] < p[2]}
<1>1. Last \in Nat /\ \A p \in rows \X Cpus :
        p[1] \in Nat /\ p[2] \in Nat /\ p[1] \in rows /\ p[2] <= Last
  BY LastIsGreatest DEF Assumptions
<1>2. \A p \in rows \X Cpus : p[1] < p[2] => Earlier(p, <<a, 0>>)
  BY <1>1 DEF Earlier
<1> QED
  BY <1>2, Zenon DEF CellsBefore

\* The rest of the state: a step that neither prints nor moves main keeps the table.
LEMMA TableKept ==
  ASSUME TypeInv, PlaceInv, TableInv, UNCHANGED <<printed, nr_tested_cores>>,
         Live' => /\ Live
                  /\ CellsBefore(TestedCpus, Position') = CellsBefore(TestedCpus, Position),
         mpc' = "done" => mpc = "done"
  PROVE  TableInv'
<1>1. TestedCpus' = TestedCpus
  BY DEF TestedCpus
<1>2. ASSUME Live' PROVE (CellsBefore(TestedCpus, Position))' = CellsBefore(TestedCpus, Position)
  <2>1. (CellsBefore(TestedCpus, Position))' = CellsBefore(TestedCpus, Position')
    BY <1>1 DEF CellsBefore
  <2> QED
    BY <1>2, <2>1
<1> QED
  BY <1>1, <1>2 DEF TableInv

LEMMA TableMainStep ==
  ASSUME Assumptions, Shapes, PlaceInv, TableInv, Main
  PROVE  TableInv'
<1>1. /\ TestedCpus \in SUBSET Cpus /\ Cpus \subseteq Nat
      /\ i \in Nat /\ j \in Nat /\ i \in 0..Last
  BY LastIsGreatest DEF TestedCpus, Assumptions, Shapes, TypeInv, PlaceInv
<1>2. ASSUME UNCHANGED <<printed, nr_tested_cores>>, Live,
             mpc' \in {"failed", "col", "row", "odd", "even", "sample", "joineven", "unmap"},
             CellsBefore(TestedCpus, Position') = CellsBefore(TestedCpus, Position)
      PROVE  TableInv'
  BY <1>2, TableKept DEF Shapes
<1>3. CASE Options
  <2>1. printed = <<>> /\ printed' = <<>> /\ Live /\ i = 0 /\ i' = 0
        /\ mpc' \in {"options", "failed", "row"}
    BY <1>3 DEF Options, Live, Ended, PlaceInv
  <2>2. TestedCpus' \in SUBSET Cpus
    BY DEF TestedCpus
  <2>3. (CellsBefore(TestedCpus, <<0, 0>>))' = {}
    <3>1. \A p \in TestedCpus' \X Cpus : p[1] \in Nat
      BY <1>1, <2>2
    <3>2. \A p \in TestedCpus' \X Cpus : p[2] \in Nat
      BY <1>1
    <3>3. \A p \in TestedCpus' \X Cpus : ~Earlier(p, <<0, 0>>)
      BY <3>1, <3>2 DEF Earlier
    <3> QED
      BY <3>3, Zenon DEF CellsBefore
  <2>4. mpc' # "failed" => (CellsBefore(TestedCpus, Position))' = {}
    <3>1. mpc' # "failed" => Position' = <<0, 0>>
      BY <2>1 DEF Position
    <3> QED
      BY <2>3, <3>1 DEF CellsBefore
  <2>5. DOMAIN printed' = {} /\ Len(printed') = 0 /\ Cardinality({}) = 0
    BY <2>1, FS_EmptySet
  <2> QED
    BY <2>1, <2>4, <2>5 DEF TableInv, Live, Ended
<1>4. CASE Row
  <2>1. UNCHANGED <<printed, nr_tested_cores>> /\ Live /\ Position = <<i, 0>> /\ mpc = "row"
        /\ core = Cardinality(Below(i))
    BY <1>4 DEF Row, Live, Ended, Position, PlaceInv
  <2>2. CASE ~(i < Last /\ core < nr_tested_cores)
    <3>1. mpc' = "done" /\ i' = i
      BY <1>4, <2>2 DEF Row
    <3>2. ASSUME ~(core < nr_tested_cores) PROVE \A c \in TestedCpus : c < i
      <4> SUFFICES ASSUME NEW c \in TestedCpus, ~(c < i) PROVE FALSE
        OBVIOUS
      <4>1. Below(i) \in SUBSET Below(c)
        <5>1. \A d \in Cpus : d < i => d < c
          BY <1>1
        <5> QED
          BY <5>1, Zenon DEF Below
      <4>2. IsFiniteSet(Below(c))
        BY FS_Subset DEF Below, Assumptions
      <4>3. Cardinality(Below(i)) <= Cardinality(Below(c)) /\ Cardinality(Below(c)) < nr_tested_cores
        BY <4>1, <4>2, FS_Subset DEF TestedCpus
      <4>4. Cardinality(Below(i)) \in Nat /\ Cardinality(Below(c)) \in Nat /\ nr_tested_cores \in Nat
        BY <4>1, <4>2, FS_Subset, FS_CardinalityType DEF PlaceInv, Assumptions
      <4> QED
        BY <2>1, <3>2, <4>3, <4>4
    <3>3. i >= Last \/ \A c \in TestedCpus : c < i
      BY <1>1, <2>2, <3>2, LastIsGreatest
    <3>4. CellsBefore(TestedCpus, Position) = {p \in TestedCpus \X Cpus : p[1] < p[2]}
      BY <1>1, <2>1, <3>3, CellsComplete
    <3>5. TestedCpus' = TestedCpus
      BY <2>1 DEF TestedCpus
    <3> QED
      BY <2>1, <3>1, <3>4, <3>5 DEF TableInv, Live, Ended
  <2>3. CASE i < Last /\ core < nr_tested_cores /\ i \in Cpus
    <3>1. mpc' = "col" /\ Position' = <<i, i + 1>>
      BY <1>4, <2>3 DEF Row, FirstCol, Position
    <3> QED
      BY <1>1, <1>2, <2>1, <3>1, CellsKept
  <2>4. CASE i < Last /\ core < nr_tested_cores /\ i \notin Cpus
    <3>1. mpc' = "row" /\ Position' = <<i + 1, 0>>
      BY <1>4, <2>4 DEF Row, Position
    <3> QED
      BY <1>1, <1>2, <2>1, <2>4, <3>1, CellsKept
  <2> QED
    BY <2>2, <2>3, <2>4
<1>5. CASE Col
  <2>1. UNCHANGED <<printed, nr_tested_cores>> /\ Live /\ Position = <<i, j>>
    BY <1>5 DEF Col, Live, Ended, Position
  <2>2. CASE j \in Cpus
    BY <1>2, <1>5, <2>1, <2>2 DEF Col, Position
  <2>3. CASE j \notin Cpus /\ j <= Last
    <3>1. mpc' = "col" /\ Position' = <<i, j + 1>>
      BY <1>5, <2>3 DEF Col, Position
    <3> QED
      BY <1>1, <1>2, <2>1, <2>3, <3>1, CellsKept
  <2>4. CASE j \notin Cpus /\ ~(j <= Last)
    <3>1. mpc' = "row" /\ Position' = <<i + 1, 0>>
      BY <1>5, <2>4 DEF Col, Position
    <3>2. j > Last
      BY <1>1, <2>4, LastIsGreatest
    <3> QED
      BY <1>1, <1>2, <2>1, <3>1, <3>2, CellsKept
  <2> QED
    BY <2>2, <2>3, <2>4
<1>6. CASE CreateOdd \/ CreateEven \/ Sample
  BY <1>2, <1>6 DEF CreateOdd, CreateEven, Create, Sample, Position, Live, Ended
<1>7. CASE Finish /\ mpc # "sample"
  BY <1>2, <1>7 DEF Finish, Position, Live, Ended
<1>8. CASE Finish /\ mpc = "sample"
  <2>1. /\ printed' = Append(printed, <<i, j>>) /\ UNCHANGED nr_tested_cores
        /\ Position = <<i, j>> /\ Position' = <<i, j + 1>> /\ Live /\ Live' /\ mpc' # "done"
    BY <1>8 DEF Finish, Position, Live, Ended
  <2>2. i \in TestedCpus /\ j \in Cpus /\ i < j
    BY <1>8, <2>1 DEF PlaceInv
  <2>3. TestedCpus' = TestedCpus
    BY <2>1 DEF TestedCpus
  <2> DEFINE Old == CellsBefore(TestedCpus, <<i, j>>)
             New == CellsBefore(TestedCpus, <<i, j + 1>>)
  <2>4. New = Old \cup {<<i, j>>} /\ Cardinality(New) = Cardinality(Old) + 1
    BY <1>1, <2>2, CellAdded
  <2>5. (CellsBefore(TestedCpus, Position))' = New
    BY <2>1, <2>3 DEF CellsBefore
  <2>6. /\ \A n \in DOMAIN printed : printed[n] \in Old
        /\ Len(printed) = Cardinality(Old) /\ Len(printed) \in Nat
        /\ printed \in Seq(Cpus \X Cpus)
    <3>1. printed \in Seq(Cpus \X Cpus) /\ Len(printed) \in Nat
      BY DEF PlaceInv
    <3>2. CellsBefore(TestedCpus, Position) = Old
      BY <2>1
    <3> QED
      BY <2>1, <3>1, <3>2 DEF TableInv
  <2>7. /\ Len(printed') = Len(printed) + 1 /\ DOMAIN printed' = 1..(Len(printed) + 1)
        /\ \A n \in 1..Len(printed) : printed'[n] = printed[n]
        /\ printed'[Len(printed) + 1] = <<i, j>> /\ DOMAIN printed = 1..Len(printed)
    <3>1. <<i, j>> \in Cpus \X Cpus
      BY <2>2 DEF TestedCpus
    <3>2. printed' = Append(printed, <<i, j>>) /\ printed \in Seq(Cpus \X Cpus)
      BY <2>1, <2>6
    <3> HIDE DEF Old, New
    <3> QED
      BY <3>1, <3>2, AppendProperties, LenProperties
  <2> HIDE DEF Old, New
  <2>8. ASSUME NEW n \in DOMAIN printed' PROVE printed'[n] \in New
    <3>1. CASE n \in 1..Len(printed)
      BY <2>4, <2>6, <2>7, <3>1
    <3>2. CASE n = Len(printed) + 1
      BY <2>4, <2>7, <3>2
    <3> QED
      BY <2>6, <2>7, <3>1, <3>2
  <2>9. ASSUME NEW n \in DOMAIN printed'
        PROVE  /\ printed'[n][1] \in TestedCpus /\ printed'[n][1] < printed'[n][2]
               /\ n > 1 => Earlier(printed'[n - 1], printed'[n])
    <3>1. CASE n \in 1..Len(printed)
      <4>1. n > 1 => n - 1 \in 1..Len(printed)
        BY <3>1, <2>6
      <4> QED
        BY <2>7, <3>1, <4>1 DEF TableInv
    <3>2. CASE n = Len(printed) + 1
      <4>1. n > 1 => n - 1 \in 1..Len(printed) /\ printed'[n - 1] = printed[n - 1]
        BY <3>2, <2>6, <2>7
      <4>2. n > 1 => Earlier(printed[n - 1], <<i, j>>)
        BY <2>6, <2>7, <4>1 DEF CellsBefore, Old
      <4> QED
        BY <2>2, <2>7, <3>2, <4>1, <4>2
    <3> QED
      BY <2>6, <2>7, <3>1, <3>2
  <2> QED
    BY <2>1, <2>3, <2>4, <2>5, <2>6, <2>7, <2>8, <2>9 DEF TableInv
<1> QED
  BY <1>3, <1>4, <1>5, <1>6, <1>7, <1>8 DEF Main

LEMMA TableStep ==
  ASSUME Assumptions, Shapes, PlaceInv, TableInv, [Next]_vars
  PROVE  TableInv'
<1>1. CASE UNCHANGED <<mpc, i, j, printed, nr_tested_cores>>
  BY <1>1, TableKept DEF Shapes, Position, Live
<1>2. CASE UNCHANGED <<i, j, printed, nr_tested_cores>> /\ mpc' \in {"failed", "crashed"}
  BY <1>2, TableKept DEF Shapes, Live, Ended
<1>3. CASE Fail \/ UNCHANGED vars
  BY <1>1, <1>2, <1>3 DEF Fail, vars, mainVars
<1>4. ASSUME NEW t \in Threads, Thread(t) \/ SpuriousWakeup(t) PROVE TableInv'
  BY <1>1, <1>2, <1>4 DEF Thread, Setup, Rendezvous, SpuriousWakeup, Test, Xchg,
     UnlockedStore, AddBatch,
     Access, mainVars
<1> QED
  BY <1>3, <1>4, TableMainStep DEF Next

LEMMA Inductive == Spec => []IInv
<1>1. IInv /\ [Next]_vars => IInv'
  BY TypeStep, PairStep, PageStep, MeetStep, UseStep, TurnStep DEF IInv, Shapes
<1> QED
  BY <1>1, InitIInv, PTL DEF Spec

\* The counters, the loops over the cpus and the table on top of it.
FullInv == IInv /\ BoundInv /\ CountInv /\ PlaceInv /\ TableInv

LEMMA InitFullInv == ASSUME Assumptions, Init PROVE FullInv
<1>1. IInv
  BY InitIInv
<1>2. BoundInv
  <2>1. MaxExchanges \in Nat /\ NrSamples \in Nat
    BY DEF Assumptions
  <2>2. /\ nr = [t \in Threads |-> 0] /\ exch = [t \in Threads |-> 0]
        /\ \A t \in Threads : tpc[t] # "store"
    BY DEF Init
  <2>3. nr \in [Threads -> 0..MaxExchanges] /\ exch \in [Threads -> 0..MaxExchanges]
    BY <2>1, <2>2
  <2>4. /\ sample_no = 0 /\ taken = 0 /\ nr_pingpongs = 0
        /\ word = 0 /\ last_lo = 0
    BY DEF Init
  <2>5. stop_loops \in BOOLEAN
    BY DEF Init
  <2>6. sample_no \in 0..NrSamples /\ last_lo \in 0..MaxExchanges /\ word <= MaxExchanges + 1
    BY <2>1, <2>4
  <2>7. taken \in Nat /\ nr_pingpongs \in Nat /\ taken + nr_pingpongs <= 2 * MaxExchanges
    BY <2>1, <2>4
  <2> QED
    BY <2>2, <2>3, <2>5, <2>6, <2>7 DEF BoundInv
<1>6. CountInv
  BY DEF Init, CountInv, During
<1>3. /\ Last \in Nat /\ Cardinality(Cpus) \in Nat
      /\ printed = <<>> /\ DOMAIN printed = {} /\ Len(printed) = 0 /\ mpc = "options"
      /\ i = 0
  BY LastIsGreatest, FS_CardinalityType DEF Init, Assumptions
<1>4. PlaceInv
  <2>1. Below(0) = {}
    <3>1. \A d \in Cpus : ~(d < 0)
      BY DEF Assumptions
    <3> QED
      BY <3>1, Zenon DEF Below
  <2> QED
    BY <1>3, <2>1, FS_EmptySet DEF Init, PlaceInv, Live, Ended, Pair, NULL, Threads
<1>5. TableInv
  <2>1. \A p \in TestedCpus \X Cpus : p[1] \in Nat /\ p[2] \in Nat
    BY DEF TestedCpus, Assumptions
  <2>2. \A p \in TestedCpus \X Cpus : ~Earlier(p, <<0, 0>>)
    BY <2>1 DEF Earlier
  <2>3. CellsBefore(TestedCpus, Position) = {}
    BY <1>3, <2>2, Zenon DEF CellsBefore, Position
  <2> QED
    BY <1>3, <2>3, FS_EmptySet DEF TableInv
<1> QED
  BY <1>1, <1>2, <1>4, <1>5, <1>6 DEF FullInv

LEMMA FullInductive == ASSUME Assumptions PROVE Spec => []FullInv
<1>1. Init => FullInv
  BY InitFullInv
<1>2. FullInv /\ [Next]_vars => FullInv'
  <2> SUFFICES ASSUME FullInv, [Next]_vars PROVE FullInv'
    OBVIOUS
  <2>1. IInv'
    BY TypeStep, PairStep, PageStep, MeetStep, UseStep, TurnStep DEF FullInv, IInv, Shapes
  <2>2. Shapes /\ TurnInv
    BY DEF FullInv, IInv, Shapes
  <2> QED
    BY <2>1, <2>2, CountStep, PlaceStep, TableStep DEF FullInv
<1> QED
  BY <1>1, <1>2, PTL DEF Spec

-----------------------------------------------------------------------------
(* The theorems *)

\* The threads of a pair exchange the word in turns, whatever the interleaving and in
\* the unlocked loop too, for every mask, pair and number of exchanges
\* (pingpong.c:120-137).
THEOREM TurnsAreTaken == Spec => []ExchangesAlternate
<1>1. IInv => ExchangesAlternate
  BY DEF IInv
<1> QED
  BY <1>1, Inductive, PTL

\* Unless a wait of the rendezvous returns without a signal no thread uses a page that
\* is not mapped, for every sequence of pairs (pingpong.c:71-94, 314-329).
THEOREM PagesAreThere == Spec => []PagesOutliveTheirUse
<1>1. IInv => PagesOutliveTheirUse
  BY DEF IInv
<1> QED
  BY <1>1, Inductive, PTL

\* Types and bounds: no counter of main or of the threads leaves the range its loop
\* gives it, for every mask of cpus and every value of -c (pingpong.c:96-330).
THEOREM TypesAreKept == ASSUME Assumptions PROVE Spec => []TypeOK
<1>1. FullInv => TypeOK
  BY LastIsGreatest
     DEF FullInv, IInv, TypeInv, BoundInv, PlaceInv, TypeOK, Ended, Before, During,
         Locations
<1> QED
  BY <1>1, FullInductive, PTL

\* Each figure is made of the exchanges of its own pair, to within two batches, and the
\* table holds each pair of tested cpus once and in order, complete when the program
\* ends, for every mask, every -c, every batch and number of samples
\* (pingpong.c:262-304).
THEOREM TableOfThePairs == ASSUME Assumptions PROVE Spec => []TableIsSound
<1>1. FullInv => CountsAreOfThisPair
  <2> SUFFICES ASSUME FullInv, mpc \in {"sample", "joinodd", "joineven"}
               PROVE  /\ taken + nr_pingpongs <= exch[0] + exch[1] + 1
                      /\ fn # "xadd" => exch[0] + exch[1] <= taken + nr_pingpongs + 2 * Batch
    BY DEF CountsAreOfThisPair
  <2>1. /\ taken \in Nat /\ nr_pingpongs \in Nat /\ exch[0] \in Nat /\ exch[1] \in Nat
        /\ nr[0] \in Nat /\ nr[1] \in Nat /\ last_lo \in Nat /\ Batch \in Nat
    BY DEF FullInv, BoundInv, Threads, Assumptions
  <2>2. Live /\ mpc \in During /\ mpc \notin Before
    BY DEF Live, Ended, During, Before
  <2>3. /\ pingpong_mutex = NULL => exch[0] = 0 /\ exch[1] = 0
        /\ tpc[0] # "setup" => pingpong_mutex # NULL
        /\ tpc[0] = "setup" => pingpong_mutex = NULL
    BY <2>2 DEF FullInv, IInv, TurnInv, PageInv
  <2>4. CASE fn = "xadd"
    <3>1. /\ taken + nr_pingpongs + 2 * nr[1] <= 2 * exch[1]
          /\ taken + nr_pingpongs + 2 * nr[1] <= 2 * last_lo /\ last_lo <= exch[0]
      BY <2>1, <2>2, <2>3, <2>4 DEF FullInv, CountInv
    <3> QED
      BY <2>1, <2>4, <3>1
  <2>5. CASE fn # "xadd"
    <3>1. taken + nr_pingpongs + 2 * nr[0] = 2 * exch[0] /\ nr[0] <= Batch
      BY <2>2, <2>5 DEF FullInv, CountInv
    <3>2. exch[1] <= exch[0] /\ exch[0] <= exch[1] + 1
      <4>1. CASE tpc[0] = "setup"
        BY <2>1, <2>3, <4>1
      <4>2. CASE tpc[0] # "setup"
        <5>1. word \in {0, 1} /\ pingpong_mutex # NULL
          BY <2>2, <2>3, <2>5, <4>2 DEF FullInv, CountInv
        <5>2. fn # "none"
          BY <2>2 DEF FullInv, IInv, TypeInv, During, Ended
        <5>3. exch[0] - word = exch[1]
          BY <2>5, <5>1, <5>2 DEF FullInv, IInv, TypeInv, Modes, ExchangesAlternate
        <5> QED
          BY <2>1, <5>1, <5>3
      <4> QED
        BY <4>1, <4>2
    <3> QED
      BY <2>1, <2>5, <3>1, <3>2
  <2> QED
    BY <2>4, <2>5
<1>2. FullInv => TableIsRight
  <2>1. FullInv => TableInv
    BY DEF FullInv
  <2> QED
    BY <2>1 DEF TableInv, TableIsRight, TestedCpus, Below, Earlier
<1>3. FullInv => TableIsSound
  BY <1>1, <1>2 DEF TableIsSound
<1> QED
  BY <1>3, FullInductive, PTL
=============================================================================
