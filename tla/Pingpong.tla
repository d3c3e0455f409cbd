------------------------------ MODULE Pingpong ------------------------------
(***************************************************************************)
(* multichase/pingpong.c: main measures every pair of cpus in turn with    *)
(* two threads that exchange a word in a page the even thread maps.  Main  *)
(* samples a counter that the threads update once per batch of exchanges,  *)
(* stops and joins both threads, and unmaps the page before the next pair. *)
(*                                                                         *)
(* A page is named by the number of the pair it was mapped for; an access  *)
(* to a page that is not mapped, or to NULL, ends the program.  The order  *)
(* of `exch` and `taken` is kept for the properties only.                  *)
(***************************************************************************)
EXTENDS Naturals, Sequences, FiniteSets

CONSTANTS
  Cpus,          \* the affinity mask, a set of cpu numbers
  TestedCores,   \* the values of -c
  NrSamples,     \* NR_SAMPLES
  Batch,         \* exchanges a thread counts before it adds them up, 10000
  MaxExchanges,  \* bound on the exchanges of a thread with one partner
  Spurious       \* whether pthread_cond_wait may return without a signal

Assumptions ==
  /\ Cpus \subseteq Nat /\ IsFiniteSet(Cpus) /\ Cpus # {}
  /\ NrSamples \in Nat \ {0} /\ Batch \in Nat \ {0}
  /\ MaxExchanges \in Nat /\ TestedCores \subseteq Nat
  /\ Spurious \in BOOLEAN

Threads == {0, 1}    \* the even thread and the odd one
NULL == 0
Modes == {"locked", "unlocked", "xadd"}

VARIABLES
  mpc, fn, nr_tested_cores,  \* main: location, loop of the threads, -c
  i, j, core, sample_no,     \* main: loop variables
  taken,                     \* exchanges main was told of, this pair
  printed,                   \* the cells of the table, in order
  stop_loops, nr_pingpongs, pingpong_mutex, wait_for_buddy,
  mapped,                    \* pages that exist
  word,                      \* *pingpong_mutex (xadd_loop: its low half)
  tpc, cache, nr, last_lo,   \* per thread: location and local variables
  exch,                      \* exchanges each thread has made, this pair
  spurious                   \* a wait has returned without a signal

mainVars == <<fn, nr_tested_cores, i, j, core, sample_no, taken, printed>>
pageVars == <<pingpong_mutex, mapped, word>>
threadVars == <<tpc, cache, nr, last_lo, exch, wait_for_buddy, spurious>>
vars == <<mpc, mainVars, stop_loops, nr_pingpongs, pageVars, threadVars>>

Last == CHOOSE c \in Cpus : \A d \in Cpus : d <= c
Ended == {"done", "failed", "crashed"}
Pair == Len(printed) + 1

TypeOK ==
  /\ mpc \in Ended \union {"options", "row", "col", "odd", "even", "sample",
                           "joinodd", "joineven", "unmap"}
  /\ fn \in Modes \union {"none"}
  /\ nr_tested_cores \in TestedCores \union {Cardinality(Cpus)}
  /\ i \in 0..Last /\ j \in 0..(Last + 1) /\ core \in 0..Cardinality(Cpus)
  /\ sample_no \in 0..NrSamples
  /\ printed \in Seq(Cpus \X Cpus)
  /\ taken + nr_pingpongs <= 2 * MaxExchanges
  /\ stop_loops \in BOOLEAN /\ wait_for_buddy \in BOOLEAN /\ spurious \in BOOLEAN
  /\ pingpong_mutex \in {NULL} \union mapped
  /\ mapped \subseteq {Pair, Len(printed)}
  /\ word \in 0..(MaxExchanges + 1)
  /\ tpc \in [Threads -> {"none", "setup", "rendezvous", "waiting", "enter",
                          "test", "xchg", "store", "add", "exited"}]
  /\ cache \in [Threads -> 0..Pair]
  /\ nr \in [Threads -> 0..MaxExchanges]
  /\ last_lo \in 0..MaxExchanges
  /\ exch \in [Threads -> 0..MaxExchanges]

Init ==
  /\ mpc = "options" /\ fn = "none" /\ nr_tested_cores = Cardinality(Cpus)
  /\ i = 0 /\ j = 0 /\ core = 0 /\ sample_no = 0 /\ taken = 0 /\ printed = <<>>
  /\ stop_loops = FALSE /\ nr_pingpongs = 0 /\ wait_for_buddy = TRUE
  /\ pingpong_mutex = NULL /\ mapped = {} /\ word = 0 /\ last_lo = 0
  /\ tpc = [t \in Threads |-> "none"] /\ cache = [t \in Threads |-> NULL]
  /\ nr = [t \in Threads |-> 0] /\ exch = [t \in Threads |-> 0]
  /\ spurious = FALSE

-----------------------------------------------------------------------------
(* main *)

\* -l, -u and -x select the loop and exclude each other; -c limits the rows.
Options ==
  /\ mpc = "options"
  /\ \/ \E m \in Modes :
          /\ fn' = IF fn = "none" THEN m ELSE fn
          /\ mpc' = IF fn = "none" THEN "options" ELSE "failed"
          /\ UNCHANGED nr_tested_cores
     \/ \E c \in TestedCores : nr_tested_cores' = c /\ UNCHANGED <<mpc, fn>>
     \/ /\ mpc' = IF fn = "none" THEN "failed" ELSE "row"
        /\ UNCHANGED <<fn, nr_tested_cores>>
  /\ UNCHANGED <<i, j, core, sample_no, taken, printed, stop_loops,
                 nr_pingpongs, pageVars, threadVars>>

\* Where the loop over j starts.
FirstCol(c) == c + 1

Bug_Reset == UNCHANGED nr_pingpongs
Reset == nr_pingpongs' = 0

\* The loop over i: the cpu of the even thread, and the first candidate for
\* the odd one.
Row ==
  /\ mpc = "row"
  /\ IF i < Last /\ core < nr_tested_cores
     THEN IF i \in Cpus
          THEN mpc' = "col" /\ core' = core + 1 /\ j' = FirstCol(i) /\ UNCHANGED i
          ELSE i' = i + 1 /\ UNCHANGED <<mpc, core, j>>
     ELSE mpc' = "done" /\ UNCHANGED <<i, j, core>>
  /\ UNCHANGED <<fn, nr_tested_cores, sample_no, taken, printed, stop_loops,
                 nr_pingpongs, pageVars, threadVars>>

\* The loop over j; for a cpu of the mask, the counter is reset.
Col ==
  /\ mpc = "col"
  /\ IF j \in Cpus
     THEN mpc' = "odd" /\ Reset /\ UNCHANGED <<i, j>>
     ELSE /\ UNCHANGED nr_pingpongs
          /\ IF j <= Last THEN j' = j + 1 /\ UNCHANGED <<mpc, i>>
                          ELSE mpc' = "row" /\ i' = i + 1 /\ UNCHANGED j
  /\ UNCHANGED <<fn, nr_tested_cores, core, sample_no, taken, printed,
                 stop_loops, pageVars, threadVars>>

\* pthread_create of the odd thread, then of the even one.
Create(t, here, next) ==
  /\ mpc = here /\ mpc' = next
  /\ tpc' = [tpc EXCEPT ![t] = "setup"]
  /\ exch' = IF t = 1 THEN [u \in Threads |-> 0] ELSE exch
  /\ nr' = [nr EXCEPT ![t] = 0]
  /\ cache' = [cache EXCEPT ![t] = NULL]
  /\ last_lo' = 0 /\ sample_no' = 0 /\ taken' = 0
  /\ UNCHANGED <<fn, nr_tested_cores, i, j, core, printed, stop_loops,
                 nr_pingpongs, pageVars, wait_for_buddy, spurious>>
CreateOdd == Create(1, "odd", "even")
CreateEven == Create(0, "even", "sample")

Bug_Rest(n) == n
\* What the exchange leaves in the counter.
Rest(n) == 0

\* usleep, then the counter is exchanged with 0.  After the last sample the
\* cell is printed.
Sample ==
  /\ mpc = "sample" /\ sample_no < NrSamples
  /\ sample_no' = sample_no + 1
  /\ taken' = taken + nr_pingpongs
  /\ nr_pingpongs' = Rest(nr_pingpongs)
  /\ UNCHANGED <<mpc, fn, nr_tested_cores, i, j, core, printed, stop_loops,
                 pageVars, threadVars>>

Bug_StopAt == "joinodd"
\* Where main resets stop_loops: after both joins.
StopAt == "unmap"

Bug_UnmapAt == "joinodd"
\* Where main unmaps the page.
UnmapAt == "unmap"

\* The end of a pair: stop, join odd, join even, then stop_loops is reset,
\* the page unmapped and the pointer cleared.
Finish ==
  /\ \/ mpc = "sample" /\ sample_no = NrSamples /\ mpc' = "joinodd"
     \/ mpc = "joinodd" /\ tpc[1] = "exited" /\ mpc' = "joineven"
     \/ mpc = "joineven" /\ tpc[0] = "exited" /\ mpc' = "unmap"
     \/ mpc = "unmap" /\ mpc' = "col"
  /\ stop_loops' = IF mpc = "sample" THEN TRUE
                   ELSE IF mpc = StopAt THEN FALSE ELSE stop_loops
  /\ IF mpc = UnmapAt
     THEN mapped' = mapped \ {pingpong_mutex} /\ pingpong_mutex' = NULL
     ELSE UNCHANGED <<mapped, pingpong_mutex>>
  /\ IF mpc = "sample" THEN printed' = Append(printed, <<i, j>>) ELSE UNCHANGED printed
  /\ j' = IF mpc = "unmap" THEN j + 1 ELSE j
  /\ UNCHANGED <<fn, nr_tested_cores, i, core, sample_no, taken, nr_pingpongs,
                 word, threadVars>>

\* A system call that fails ends the program with exit(1).
Fail ==
  /\ \/ mpc \in {"row", "odd", "even", "joinodd", "joineven", "unmap"}
     \/ \E t \in Threads : tpc[t] = "setup"
  /\ mpc' = "failed"
  /\ UNCHANGED <<mainVars, stop_loops, nr_pingpongs, pageVars, threadVars>>

-----------------------------------------------------------------------------
(* The threads *)

Live == mpc \notin Ended
\* The program dies if the page t uses does not exist.
Access(t, page, A) ==
  IF page \in mapped
  THEN A
  ELSE /\ mpc' = "crashed"
       /\ UNCHANGED <<mainVars, stop_loops, nr_pingpongs, pageVars, threadVars>>

\* The first half of common_setup: the even thread maps the page and writes it.
Setup(t) ==
  /\ Live /\ tpc[t] = "setup"
  /\ tpc' = [tpc EXCEPT ![t] = "rendezvous"]
  /\ IF t = 0
     THEN mapped' = mapped \union {Pair} /\ pingpong_mutex' = Pair /\ word' = 0
     ELSE UNCHANGED pageVars
  /\ UNCHANGED <<mpc, mainVars, stop_loops, nr_pingpongs, cache, nr, last_lo,
                 exch, wait_for_buddy, spurious>>

\* The second half: the first thread waits, the second wakes it up.  Each
\* holds the mutex from the test to the wait or to the broadcast.
Rendezvous(t) ==
  /\ Live /\ tpc[t] = "rendezvous"
  /\ IF wait_for_buddy
     THEN wait_for_buddy' = FALSE /\ tpc' = [tpc EXCEPT ![t] = "waiting"]
     ELSE /\ wait_for_buddy' = TRUE
          /\ tpc' = [u \in Threads |-> IF u = t \/ tpc[u] = "waiting"
                                       THEN "enter" ELSE tpc[u]]
  /\ UNCHANGED <<mpc, mainVars, stop_loops, nr_pingpongs, pageVars, cache, nr,
                 last_lo, exch, spurious>>

SpuriousWakeup(t) ==
  /\ Spurious /\ Live /\ tpc[t] = "waiting"
  /\ tpc' = [tpc EXCEPT ![t] = "enter"] /\ spurious' = TRUE
  /\ UNCHANGED <<mpc, mainVars, stop_loops, nr_pingpongs, pageVars, cache, nr,
                 last_lo, exch, wait_for_buddy>>

\* The start of the loop (t copies the pointer) and its test of stop_loops.
Test(t) ==
  /\ Live
  /\ \/ /\ tpc[t] = "enter"
        /\ cache' = [cache EXCEPT ![t] = pingpong_mutex]
        /\ tpc' = [tpc EXCEPT ![t] = "test"]
     \/ /\ tpc[t] = "test"
        /\ tpc' = [tpc EXCEPT ![t] = IF stop_loops THEN "exited" ELSE "xchg"]
        /\ UNCHANGED cache
  /\ UNCHANGED <<mpc, mainVars, stop_loops, nr_pingpongs, pageVars, nr, last_lo,
                 exch, wait_for_buddy, spurious>>

Bug_MayPass(t) == TRUE
\* The comparison of *pingpong_mutex with me.
MayPass(t) == word = t

\* A batch is complete: it is added to nr_pingpongs by the even thread (by
\* the odd one in xadd_loop).
BatchDone(t, n) == n = Batch /\ t = (IF fn = "xadd" THEN 1 ELSE 0)
Count(t, counts) ==
  LET n == IF counts THEN nr[t] + 1 ELSE nr[t] IN
  /\ nr' = [nr EXCEPT ![t] = n]
  /\ tpc' = [tpc EXCEPT ![t] = IF counts /\ BatchDone(t, n) THEN "add" ELSE "test"]
  /\ exch' = [exch EXCEPT ![t] = @ + 1]

\* locked_loop: compare and swap.
LockedXchg(t) ==
  IF MayPass(t) /\ exch[t] < MaxExchanges
  THEN word' = 1 - t /\ Count(t, TRUE)
  ELSE tpc' = [tpc EXCEPT ![t] = "test"] /\ UNCHANGED <<word, nr, exch>>

\* unlocked_xchg: a load and a comparison; the store is a step of its own.
UnlockedLoad(t) ==
  /\ tpc' = [tpc EXCEPT ![t] = IF MayPass(t) /\ exch[t] < MaxExchanges
                               THEN "store" ELSE "test"]
  /\ UNCHANGED <<word, nr, exch>>

\* xadd_loop: the even thread adds to the low half, the odd one to the high
\* half, and counts the changes of the low half it sees.
Xadd(t) ==
  IF exch[t] < MaxExchanges
  THEN /\ word' = IF t = 0 THEN word + 1 ELSE word
       /\ Count(t, t = 1 /\ last_lo # word)
  ELSE tpc' = [tpc EXCEPT ![t] = "test"] /\ UNCHANGED <<word, nr, exch>>

Xchg(t) ==
  /\ Live /\ tpc[t] = "xchg"
  /\ Access(t, cache[t],
       /\ \/ fn = "locked" /\ LockedXchg(t)
          \/ fn = "unlocked" /\ UnlockedLoad(t)
          \/ fn = "xadd" /\ Xadd(t)
       /\ last_lo' = IF fn = "xadd" /\ t = 1 THEN word ELSE last_lo
       /\ UNCHANGED <<mpc, mainVars, stop_loops, nr_pingpongs, pingpong_mutex,
                      mapped, cache, wait_for_buddy, spurious>>)

UnlockedStore(t) ==
  /\ Live /\ tpc[t] = "store"
  /\ Access(t, cache[t],
       /\ word' = 1 - t /\ Count(t, TRUE)
       /\ UNCHANGED <<mpc, mainVars, stop_loops, nr_pingpongs, pingpong_mutex,
                      mapped, cache, last_lo, wait_for_buddy, spurious>>)

AddBatch(t) ==
  /\ Live /\ tpc[t] = "add"
  /\ nr_pingpongs' = nr_pingpongs + 2 * nr[t]
  /\ nr' = [nr EXCEPT ![t] = 0]
  /\ tpc' = [tpc EXCEPT ![t] = "test"]
  /\ UNCHANGED <<mpc, mainVars, stop_loops, pageVars, cache, last_lo, exch,
                 wait_for_buddy, spurious>>

-----------------------------------------------------------------------------
Main == Options \/ Row \/ Col \/ CreateOdd \/ CreateEven \/ Sample \/ Finish
Thread(t) == Setup(t) \/ Rendezvous(t) \/ Test(t) \/ Xchg(t) \/ UnlockedStore(t)
               \/ AddBatch(t)
Next == \/ Main \/ Fail
        \/ \E t \in Threads : Thread(t) \/ SpuriousWakeup(t)

Spec == Init /\ [][Next]_vars
\* Main, whose steps after the options never wait for more input, and both
\* threads are scheduled.
Fairness == /\ WF_vars(Main /\ mpc # "options")
            /\ \A t \in Threads : WF_vars(Thread(t))

-----------------------------------------------------------------------------
(* Properties *)

\* The two threads take turns whatever the interleaving, although the
\* unlocked loop only loads and stores: between the load that succeeded and
\* the store, nobody else writes the word (pingpong.c:131-137).
ExchangesAlternate ==
  fn \in {"locked", "unlocked"} /\ pingpong_mutex # NULL =>
    /\ exch[0] - word = exch[1]
    /\ \A t \in Threads : tpc[t] = "store" => word = t

\* The figure of a pair is made of its own exchanges: what main was told of
\* and what waits in nr_pingpongs are not more than the exchanges made since
\* the pair was set up (a turn is counted as two when the even thread has had
\* its half), and lack at most two batches: nothing leaks from one pair to
\* the next (pingpong.c:288, 302-304).
CountsAreOfThisPair ==
  mpc \in {"sample", "joinodd", "joineven"} =>
    /\ taken + nr_pingpongs <= exch[0] + exch[1] + 1
    /\ fn # "xadd" =>
         exch[0] + exch[1] <= taken + nr_pingpongs + 2 * Batch

\* No thread uses a page that is not there yet or no longer: the rendezvous
\* keeps the odd thread from using the pointer before the even one has set
\* it, for every pair in turn, and the page stays until both have ended
\* (pingpong.c:71-94, 314-329).  A wait that returns without a signal breaks
\* the first half, since it is not in a loop.
PagesOutliveTheirUse == mpc = "crashed" => spurious

\* The table holds each pair of tested cpus once, in the order of its rows
\* and columns, and when the program ends it is complete (pingpong.c:262-282).
TableIsRight ==
  LET Tested == {c \in Cpus : Cardinality({d \in Cpus : d < c}) < nr_tested_cores}
      Before(p, q) == p[1] < q[1] \/ (p[1] = q[1] /\ p[2] < q[2])
  IN /\ \A n \in DOMAIN printed :
          /\ printed[n][1] \in Tested /\ printed[n][1] < printed[n][2]
          /\ n > 1 => Before(printed[n - 1], printed[n])
     /\ mpc = "done" =>
          Len(printed) = Cardinality({p \in Tested \X Cpus : p[1] < p[2]})

\* Both: what is printed is right.
TableIsSound == CountsAreOfThisPair /\ TableIsRight

\* The program ends once its options are read: no join waits for a thread
\* that has not seen stop_loops or that waits for a partner (pingpong.c:314-323).
EveryPairEnds == (mpc = "row") ~> (mpc \in Ended)
=============================================================================
