---------------------------- MODULE ChaseSampling ----------------------------
(***************************************************************************)
(* The sampling loop of multichase.c: every thread adds to a counter of    *)
(* its own after each round of its kernel, main exchanges the counters     *)
(* with 0 every half second, drops the first sample, and prints the best   *)
(* or the average time of a dereference.                                   *)
(*                                                                         *)
(* Time is counted in halves of DELAY_USECS; usleep sleeps at least as     *)
(* long as it is asked to, and here at most half as long again.  The       *)
(* 32-bit counters would have to go unread for 2^32 dereferences to wrap;  *)
(* MaxRounds, the bound on the rounds of a thread, keeps them below.       *)
(***************************************************************************)
EXTENDS Naturals

CONSTANTS
  NrThreads,     \* nr_threads
  Kernels,       \* the chases to consider, a subset of DOMAIN Added
  SampleCounts,  \* the values of -n
  MaxRounds,     \* bound on the rounds a thread makes
  MaxSamples     \* bound on the samples of a run without end

\* What a round of a kernel adds to the counter of its thread.
Added == [simple |-> 200, parallel2 |-> 2 * 100, parallel3 |-> 3 * 66,
          parallel6 |-> 6 * 32, parallel7 |-> 7 * 28, parallel10 |-> 10 * 20,
          work |-> 25, incr |-> 50, prefetch |-> 100, movdqa |-> 100,
          critword2 |-> 100]

Assumptions ==
  /\ Kernels \subseteq DOMAIN Added /\ NrThreads \in Nat \ {0}
  /\ SampleCounts \subseteq Nat /\ MaxRounds \in Nat /\ MaxSamples \in Nat

Threads == 1..NrThreads

VARIABLES
  cpc, i,     \* main: location and index of the loop over the threads
  kernel, timed, n,   \* -c, -N and -n
  sample_no, cur_samples,
  now, last,  \* the clock; last_sample_time
  total, stalls, sum_of, \* total, stalls; the number of terms of running_sum
  count,      \* x.count of each thread
  made,       \* dereferences of each thread since the start
  dropped     \* those the dropped sample took

chaseVars == <<cpc, i, kernel, timed, n, sample_no, cur_samples, now, last, total,
               stalls, sum_of, count, made, dropped>>

Delay == 2
SumOf(f) ==
  LET sum[k \in 0..NrThreads] == IF k = 0 THEN 0 ELSE sum[k - 1] + f[k]
  IN sum[NrThreads]

\* nr_samples after its increment.
NrSamples == n + 1
\* The test of the timeout, whose limit is the largest 64-bit number without -N.
DurationOver(t) == timed /\ t > n * Delay

TypeOK ==
  /\ cpc \in {"sleep", "collect", "done", "died"}
  /\ kernel \in Kernels /\ timed \in BOOLEAN /\ n \in SampleCounts
  /\ sample_no \in Nat /\ sum_of \in 0..sample_no /\ stalls \in 0..sum_of
  /\ last <= now /\ i \in 1..(NrThreads + 1)
  /\ \A t \in Threads : /\ count[t] \in 0..made[t]
                        /\ dropped[t] <= made[t] /\ cur_samples[t] <= made[t]

Init ==
  /\ cpc = "sleep" /\ i = 1 /\ kernel \in Kernels /\ timed \in BOOLEAN /\ n \in SampleCounts
  /\ sample_no = 0 /\ now = 0 /\ last = 0 /\ total = 0 /\ stalls = 0 /\ sum_of = 0
  /\ count = [t \in Threads |-> 0] /\ made = count /\ dropped = count
  /\ cur_samples = count

\* A round of the kernel of thread t, whose loop ends only when the counter
\* wraps to exactly 0.
Round(t) ==
  /\ cpc \notin {"done", "died"}
  /\ made[t] < MaxRounds * Added[kernel]
  /\ count' = [count EXCEPT ![t] = @ + Added[kernel]]
  /\ made' = [made EXCEPT ![t] = @ + Added[kernel]]
  /\ UNCHANGED <<cpc, i, kernel, timed, n, sample_no, cur_samples, now, last,
                 total, stalls, sum_of, dropped>>

\* The loop condition and usleep.
Sleep ==
  /\ cpc = "sleep"
  /\ IF n = 0 \/ sample_no < NrSamples
     THEN /\ sample_no <= MaxSamples
          /\ \E d \in {Delay, Delay + 1} : now' = now + d
          /\ cpc' = "collect"
     ELSE cpc' = "done" /\ UNCHANGED now
  /\ i' = 1 /\ cur_samples' = [t \in Threads |-> 0]
  /\ UNCHANGED <<kernel, timed, n, sample_no, last, total, stalls, sum_of,
                 count, made, dropped>>

Bug_Left(t) == count[t]
\* What the exchange leaves in the counter of t.
Left(t) == 0

\* An iteration of the loop over the threads: the counter is exchanged with 0.
Collect ==
  /\ cpc = "collect"
  /\ i <= NrThreads
  /\ cur_samples' = [cur_samples EXCEPT ![i] = count[i]]
  /\ count' = [count EXCEPT ![i] = Left(i)]
  /\ dropped' = IF sample_no = 0 THEN [dropped EXCEPT ![i] = count[i]] ELSE dropped
  /\ i' = i + 1
  /\ UNCHANGED <<cpc, kernel, timed, n, sample_no, now, last, total, stalls,
                 sum_of, made>>

\* The sample counts: it is not the first one.
Kept == sample_no > 0

\* The rest of the body: time_delta, the sums, and the timeout.  The report
\* of a timeout divides by the duration, which is 0 for -N -n 0.
Weigh ==
  /\ cpc = "collect" /\ i > NrThreads
  /\ last' = now
  /\ IF Kept
     THEN /\ total' = total + SumOf(cur_samples)
          /\ stalls' = IF SumOf(cur_samples) = 0 THEN stalls + 1 ELSE stalls
          /\ sum_of' = sum_of + 1
          /\ cpc' = IF ~DurationOver(now) THEN "sleep"
                    ELSE IF n = 0 THEN "died" ELSE "done"
     ELSE cpc' = "sleep" /\ UNCHANGED <<total, stalls, sum_of>>
  /\ sample_no' = IF cpc' = "sleep" THEN sample_no + 1 ELSE sample_no
  /\ UNCHANGED <<i, kernel, timed, n, cur_samples, now, count, made, dropped>>

ChaseMain == Sleep \/ Collect \/ Weigh
Next == ChaseMain \/ \E t \in Threads : Round(t)
Spec == Init /\ [][Next]_chaseVars

-----------------------------------------------------------------------------
(* Properties *)

\* Every dereference is counted once: it is in a kept sample, in the sample
\* that is being collected, in the dropped one or still in its counter, while
\* the threads go on adding (multichase.c:928-932, 951).
DereferencesCountedOnce ==
  SumOf(made) = total + SumOf(count) + SumOf(dropped)
                + (IF cpc = "collect" /\ sample_no > 0 THEN SumOf(cur_samples) ELSE 0)

\* The average is over the samples that were taken: print_average divides by
\* nr_samples - 1 (multichase.c:973).
AverageOverSamplesTaken == cpc = "done" => sum_of = NrSamples - 1
=============================================================================
