---------------------------- MODULE LoadSampling ----------------------------
(***************************************************************************)
(* The sampling of multichase/multiload.c: main asks every thread for its  *)
(* next sample by writing sample_no, and takes each answer by exchanging   *)
(* count with 0, as soon as it is not 0.  A load thread answers between two *)
(* passes over its buffer (LOAD_MEMORY_SAMPLE_MIBPS); a chase thread adds  *)
(* to count all the time.  There is no lock.                               *)
(*                                                                         *)
(* Threads are numbered from 0, chase threads first.  The startup barrier  *)
(* is StartupBarrier; here every thread is past it.  A rate is a natural   *)
(* number, as it is after the conversion to uint64_t; the time at which an *)
(* interval begins is the number of the last sample requested of everybody. *)
(***************************************************************************)
EXTENDS Integers

CONSTANTS
  NrChase,     \* nr_chase_threads
  NrLoad,      \* nr_load_threads
  NrSamples,   \* nr_samples as the user gave it; one more is taken, and dropped
  Rates,       \* the rates that a load thread may measure, in MiB/s
  MaxCount     \* bound on the steps a chase thread makes between two samples

ASSUME ThreadsAssumption == NrChase \in Nat /\ NrLoad \in Nat /\ NrChase + NrLoad > 0
ASSUME SamplesAssumption == NrSamples \in Nat \ {0}
ASSUME RatesAssumption == Rates \subseteq Nat
ASSUME MaxCountAssumption == MaxCount \in Nat \ {0}

NrThreads == NrChase + NrLoad
Threads == 0..(NrThreads - 1)
ChaseThreads == 0..(NrChase - 1)
LoadThreads == Threads \ ChaseThreads
\* The samples taken; number 0 is dropped.
Samples == 0..NrSamples

VARIABLES
  mpc,         \* where main is
  sample,      \* main's sample_no
  i,           \* main's loop variable
  used,        \* the answer main took from each thread for this sample
  sample_no,   \* the request each thread sees
  count,       \* the answer each thread gives; the interval it was measured over
  lpc,         \* where each load thread is
  cur_sample, nxt_sample,   \* local to each load thread
  time0        \* when the interval of each load thread began

mainVars == <<mpc, sample, i, used>>
loadVars == <<lpc, cur_sample, nxt_sample, time0>>
vars == <<mainVars, sample_no, count, loadVars>>

\* An answer: its value, the request it answers (-1 for none) and the time at
\* which the interval it was measured over began.
Answers == [value : Rates \union 0..MaxCount, to : Samples \union {-1},
            from : Samples \union {-1}]
None == [value |-> 0, to |-> -1, from |-> -1]

\* The last sample that main has begun to request (-1 during the warm-up).
Now == IF mpc \in {"warmup", "sleep"} THEN sample - 1 ELSE sample

TypeOK ==
  /\ mpc \in {"warmup", "sleep", "request", "collect", "exited"}
  /\ sample \in Samples
  /\ i \in 0..NrThreads
  /\ used \in [Threads -> Answers]
  /\ sample_no \in [Threads -> Samples]
  /\ count \in [Threads -> Answers]
  /\ lpc \in [LoadThreads -> {"pass", "test", "answer", "restart"}]
  /\ cur_sample \in [LoadThreads -> Samples \union {-1}]
  /\ nxt_sample \in [LoadThreads -> Samples]
  /\ time0 \in [LoadThreads -> Samples \union {-1}]

Init ==
  /\ mpc = "warmup" /\ sample = 0 /\ i = 0
  /\ used = [t \in Threads |-> None]
  /\ sample_no = [t \in Threads |-> 0]
  /\ count = [t \in Threads |-> None]
  /\ lpc = [t \in LoadThreads |-> "pass"]
  /\ cur_sample = [t \in LoadThreads |-> -1]
  /\ nxt_sample = [t \in LoadThreads |-> 0]
  /\ time0 = [t \in LoadThreads |-> -1]

-----------------------------------------------------------------------------
(* main *)

\* The delays before the first sample and between two samples.
Sleep ==
  /\ \/ mpc = "warmup" /\ mpc' = "sleep"
     \/ mpc = "sleep" /\ mpc' = "request"
  /\ UNCHANGED <<sample, i, used, sample_no, count, loadVars>>

\* One iteration of the loop that requests the sample.
Request ==
  /\ mpc = "request"
  /\ sample_no' = [sample_no EXCEPT ![i] = sample]
  /\ IF i + 1 = NrThreads THEN mpc' = "collect" /\ i' = 0
     ELSE i' = i + 1 /\ UNCHANGED mpc
  /\ UNCHANGED <<sample, used, count, loadVars>>

\* The exchange returned 0: main sleeps and tries again.
Poll ==
  /\ mpc = "collect"
  /\ count[i].value = 0
  /\ count' = [count EXCEPT ![i] = None]
  /\ UNCHANGED <<mainVars, sample_no, loadVars>>

Bug_Take ==    \* takes one sample more
  /\ mpc = "collect"
  /\ count[i].value # 0
  /\ used' = [used EXCEPT ![i] = count[i]]
  /\ count' = [count EXCEPT ![i] = None]
  /\ IF i + 1 < NrThreads THEN i' = i + 1 /\ UNCHANGED <<mpc, sample>>
     ELSE IF sample <= NrSamples THEN mpc' = "sleep" /\ sample' = sample + 1 /\ i' = 0
     ELSE mpc' = "exited" /\ i' = NrThreads /\ UNCHANGED sample
  /\ UNCHANGED <<sample_no, loadVars>>

\* The exchange returned an answer.  After the last thread the next sample begins,
\* or main prints the results and exits.
Take ==
  /\ mpc = "collect"
  /\ count[i].value # 0
  /\ used' = [used EXCEPT ![i] = count[i]]
  /\ count' = [count EXCEPT ![i] = None]
  /\ IF i + 1 < NrThreads THEN i' = i + 1 /\ UNCHANGED <<mpc, sample>>
     ELSE IF sample < NrSamples THEN mpc' = "sleep" /\ sample' = sample + 1 /\ i' = 0
     ELSE mpc' = "exited" /\ i' = NrThreads /\ UNCHANGED sample
  /\ UNCHANGED <<sample_no, loadVars>>

-----------------------------------------------------------------------------
(* The threads, until main exits *)

Running == mpc # "exited"

\* A batch of steps of a chase; nothing asks for it.
Chase(t) ==
  /\ Running
  /\ count[t].value < MaxCount
  /\ count' = [count EXCEPT ![t].value = @ + 1]
  /\ UNCHANGED <<mainVars, sample_no, loadVars>>

\* A pass over the buffer, then the read of sample_no.
Pass(t) ==
  /\ Running
  /\ lpc[t] = "pass"
  /\ nxt_sample' = [nxt_sample EXCEPT ![t] = sample_no[t]]
  /\ lpc' = [lpc EXCEPT ![t] = "test"]
  /\ UNCHANGED <<mainVars, sample_no, count, cur_sample, time0>>

Bug_Asked(t) == count[t].value = 0    \* answers although nothing new was asked

\* A sample was requested that this thread has not answered, and the last answer
\* was taken.
Asked(t) == cur_sample[t] # nxt_sample[t] /\ count[t].value = 0

Test(t) ==
  /\ Running
  /\ lpc[t] = "test"
  /\ lpc' = [lpc EXCEPT ![t] = IF Asked(t) THEN "answer" ELSE "pass"]
  /\ UNCHANGED <<mainVars, sample_no, count, cur_sample, nxt_sample, time0>>

\* The rate since time0 is added to count, which is still 0.
Answer(t) ==
  /\ Running
  /\ lpc[t] = "answer"
  /\ \E r \in Rates :
       count' = [count EXCEPT ![t] = [value |-> r, to |-> nxt_sample[t], from |-> time0[t]]]
  /\ lpc' = [lpc EXCEPT ![t] = "restart"]
  /\ UNCHANGED <<mainVars, sample_no, cur_sample, nxt_sample, time0>>

Bug_Restart(t) ==    \* reads sample_no again
  /\ Running
  /\ lpc[t] = "restart"
  /\ cur_sample' = [cur_sample EXCEPT ![t] = sample_no[t]]
  /\ time0' = [time0 EXCEPT ![t] = Now]
  /\ lpc' = [lpc EXCEPT ![t] = "pass"]
  /\ UNCHANGED <<mainVars, sample_no, count, nxt_sample>>

Bug_NoReset(t) ==    \* keeps counting since the beginning
  /\ Running
  /\ lpc[t] = "restart"
  /\ cur_sample' = [cur_sample EXCEPT ![t] = nxt_sample[t]]
  /\ lpc' = [lpc EXCEPT ![t] = "pass"]
  /\ UNCHANGED <<mainVars, sample_no, count, nxt_sample, time0>>

\* The sample is done; the next interval begins.
Restart(t) ==
  /\ Running
  /\ lpc[t] = "restart"
  /\ cur_sample' = [cur_sample EXCEPT ![t] = nxt_sample[t]]
  /\ time0' = [time0 EXCEPT ![t] = Now]
  /\ lpc' = [lpc EXCEPT ![t] = "pass"]
  /\ UNCHANGED <<mainVars, sample_no, count, nxt_sample>>

-----------------------------------------------------------------------------
MainStep == Sleep \/ Request \/ Poll \/ Take
LoadStep(t) == Pass(t) \/ Test(t) \/ Answer(t) \/ Restart(t)

Next ==
  \/ MainStep
  \/ \E t \in ChaseThreads : Chase(t)
  \/ \E t \in LoadThreads : LoadStep(t)

Spec == Init /\ [][Next]_vars

\* Every thread runs on a cpu of its own.
FairSpec ==
  /\ Spec
  /\ WF_vars(MainStep)
  /\ \A t \in ChaseThreads : WF_vars(Chase(t))
  /\ \A t \in LoadThreads : WF_vars(LoadStep(t))

-----------------------------------------------------------------------------
(* Properties *)

\* The load threads from which main has taken an answer for this sample.
Taken == {t \in LoadThreads : t < i /\ mpc \in {"collect", "exited"}}

\* What main takes from a load thread for a sample answers the request for that
\* sample, never an earlier one, although main and the thread agree only through two
\* words that each reads at its own time (multiload.c:436-455, 1331-1361).
AnswersThisSample == \A t \in Taken : used[t].to = sample

\* The interval of an answer begins only after the sample before it was requested:
\* no pass over the buffer is counted in two samples, nor in a later one than the
\* next, although a thread may be slow to restart its interval (multiload.c:452-455).
\* Samples 0 and 1 are the business of WarmupIsDropped.
IntervalsAreRecent == \A t \in Taken : sample > 1 => used[t].from >= sample - 1

\* Every thread answers every request and no request is lost, so that main gets all
\* its samples and ends ("Main thread will read and set to 0 so we know this sample is
\* done", multiload.c:450-451).
SamplingEnds == <>(mpc = "exited")

\* What main counts was measured after the warm-up delay: the interval of a sample
\* that is not dropped begins only once main samples ("now start sampling their
\* progress", "we drop the first sample", multiload.c:1312-1314).
WarmupIsDropped == \A t \in Taken : sample > 0 => used[t].from >= 0
=============================================================================
