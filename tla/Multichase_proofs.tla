-------------------------- MODULE Multichase_proofs --------------------------
(***************************************************************************)
(* Proofs about multichase, for every number of threads, samples and       *)
(* rounds and every request: first the sampling, then the chases, from the *)
(* sizes, the permutations and the slots up to the inductive invariant     *)
(* ChaseInv and what follows from it of a lap, of the chunks and of the    *)
(* TLB groups; at the end all together about the specification that the    *)
(* run of MCMultichase checks.                                             *)
(***************************************************************************)
EXTENDS MCMultichase, StartupBarrier_proofs, WellFoundedInduction

-----------------------------------------------------------------------------
(* Sums over the threads *)

\* Every set of numbers has a least.
LEMMA Least ==
  ASSUME NEW T \in SUBSET Nat, T # {}
  PROVE  \E m \in T : \A l \in T : m <= l
<1>1. \E m \in T : \A l \in T : ~(<<l, m>> \in OpToRel(<, Nat))
  BY NatLessThanWellFounded, WFMin
<1>2. PICK m \in T : \A l \in T : ~(l < m)
  BY <1>1 DEF OpToRel
<1>3. \A l \in T : m <= l
  BY <1>2
<1> QED
  BY <1>3

\* s is the sums of f from the first thread up to each of the first len.
SumRec(f, len, s) == s = [k \in 0..len |-> IF k = 0 THEN 0 ELSE s[k - 1] + f[k]]

\* There are such sums.
LEMMA SumsExist ==
  ASSUME NEW f, NEW len \in Nat
  PROVE  \E s : SumRec(f, len, s)
<1> DEFINE Bad == {m \in Nat : ~\E s : SumRec(f, m, s)}
<1>1. SUFFICES ASSUME Bad # {} PROVE FALSE
  OBVIOUS
<1>2. PICK m \in Bad : \A l \in Bad : m <= l
  <2>1. Bad \in SUBSET Nat
    OBVIOUS
  <2> HIDE DEF Bad
  <2> QED
    BY <1>1, <2>1, Least
<1>3. CASE m = 0
  <2>1. SumRec(f, 0, [k \in 0..0 |-> 0])
    BY DEF SumRec
  <2> QED
    BY <1>3, <2>1
<1>4. CASE m # 0
  <2>1. m - 1 \in Nat /\ m - 1 \notin Bad
    BY <1>2, <1>4
  <2>2. PICK s : SumRec(f, m - 1, s)
    BY <2>1
  <2> DEFINE t == [k \in 0..m |-> IF k = m THEN s[m - 1] + f[m] ELSE s[k]]
  <2>3. SumRec(f, m, t)
    <3>1. \A k \in 0..(m - 1) : s[k] = IF k = 0 THEN 0 ELSE s[k - 1] + f[k]
      BY <2>2 DEF SumRec
    <3>2. \A k \in 0..m : t[k] = IF k = 0 THEN 0 ELSE t[k - 1] + f[k]
      <4>1. SUFFICES ASSUME NEW k \in 0..m PROVE t[k] = IF k = 0 THEN 0 ELSE t[k - 1] + f[k]
        OBVIOUS
      <4>2. CASE k = m
        BY <1>4, <4>2
      <4>3. CASE k # m
        BY <1>4, <3>1, <4>3
      <4> QED
        BY <4>2, <4>3
    <3> HIDE DEF t
    <3>3. t = [k \in 0..m |-> t[k]]
      BY DEF t
    <3> QED
      BY <3>2, <3>3 DEF SumRec
  <2> QED
    BY <2>3
<1> QED
  BY <1>3, <1>4

\* What SumOf adds up, thread after thread.
LEMMA SumOfIs ==
  ASSUME NEW f
  PROVE  \E s : /\ Sampling!SumOf(f) = s[NrThreads]
                /\ s[0] = 0
                /\ \A k \in 1..NrThreads : s[k] = s[k - 1] + f[k]
<1> DEFINE s == CHOOSE s : SumRec(f, NrThreads, s)
<1>1. SumRec(f, NrThreads, s)
  BY SumsExist, NrThreadsAssumption
<1>2. Sampling!SumOf(f) = s[NrThreads]
  BY Zenon DEF Sampling!SumOf, SumRec
<1> HIDE DEF s
<1>3. s[0] = 0 /\ \A k \in 1..NrThreads : s[k] = s[k - 1] + f[k]
  BY <1>1, NrThreadsAssumption DEF SumRec
<1> QED
  BY <1>2, <1>3

\* The sum of the threads' numbers is a number.
LEMMA SumType ==
  ASSUME NEW f \in [Threads -> Nat]
  PROVE  Sampling!SumOf(f) \in Nat
<1>1. PICK s : /\ Sampling!SumOf(f) = s[NrThreads]
               /\ s[0] = 0
               /\ \A k \in 1..NrThreads : s[k] = s[k - 1] + f[k]
  BY SumOfIs
<1> DEFINE Bad == {k \in 0..NrThreads : s[k] \notin Nat}
<1>2. SUFFICES ASSUME Bad # {} PROVE FALSE
  BY <1>1, NrThreadsAssumption
<1>3. PICK m \in Bad : \A l \in Bad : m <= l
  <2>1. Bad \in SUBSET Nat
    OBVIOUS
  <2> HIDE DEF Bad
  <2> QED
    BY <1>2, <2>1, Least
<1>4. m # 0
  BY <1>1
<1>5. m \in 1..NrThreads /\ m - 1 \in 0..NrThreads /\ m - 1 \notin Bad
  BY <1>3, <1>4, NrThreadsAssumption
<1>6. f[m] \in Nat
  BY <1>5 DEF Threads
<1> QED
  BY <1>1, <1>5, <1>6

\* A change of one term changes the sum by as much.
LEMMA SumExcept ==
  ASSUME NEW f \in [Threads -> Nat], NEW t \in Threads, NEW v \in Nat
  PROVE  Sampling!SumOf([f EXCEPT ![t] = v]) + f[t] = Sampling!SumOf(f) + v
<1> DEFINE g == [f EXCEPT ![t] = v]
<1>0. /\ t \in 1..NrThreads /\ f[t] \in Nat
      /\ \A k \in 1..NrThreads : f[k] \in Nat /\ g[k] = IF k = t THEN v ELSE f[k]
  BY DEF Threads
<1>1. PICK s : /\ Sampling!SumOf(f) = s[NrThreads]
               /\ s[0] = 0
               /\ \A k \in 1..NrThreads : s[k] = s[k - 1] + f[k]
  BY SumOfIs
<1>2. PICK r : /\ Sampling!SumOf(g) = r[NrThreads]
               /\ r[0] = 0
               /\ \A k \in 1..NrThreads : r[k] = r[k - 1] + g[k]
  BY SumOfIs
<1> HIDE DEF g
<1> DEFINE Good(k) == /\ s[k] \in Nat /\ r[k] \in Nat
                      /\ IF t <= k THEN r[k] + f[t] = s[k] + v ELSE r[k] = s[k]
           Bad == {k \in 0..NrThreads : ~Good(k)}
<1>3. SUFFICES ASSUME Bad # {} PROVE FALSE
  <2>1. Good(NrThreads)
    BY <1>3, NrThreadsAssumption
  <2> QED
    BY <1>0, <1>1, <1>2, <2>1 DEF g
<1>4. PICK m \in Bad : \A l \in Bad : m <= l
  <2>1. Bad \in SUBSET Nat
    OBVIOUS
  <2> HIDE DEF Bad
  <2> QED
    BY <1>3, <2>1, Least
<1>5. m # 0
  BY <1>0, <1>1, <1>2
<1>6. m \in 1..NrThreads /\ Good(m - 1)
  BY <1>4, <1>5, NrThreadsAssumption
<1>7. s[m] = s[m - 1] + f[m] /\ r[m] = r[m - 1] + g[m]
  BY <1>1, <1>2, <1>6
<1> QED
  BY <1>0, <1>6, <1>7, NrThreadsAssumption

\* And zero when all are.
LEMMA SumOfZeros == Sampling!SumOf([t \in Threads |-> 0]) = 0
<1> DEFINE f == [t \in Threads |-> 0]
<1>1. PICK s : /\ Sampling!SumOf(f) = s[NrThreads]
               /\ s[0] = 0
               /\ \A k \in 1..NrThreads : s[k] = s[k - 1] + f[k]
  BY SumOfIs
<1> DEFINE Bad == {k \in 0..NrThreads : s[k] # 0}
<1>2. SUFFICES ASSUME Bad # {} PROVE FALSE
  BY <1>1, NrThreadsAssumption
<1>3. PICK m \in Bad : \A l \in Bad : m <= l
  <2>1. Bad \in SUBSET Nat
    OBVIOUS
  <2> HIDE DEF Bad
  <2> QED
    BY <1>2, <2>1, Least
<1>4. m \in 1..NrThreads /\ m - 1 \in 0..NrThreads /\ m - 1 \notin Bad
  BY <1>1, <1>3, NrThreadsAssumption
<1>5. f[m] = 0
  BY <1>4 DEF Threads
<1> QED
  BY <1>1, <1>4, <1>5

-----------------------------------------------------------------------------
(* The sampling: each thread's counter is between 0 and what the thread has made; in    *)
(* sample 0 nothing has been dropped yet of the threads main has not come to, and in a  *)
(* later one nothing taken.                                                             *)

SampleTypes ==
  /\ cpc \in {"sleep", "collect", "done", "died"}
  /\ kernel \in Kernels /\ timed \in BOOLEAN /\ n \in SampleCounts
  /\ sample_no \in Nat /\ sum_of \in Nat /\ stalls \in 0..sum_of /\ total \in Nat
  /\ now \in Nat /\ last \in Nat /\ last <= now /\ i \in 1..(NrThreads + 1)
  /\ {count, made, dropped, cur_samples} \subseteq [Threads -> Nat]

CounterInv ==
  \A t \in Threads : count[t] <= made[t] /\ dropped[t] <= made[t] /\ cur_samples[t] <= made[t]

\* The terms of the average are the samples before this one, but for sample 0.
TermsInv ==
  /\ sum_of <= sample_no
  /\ cpc \in {"sleep", "collect"} => sum_of = IF sample_no = 0 THEN 0 ELSE sample_no - 1

NotYetInv ==
  /\ cpc = "sleep" /\ sample_no = 0 => i = 1
  /\ cpc = "collect" => \A t \in Threads : t >= i => cur_samples[t] = 0
  /\ sample_no = 0 => \A t \in Threads : t >= i => dropped[t] = 0

SamplingInv ==
  SampleTypes /\ CounterInv /\ TermsInv /\ NotYetInv /\ Sampling!DereferencesCountedOnce

\* A round of each kernel adds a number to its thread's counter.
LEMMA AddedType == kernel \in Kernels => Sampling!Added[kernel] \in Nat
<1>1. \A k \in DOMAIN Sampling!Added : Sampling!Added[k] \in Nat
  BY DEF Sampling!Added
<1> QED
  BY <1>1, PartsAssumption DEF Sampling!Assumptions

\* The samples asked for are a number.
LEMMA SampleCountType == n \in SampleCounts => n \in Nat
  BY PartsAssumption DEF Sampling!Assumptions

\* The invariant holds before the first sample.
LEMMA SamplingStart == Sampling!Init => SamplingInv
<1> SUFFICES ASSUME Sampling!Init PROVE SamplingInv
  OBVIOUS
<1> USE DEF Sampling!Init
<1>1. count = [t \in Threads |-> 0]
  BY DEF Threads, Sampling!Threads
<1>2. SampleTypes
  BY <1>1, NrThreadsAssumption DEF SampleTypes
<1>3. CounterInv /\ TermsInv /\ NotYetInv
  BY <1>1 DEF CounterInv, TermsInv, NotYetInv
<1>4. Sampling!DereferencesCountedOnce
  BY <1>1, SumOfZeros DEF Sampling!DereferencesCountedOnce
<1> QED
  BY <1>2, <1>3, <1>4 DEF SamplingInv

\* A thread's round keeps it,
LEMMA SamplingRound ==
  ASSUME SamplingInv, NEW t \in Threads, Sampling!Round(t)
  PROVE  SamplingInv'
<1> DEFINE a == Sampling!Added[kernel]
<1>1. a \in Nat
  BY AddedType DEF SamplingInv, SampleTypes
<1>2. /\ count' = [count EXCEPT ![t] = count[t] + a]
      /\ made' = [made EXCEPT ![t] = made[t] + a]
      /\ UNCHANGED <<cpc, i, kernel, timed, n, sample_no, cur_samples, now, last, total,
                     stalls, sum_of, dropped>>
  BY DEF Sampling!Round
<1> HIDE DEF a
<1>3. /\ {count, made, dropped, cur_samples} \subseteq [Threads -> Nat]
      /\ count[t] \in Nat /\ made[t] \in Nat
  BY DEF SamplingInv, SampleTypes
<1>4. count' \in [Threads -> Nat] /\ made' \in [Threads -> Nat]
  BY <1>1, <1>2, <1>3
<1>5. SampleTypes'
  BY <1>2, <1>3, <1>4 DEF SamplingInv, SampleTypes
<1>6. CounterInv'
  BY <1>1, <1>2, <1>3, <1>4 DEF SamplingInv, CounterInv
<1>7. TermsInv' /\ NotYetInv'
  BY <1>2 DEF SamplingInv, TermsInv, NotYetInv
<1>8. /\ Sampling!SumOf(count') = Sampling!SumOf(count) + a
      /\ Sampling!SumOf(made') = Sampling!SumOf(made) + a
  <2>0. count[t] + a \in Nat /\ made[t] + a \in Nat
    BY <1>1, <1>3
  <2>1. Sampling!SumOf(count') + count[t] = Sampling!SumOf(count) + (count[t] + a)
    BY <1>2, <1>3, <2>0, SumExcept
  <2>2. Sampling!SumOf(made') + made[t] = Sampling!SumOf(made) + (made[t] + a)
    BY <1>2, <1>3, <2>0, SumExcept
  <2>3. /\ Sampling!SumOf(count) \in Nat /\ Sampling!SumOf(count') \in Nat
        /\ Sampling!SumOf(made) \in Nat /\ Sampling!SumOf(made') \in Nat
    BY <1>3, <1>4, SumType
  <2> QED
    BY <1>1, <1>3, <2>1, <2>2, <2>3
<1>9. Sampling!DereferencesCountedOnce'
  <2>1. Sampling!SumOf(made) = total + Sampling!SumOf(count) + Sampling!SumOf(dropped)
          + (IF cpc = "collect" /\ sample_no > 0 THEN Sampling!SumOf(cur_samples) ELSE 0)
    BY DEF SamplingInv, Sampling!DereferencesCountedOnce
  <2> DEFINE rest == IF cpc = "collect" /\ sample_no > 0 THEN Sampling!SumOf(cur_samples) ELSE 0
  <2>2. /\ Sampling!SumOf(count) \in Nat /\ Sampling!SumOf(dropped) \in Nat
        /\ total \in Nat /\ rest \in Nat
    BY <1>3, SumType DEF SamplingInv, SampleTypes
  <2>3. Sampling!SumOf(dropped') = Sampling!SumOf(dropped) /\ total' = total
    BY <1>2
  <2>4. rest' = rest
    BY <1>2
  <2> HIDE DEF rest
  <2>5. Sampling!SumOf(made') = total' + Sampling!SumOf(count') + Sampling!SumOf(dropped') + rest'
    BY <1>1, <1>8, <2>1, <2>2, <2>3, <2>4 DEF rest
  <2> QED
    BY <2>5 DEF Sampling!DereferencesCountedOnce, rest
<1> QED
  BY <1>5, <1>6, <1>7, <1>9 DEF SamplingInv

\* as do main's wait for a sample,
LEMMA SamplingSleep ==
  ASSUME SamplingInv, Sampling!Sleep
  PROVE  SamplingInv'
<1>1. /\ cpc = "sleep" /\ cpc' \in {"collect", "done"} /\ i' = 1
      /\ cur_samples' = [t \in Threads |-> 0]
      /\ UNCHANGED <<kernel, timed, n, sample_no, last, total, stalls, sum_of, count, made,
                     dropped>>
  BY DEF Sampling!Sleep, Threads, Sampling!Threads
<1>2. now \in Nat /\ now' \in Nat /\ now' >= now
  BY DEF Sampling!Sleep, Sampling!Delay, SamplingInv, SampleTypes
<1>3. SampleTypes'
  BY <1>1, <1>2, NrThreadsAssumption DEF SamplingInv, SampleTypes
<1>4. CounterInv'
  BY <1>1 DEF SamplingInv, SampleTypes, CounterInv
<1>5. TermsInv' /\ NotYetInv'
  BY <1>1 DEF SamplingInv, TermsInv, NotYetInv
<1>6. Sampling!DereferencesCountedOnce'
  <2>1. Sampling!SumOf(cur_samples') = 0
    BY <1>1, SumOfZeros
  <2> QED
    BY <1>1, <2>1 DEF SamplingInv, Sampling!DereferencesCountedOnce
<1> QED
  BY <1>3, <1>4, <1>5, <1>6 DEF SamplingInv

\* its exchange of a counter
LEMMA SamplingCollect ==
  ASSUME SamplingInv, Sampling!Collect
  PROVE  SamplingInv'
<1>1. /\ cpc = "collect" /\ i <= NrThreads /\ i' = i + 1
      /\ cur_samples' = [cur_samples EXCEPT ![i] = count[i]]
      /\ count' = [count EXCEPT ![i] = 0]
      /\ dropped' = IF sample_no = 0 THEN [dropped EXCEPT ![i] = count[i]] ELSE dropped
      /\ UNCHANGED <<cpc, kernel, timed, n, sample_no, now, last, total, stalls, sum_of, made>>
  BY DEF Sampling!Collect, Sampling!Left
<1>2. /\ i \in Threads /\ i \in Nat
      /\ {count, made, dropped, cur_samples} \subseteq [Threads -> Nat]
      /\ count[i] \in Nat /\ dropped[i] \in Nat /\ sample_no \in Nat /\ total \in Nat
  <2>1. i \in Threads /\ i \in Nat
    BY <1>1, NrThreadsAssumption DEF SamplingInv, SampleTypes, Threads
  <2> QED
    BY <2>1 DEF SamplingInv, SampleTypes
<1>3. {count', made', dropped', cur_samples'} \subseteq [Threads -> Nat]
  BY <1>1, <1>2
<1>4. SampleTypes'
  BY <1>1, <1>2, <1>3, NrThreadsAssumption DEF SamplingInv, SampleTypes
<1>5. CounterInv'
  BY <1>1, <1>2, <1>3 DEF SamplingInv, CounterInv
<1>6. TermsInv'
  BY <1>1 DEF SamplingInv, TermsInv
<1>7. NotYetInv'
  BY <1>1, <1>2, <1>3 DEF SamplingInv, NotYetInv, Threads
<1>8. cur_samples[i] = 0 /\ (sample_no = 0 => dropped[i] = 0)
  BY <1>1, <1>2 DEF SamplingInv, NotYetInv
<1>9. Sampling!SumOf(count') + count[i] = Sampling!SumOf(count) + 0
  BY <1>1, <1>2, SumExcept
<1>10. Sampling!SumOf(cur_samples') + 0 = Sampling!SumOf(cur_samples) + count[i]
  BY <1>1, <1>2, <1>8, SumExcept
<1>11. sample_no = 0 => Sampling!SumOf(dropped') + 0 = Sampling!SumOf(dropped) + count[i]
  <2>1. dropped \in [Threads -> Nat] /\ i \in Threads /\ count[i] \in Nat
    BY <1>2
  <2>2. Sampling!SumOf([dropped EXCEPT ![i] = count[i]]) + dropped[i]
          = Sampling!SumOf(dropped) + count[i]
    BY <2>1, SumExcept
  <2> QED
    BY <1>1, <1>8, <2>2
<1>12. sample_no # 0 => Sampling!SumOf(dropped') = Sampling!SumOf(dropped)
  BY <1>1
<1>13. /\ Sampling!SumOf(count) \in Nat /\ Sampling!SumOf(count') \in Nat
       /\ Sampling!SumOf(dropped) \in Nat /\ Sampling!SumOf(dropped') \in Nat
       /\ Sampling!SumOf(cur_samples) \in Nat /\ Sampling!SumOf(cur_samples') \in Nat
  BY <1>2, <1>3, SumType
<1>14. Sampling!SumOf(made) = total + Sampling!SumOf(count) + Sampling!SumOf(dropped)
          + (IF sample_no > 0 THEN Sampling!SumOf(cur_samples) ELSE 0)
  BY <1>1 DEF SamplingInv, Sampling!DereferencesCountedOnce
<1>15. Sampling!SumOf(made) = total + Sampling!SumOf(count') + Sampling!SumOf(dropped')
          + (IF sample_no > 0 THEN Sampling!SumOf(cur_samples') ELSE 0)
  <2>1. CASE sample_no = 0
    BY <1>2, <1>9, <1>11, <1>13, <1>14, <2>1
  <2>2. CASE sample_no # 0
    BY <1>2, <1>9, <1>10, <1>12, <1>13, <1>14, <2>2
  <2> QED
    BY <2>1, <2>2
<1>16. Sampling!DereferencesCountedOnce'
  BY <1>1, <1>15 DEF Sampling!DereferencesCountedOnce
<1> QED
  BY <1>4, <1>5, <1>6, <1>7, <1>16 DEF SamplingInv

\* and the end of the sample.
LEMMA SamplingWeigh ==
  ASSUME SamplingInv, Sampling!Weigh
  PROVE  SamplingInv'
<1>1. /\ cpc = "collect" /\ i > NrThreads /\ last' = now
      /\ cpc' \in {"sleep", "died", "done"} /\ (sample_no = 0 => cpc' = "sleep")
      /\ sample_no' = IF cpc' = "sleep" THEN sample_no + 1 ELSE sample_no
      /\ UNCHANGED <<i, kernel, timed, n, cur_samples, now, count, made, dropped>>
  BY DEF Sampling!Weigh, Sampling!Kept
<1>2. sample_no = 0 => UNCHANGED <<total, stalls, sum_of>>
  BY DEF Sampling!Weigh, Sampling!Kept
<1>3. sample_no > 0 => /\ total' = total + Sampling!SumOf(cur_samples)
                       /\ stalls' \in {stalls, stalls + 1}
                       /\ sum_of' = sum_of + 1
  BY DEF Sampling!Weigh, Sampling!Kept
<1>4. /\ Sampling!SumOf(cur_samples) \in Nat /\ Sampling!SumOf(count) \in Nat
      /\ Sampling!SumOf(dropped) \in Nat
      /\ sample_no \in Nat /\ total \in Nat /\ sum_of \in Nat /\ stalls \in 0..sum_of
  BY SumType DEF SamplingInv, SampleTypes
<1>5. total' \in Nat /\ sum_of' \in Nat /\ stalls' \in 0..sum_of' /\ sample_no' \in Nat
  BY <1>1, <1>2, <1>3, <1>4
<1>6. SampleTypes'
  BY <1>1, <1>5 DEF SamplingInv, SampleTypes
<1>7. CounterInv'
  BY <1>1 DEF SamplingInv, CounterInv
<1>8. TermsInv'
  BY <1>1, <1>2, <1>3, <1>4 DEF SamplingInv, TermsInv
<1>9. NotYetInv'
  <2>1. \A t \in Threads : ~(t >= i)
    BY <1>1, NrThreadsAssumption DEF SamplingInv, SampleTypes, Threads
  <2>2. sample_no' # 0
    BY <1>1, <1>4
  <2> QED
    BY <1>1, <2>1, <2>2 DEF NotYetInv
<1>10. Sampling!DereferencesCountedOnce'
  <2>1. Sampling!SumOf(made) = total + Sampling!SumOf(count) + Sampling!SumOf(dropped)
          + (IF sample_no > 0 THEN Sampling!SumOf(cur_samples) ELSE 0)
    BY <1>1 DEF SamplingInv, Sampling!DereferencesCountedOnce
  <2>2. Sampling!SumOf(made) = total' + Sampling!SumOf(count) + Sampling!SumOf(dropped) + 0
    BY <1>2, <1>3, <1>4, <2>1
  <2> QED
    BY <1>1, <2>2 DEF Sampling!DereferencesCountedOnce
<1> QED
  BY <1>6, <1>7, <1>8, <1>9, <1>10 DEF SamplingInv

\* So each step of the sampling does.
LEMMA SamplingStep == SamplingInv /\ [Sampling!Next]_(Sampling!chaseVars) => SamplingInv'
<1> SUFFICES ASSUME SamplingInv, [Sampling!Next]_(Sampling!chaseVars) PROVE SamplingInv'
  OBVIOUS
<1>1. ASSUME NEW t \in Sampling!Threads, Sampling!Round(t) PROVE SamplingInv'
  BY <1>1, SamplingRound DEF Threads, Sampling!Threads
<1>2. CASE Sampling!ChaseMain
  BY <1>2, SamplingSleep, SamplingCollect, SamplingWeigh DEF Sampling!ChaseMain
<1>3. CASE UNCHANGED Sampling!chaseVars
  BY <1>3 DEF Sampling!chaseVars, SamplingInv, SampleTypes, CounterInv, TermsInv, NotYetInv,
              Sampling!DereferencesCountedOnce
<1> QED
  BY <1>1, <1>2, <1>3 DEF Sampling!Next

\* The counters, the terms and the sums are right in every state of the sampling.
THEOREM SamplingInvariance == Sampling!Spec => []SamplingInv
  BY SamplingStart, SamplingStep, PTL DEF Sampling!Spec

\* The sampling keeps its types.
LEMMA SamplingTypes == SamplingInv => Sampling!TypeOK
  BY DEF SamplingInv, SampleTypes, CounterInv, TermsInv, Sampling!TypeOK, Threads,
         Sampling!Threads

-----------------------------------------------------------------------------
(* The sizes of a request *)

\* Whole TLB groups of whole elements.
Sized(a) == \E e, g \in Chase!Positive : a.tlb = e * a.stride /\ a.mem = g * (e * a.stride)

\* Division with remainder,
LEMMA DivMod ==
  ASSUME NEW x \in Nat, NEW y \in Chase!Positive
  PROVE  /\ x \div y \in Nat /\ (x % y) \in 0..(y - 1)
         /\ x = y * (x \div y) + (x % y)
  BY DEF Chase!Positive

\* and what divides back.
LEMMA DivOf ==
  ASSUME NEW q \in Nat, NEW y \in Chase!Positive, NEW r \in 0..(y - 1)
  PROVE  (q * y + r) \div y = q /\ ((q * y + r) % y) = r
<1> DEFINE p == q * y
<1>1. \A k, b, v \in Nat : b > 0 /\ v < b => (b * k + v) \div b = k /\ ((b * k + v) % b) = v
  OBVIOUS
<1>2. q * y = y * q
  BY DEF Chase!Positive
<1>3. (y * q + r) \div y = q /\ ((y * q + r) % y) = r
  BY <1>1 DEF Chase!Positive
<1> QED
  BY <1>2, <1>3

\* Taking the remainder off leaves a multiple.
LEMMA Multiple ==
  ASSUME NEW x \in Nat, NEW y \in Chase!Positive, y <= x
  PROVE  \E q \in Chase!Positive : x - (x % y) = q * y /\ q * y <= x
<1>1. /\ x \div y \in Nat /\ (x % y) \in 0..(y - 1) /\ x = y * (x \div y) + (x % y)
  BY DivMod
<1>2. x \div y # 0
  BY <1>1 DEF Chase!Positive
<1>3. y * (x \div y) = (x \div y) * y /\ (x \div y) * y \in Nat
  BY <1>1 DEF Chase!Positive
<1>4. x - (x % y) = (x \div y) * y /\ (x \div y) * y <= x
  BY <1>1, <1>3
<1> QED
  BY <1>1, <1>2, <1>4 DEF Chase!Positive

\* The product of two positive numbers.
LEMMA ProductType ==
  ASSUME NEW x \in Chase!Positive, NEW y \in Chase!Positive
  PROVE  x * y \in Chase!Positive /\ x * y >= x /\ x * y >= y
  BY DEF Chase!Positive

\* The sizes are whole once they are rounded.
LEMMA RoundedSized ==
  ASSUME NEW a, Chase!IsRequest(a)
  PROVE  Chase!IsRequest(Chase!Rounded(a)) /\ Sized(Chase!Rounded(a))
<1> DEFINE s == a.stride
           tlb == IF a.tlb < s THEN s ELSE a.tlb - (a.tlb % s)
           mem == IF a.mem >= tlb THEN a.mem - (a.mem % tlb)
                  ELSE IF a.mem < s THEN s ELSE a.mem - (a.mem % s)
           b == [a EXCEPT !.mem = mem, !.tlb = IF a.mem < tlb THEN mem ELSE tlb]
<1>1. Chase!Rounded(a) = b
  BY DEF Chase!Rounded
<1>2. s \in Chase!Positive /\ a.mem \in Chase!Positive /\ a.tlb \in Chase!Positive
  BY DEF Chase!IsRequest
<1>3. \E q \in Chase!Positive : tlb = q * s
  <2>1. CASE a.tlb < s
    <3>1. s = 1 * s /\ 1 \in Chase!Positive
      BY <1>2 DEF Chase!Positive
    <3> QED
      BY <2>1, <3>1
  <2>2. CASE ~(a.tlb < s)
    <3>1. \E q \in Chase!Positive : a.tlb - (a.tlb % s) = q * s
      <4> HIDE DEF s
      <4>1. a.tlb \in Nat /\ s <= a.tlb
        BY <1>2, <2>2 DEF Chase!Positive
      <4> QED
        BY <1>2, <4>1, Multiple
    <3> QED
      BY <2>2, <3>1
  <2> QED
    BY <2>1, <2>2
<1>4. PICK q \in Chase!Positive : tlb = q * s
  BY <1>3
<1>5. tlb \in Chase!Positive
  BY <1>2, <1>4, ProductType
<1> HIDE DEF tlb
<1>6. CASE a.mem >= tlb
  <2>1. PICK g \in Chase!Positive : a.mem - (a.mem % tlb) = g * tlb
    BY <1>2, <1>5, <1>6, Multiple DEF Chase!Positive
  <2>2. mem = g * (q * s) /\ mem \in Chase!Positive /\ ~(a.mem < tlb)
    BY <1>2, <1>4, <1>5, <1>6, <2>1, ProductType DEF Chase!Positive
  <2> HIDE DEF mem
  <2>3. b.mem = mem /\ b.tlb = tlb /\ b.stride = s
    BY <2>2 DEF Chase!IsRequest
  <2>4. Chase!IsRequest(b)
    BY <1>5, <2>2 DEF Chase!IsRequest
  <2>5. Sized(b)
    BY <1>4, <2>2, <2>3 DEF Sized
  <2> QED
    BY <1>1, <2>4, <2>5
<1>7. CASE ~(a.mem >= tlb)
  <2>1. \E e \in Chase!Positive : mem = e * s
    <3>1. CASE a.mem < s
      <4>1. s = 1 * s /\ 1 \in Chase!Positive
        BY <1>2 DEF Chase!Positive
      <4> QED
        BY <1>7, <3>1, <4>1
    <3>2. CASE ~(a.mem < s)
      <4>1. \E e \in Chase!Positive : a.mem - (a.mem % s) = e * s
        <5> HIDE DEF s
        <5>1. a.mem \in Nat /\ s <= a.mem
          BY <1>2, <3>2 DEF Chase!Positive
        <5> QED
          BY <1>2, <5>1, Multiple
      <4> QED
        BY <1>7, <3>2, <4>1
    <3> QED
      BY <3>1, <3>2
  <2>2. PICK e \in Chase!Positive : mem = e * s
    BY <2>1
  <2>3. mem \in Chase!Positive /\ a.mem < tlb
    BY <1>2, <1>5, <1>7, <2>2, ProductType DEF Chase!Positive
  <2> HIDE DEF mem
  <2>4. b.mem = mem /\ b.tlb = mem /\ b.stride = s
    BY <2>3 DEF Chase!IsRequest
  <2>5. mem = 1 * (e * s) /\ 1 \in Chase!Positive
    BY <2>2, <2>3 DEF Chase!Positive
  <2>6. Chase!IsRequest(b)
    BY <2>3 DEF Chase!IsRequest
  <2>7. Sized(b)
    BY <2>2, <2>4, <2>5 DEF Sized
  <2> QED
    BY <1>1, <2>6, <2>7
<1> QED
  BY <1>6, <1>7

\* What the sizes of a rounded request say of each other.
LEMMA Sizes ==
  ASSUME NEW a, Chase!IsRequest(a), Sized(a)
  PROVE  /\ Chase!NrElts(a) \in Chase!Positive /\ Chase!NrGroups(a) \in Chase!Positive
         /\ Chase!PerGroup(a) \in Chase!Positive
         /\ Chase!NrElts(a) = Chase!NrGroups(a) * Chase!PerGroup(a)
         /\ a.mem = Chase!NrElts(a) * a.stride
         /\ a.tlb = Chase!PerGroup(a) * a.stride
<1>1. PICK e, g \in Chase!Positive : a.tlb = e * a.stride /\ a.mem = g * (e * a.stride)
  BY DEF Sized
<1> DEFINE s == a.stride
<1>2. s \in Chase!Positive
  BY DEF Chase!IsRequest
<1> HIDE DEF s
<1>3. e * s \in Chase!Positive /\ g * e \in Chase!Positive
  BY <1>2, ProductType
<1>4. g * (e * s) = (g * e) * s
  BY <1>2 DEF Chase!Positive
<1>5. \A k \in Nat, b \in Chase!Positive : (k * b) \div b = k
  <2> SUFFICES ASSUME NEW k \in Nat, NEW b \in Chase!Positive PROVE (k * b) \div b = k
    OBVIOUS
  <2>1. (k * b + 0) \div b = k
    BY DivOf DEF Chase!Positive
  <2>2. k * b + 0 = k * b
    BY DEF Chase!Positive
  <2> QED
    BY <2>1, <2>2
<1>6. Chase!NrElts(a) = g * e
  BY <1>1, <1>2, <1>3, <1>4, <1>5 DEF Chase!NrElts, s, Chase!Positive
<1>7. Chase!NrGroups(a) = g
  BY <1>1, <1>2, <1>3, <1>5 DEF Chase!NrGroups, s, Chase!Positive
<1>8. Chase!PerGroup(a) = e
  BY <1>1, <1>2, <1>3, <1>5 DEF Chase!PerGroup, s, Chase!Positive
<1> QED
  BY <1>1, <1>3, <1>4, <1>6, <1>7, <1>8 DEF s

\* Every slot has room for an object, and all of them for no more than an element.
LEMMA Room ==
  ASSUME NEW a, Chase!IsRequest(a), Chase!Indices(a) >= 1
  PROVE  /\ Chase!Indices(a) \in Chase!Positive /\ Chase!Scale(a) \in Chase!Positive
         /\ a.base <= Chase!Scale(a) /\ Chase!Indices(a) * Chase!Scale(a) <= a.stride
<1> DEFINE s == a.stride  b == a.base  nr == s \div b
<1>1. s \in Chase!Positive /\ b \in Chase!Positive /\ Chase!Indices(a) = nr /\ Chase!Scale(a) = s \div nr
  BY DEF Chase!IsRequest, Chase!Indices, Chase!Scale
<1> HIDE DEF s, b
<1>2. nr \in Chase!Positive /\ b * nr <= s
  BY <1>1, DivMod DEF Chase!Positive
<1> HIDE DEF nr
<1>3. /\ s \div nr \in Nat /\ (s % nr) \in 0..(nr - 1) /\ s = nr * (s \div nr) + (s % nr)
  BY <1>1, <1>2, DivMod DEF Chase!Positive
<1> DEFINE c == s \div nr
<1> HIDE DEF c
<1>4. b <= c
  <2> SUFFICES ASSUME c + 1 <= b PROVE FALSE
    BY <1>1, <1>3 DEF Chase!Positive, c
  <2>0. nr \in Nat /\ c \in Nat /\ b \in Nat
    BY <1>1, <1>2, <1>3 DEF Chase!Positive, c
  <2>1. nr * (c + 1) <= nr * b
    <3>1. \A x, y, z \in Nat : y <= z => x * y <= x * z
      OBVIOUS
    <3> QED
      BY <2>0, <3>1
  <2>2. nr * (c + 1) = nr * c + nr /\ nr * b = b * nr
    <3>1. \A x, y \in Nat : x * (y + 1) = x * y + x
      OBVIOUS
    <3>2. \A x, y \in Nat : x * y = y * x
      OBVIOUS
    <3> QED
      BY <2>0, <3>1, <3>2
  <2> QED
    BY <1>1, <1>2, <1>3, <2>1, <2>2 DEF Chase!Positive, c
<1>5. nr * c <= s /\ c \in Chase!Positive
  <2>1. c \in Nat /\ nr * c \in Nat /\ s = nr * c + (s % nr) /\ s % nr \in Nat
    BY <1>2, <1>3 DEF Chase!Positive, c
  <2>2. b \in Nat /\ b # 0 /\ s \in Nat
    BY <1>1 DEF Chase!Positive
  <2> DEFINE d == nr * c  r == s % nr
  <2> HIDE DEF d, r
  <2>3. d <= s
    BY <2>1, <2>2 DEF d, r
  <2> QED
    BY <1>4, <2>1, <2>2, <2>3 DEF Chase!Positive, d
<1> QED
  BY <1>1, <1>2, <1>4, <1>5 DEF c, s, b

-----------------------------------------------------------------------------
(* Permutations *)

\* p is a permutation of the first nr numbers.
IsPerm(p, nr) ==
  /\ p \in [0..(nr - 1) -> 0..(nr - 1)]
  /\ \A x, y \in 0..(nr - 1) : p[x] = p[y] => x = y
  /\ \A y \in 0..(nr - 1) : \E x \in 0..(nr - 1) : p[x] = y

\* A pass of the shuffle's loop, on a permutation of k.
Shuffled(p, k, e) ==
  [x \in 0..k |-> IF x = e THEN k ELSE IF x = k THEN p[e] ELSE p[x]]

\* A pass keeps a permutation one, with one element more.
LEMMA ShuffledPerm ==
  ASSUME NEW k \in Chase!Positive, NEW p, IsPerm(p, k), NEW e \in 0..k
  PROVE  IsPerm(Shuffled(p, k, e), k + 1)
<1> DEFINE q == Shuffled(p, k, e)
<1>0. k \in Nat /\ k > 0
  BY DEF Chase!Positive
<1>1. \A x \in 0..k : q[x] = IF x = e THEN k ELSE IF x = k THEN p[e] ELSE p[x]
  BY DEF Shuffled
<1>2. /\ p \in [0..(k - 1) -> 0..(k - 1)]
      /\ \A x, y \in 0..(k - 1) : p[x] = p[y] => x = y
      /\ \A y \in 0..(k - 1) : \E x \in 0..(k - 1) : p[x] = y
  BY DEF IsPerm
<1>3. q = [x \in 0..k |-> q[x]]
  BY DEF Shuffled
<1> HIDE DEF q
<1>4. \A x \in 0..k : /\ x # e /\ x # k => x \in 0..(k - 1) /\ q[x] = p[x]
                      /\ x = k /\ x # e => e \in 0..(k - 1) /\ q[x] = p[e]
                      /\ x = e => q[x] = k
  BY <1>0, <1>1
<1>5. \A x \in 0..(k - 1) : p[x] \in 0..k /\ p[x] # k
  <2>1. \A v \in 0..(k - 1) : v \in 0..k /\ v # k
    BY <1>0
  <2>2. \A x \in 0..(k - 1) : p[x] \in 0..(k - 1)
    BY <1>2
  <2> QED
    BY <2>1, <2>2
<1>6. \A x \in 0..k : q[x] \in 0..k
  <2> SUFFICES ASSUME NEW x \in 0..k PROVE q[x] \in 0..k
    OBVIOUS
  <2>1. k \in 0..k
    BY <1>0
  <2>2. CASE x = e
    BY <1>4, <2>1, <2>2
  <2>3. CASE x # e /\ x = k
    BY <1>4, <1>5, <2>3
  <2>4. CASE x # e /\ x # k
    BY <1>4, <1>5, <2>4
  <2> QED
    BY <2>2, <2>3, <2>4
<1>7. ASSUME NEW x \in 0..k, NEW y \in 0..k, q[x] = q[y] PROVE x = y
  <2>1. CASE x = e \/ y = e
    BY <1>4, <1>5, <1>7, <2>1
  <2>2. CASE x # e /\ y # e
    BY <1>2, <1>4, <1>7, <2>2
  <2> QED
    BY <2>1, <2>2
<1>8. ASSUME NEW y \in 0..k PROVE \E x \in 0..k : q[x] = y
  <2>1. CASE y = k
    BY <1>1, <2>1
  <2>2. CASE y # k
    <3>1. PICK x \in 0..(k - 1) : p[x] = y
      BY <1>0, <1>2, <2>2
    <3>2. CASE x = e
      <4>1. k \in 0..k /\ q[k] = p[e]
        BY <1>0, <1>1, <3>1, <3>2
      <4> QED
        BY <3>1, <3>2, <4>1
    <3>3. CASE x # e
      <4>1. x \in 0..k /\ q[x] = p[x]
        BY <1>0, <1>1, <3>1, <3>3
      <4> QED
        BY <3>1, <4>1
    <3> QED
      BY <3>2, <3>3
  <2> QED
    BY <2>1, <2>2
<1>9. (k + 1) - 1 = k
  BY <1>0
<1> QED
  <2>1. q \in [0..k -> 0..k]
    BY <1>3, <1>6
  <2>2. IsPerm(q, k + 1)
    BY <1>8, <1>9, <1>7, <2>1 DEF IsPerm
  <2> QED
    BY <2>2 DEF q

\* s is the permutations after each of the first nr passes of the shuffle.
ShuffleRec(d, nr, s) ==
  s = [k \in 0..nr |->
         IF k = 0 THEN <<>>
         ELSE [x \in 0..(k - 1) |->
                 IF x = d[k - 1] THEN 0 + k - 1
                 ELSE IF x = k - 1 THEN s[k - 1][d[k - 1]] ELSE s[k - 1][x]]]

\* The passes of a shuffle are a function.
LEMMA ShuffleExists ==
  ASSUME NEW d, NEW nr \in Nat
  PROVE  \E s : ShuffleRec(d, nr, s)
<1> DEFINE Bad == {m \in Nat : ~\E s : ShuffleRec(d, m, s)}
<1>1. SUFFICES ASSUME Bad # {} PROVE FALSE
  OBVIOUS
<1>2. PICK m \in Bad : \A l \in Bad : m <= l
  <2>1. Bad \in SUBSET Nat
    OBVIOUS
  <2> HIDE DEF Bad
  <2> QED
    BY <1>1, <2>1, Least
<1>3. CASE m = 0
  <2>1. ShuffleRec(d, 0, [k \in 0..0 |-> <<>>])
    BY DEF ShuffleRec
  <2> QED
    BY <1>3, <2>1
<1>4. CASE m # 0
  <2>1. m - 1 \in Nat /\ m - 1 \notin Bad
    BY <1>2, <1>4
  <2>2. PICK s : ShuffleRec(d, m - 1, s)
    BY <2>1
  <2> DEFINE Pass(r, k) == [x \in 0..(k - 1) |->
                              IF x = d[k - 1] THEN 0 + k - 1
                              ELSE IF x = k - 1 THEN r[k - 1][d[k - 1]] ELSE r[k - 1][x]]
             t == [k \in 0..m |-> IF k = m THEN Pass(s, m) ELSE s[k]]
  <2>3. ShuffleRec(d, m, t)
    <3>1. \A k \in 0..(m - 1) : s[k] = IF k = 0 THEN <<>> ELSE Pass(s, k)
      BY <2>2 DEF ShuffleRec
    <3>2. \A k \in 0..m : t[k] = IF k = 0 THEN <<>> ELSE Pass(t, k)
      <4>1. SUFFICES ASSUME NEW k \in 0..m PROVE t[k] = IF k = 0 THEN <<>> ELSE Pass(t, k)
        OBVIOUS
      <4>2. k # 0 => t[k - 1] = s[k - 1]
        BY <2>1
      <4>3. k # 0 => Pass(t, k) = Pass(s, k)
        <5> HIDE DEF t
        <5> QED
          BY <4>2
      <4>4. t[k] = IF k = m THEN Pass(s, m) ELSE s[k]
        OBVIOUS
      <4> HIDE DEF t, Pass
      <4>5. CASE k = m
        BY <1>4, <4>3, <4>4, <4>5
      <4>6. CASE k # m
        BY <1>4, <3>1, <4>3, <4>4, <4>6
      <4> QED
        BY <4>5, <4>6
    <3>3. t = [k \in 0..m |-> t[k]]
      OBVIOUS
    <3> HIDE DEF t
    <3> QED
      BY <3>2, <3>3 DEF ShuffleRec
  <2> QED
    BY <2>3
<1> QED
  BY <1>3, <1>4

\* So a shuffle's result is a permutation,
LEMMA ShufflePerm ==
  ASSUME NEW nr \in Chase!Positive, NEW d \in Chase!Draws(nr)
  PROVE  IsPerm(Chase!Shuffle(d, nr, 0), nr)
<1> DEFINE s == CHOOSE s : ShuffleRec(d, nr, s)
<1>0. nr \in Nat /\ nr > 0
  BY DEF Chase!Positive
<1>1. ShuffleRec(d, nr, s)
  BY <1>0, ShuffleExists
<1>2. Chase!Shuffle(d, nr, 0) = s[nr]
  BY Zenon DEF Chase!Shuffle, ShuffleRec
<1> HIDE DEF s
<1>3. \A k \in 1..nr :
        s[k] = [x \in 0..(k - 1) |->
                 IF x = d[k - 1] THEN 0 + k - 1
                 ELSE IF x = k - 1 THEN s[k - 1][d[k - 1]] ELSE s[k - 1][x]]
  <2> SUFFICES ASSUME NEW k \in 1..nr
               PROVE  s[k] = [x \in 0..(k - 1) |->
                        IF x = d[k - 1] THEN 0 + k - 1
                        ELSE IF x = k - 1 THEN s[k - 1][d[k - 1]] ELSE s[k - 1][x]]
    OBVIOUS
  <2>1. k \in 0..nr /\ k # 0
    BY <1>0
  <2> QED
    BY <1>1, <2>1 DEF ShuffleRec
<1>4. \A k \in 0..(nr - 1) : d[k] \in 0..k
  BY DEF Chase!Draws, Chase!RngInt
<1> DEFINE Bad == {k \in 1..nr : ~IsPerm(s[k], k)}
<1>5. SUFFICES ASSUME Bad # {} PROVE FALSE
  BY <1>0, <1>2
<1>6. PICK m \in Bad : \A l \in Bad : m <= l
  <2>1. Bad \in SUBSET Nat
    OBVIOUS
  <2> HIDE DEF Bad
  <2> QED
    BY <1>5, <2>1, Least
<1>7. CASE m = 1
  <2>1. d[0] = 0
    BY <1>0, <1>4
  <2>2. s[1] = [x \in 0..0 |-> 0]
    <3>1. 1 \in 1..nr /\ 1 - 1 = 0
      BY <1>0
    <3>2. s[1] = [x \in 0..(1 - 1) |->
                 IF x = d[1 - 1] THEN 0 + 1 - 1
                 ELSE IF x = 1 - 1 THEN s[1 - 1][d[1 - 1]] ELSE s[1 - 1][x]]
      BY <1>3, <3>1
    <3> QED
      BY <2>1, <3>1, <3>2
  <2>3. IsPerm(s[1], 1)
    BY <2>2 DEF IsPerm
  <2> QED
    BY <1>6, <1>7, <2>3
<1>8. CASE m # 1
  <2>1. m - 1 \in 1..nr /\ m - 1 \notin Bad /\ m - 1 \in Chase!Positive /\ m \in Nat
    BY <1>0, <1>6, <1>8 DEF Chase!Positive
  <2>2. d[m - 1] \in 0..(m - 1)
    <3>1. m - 1 \in 0..(nr - 1)
      BY <1>0, <1>6, <2>1
    <3> QED
      BY <1>4, <3>1
  <2>3. s[m] = Shuffled(s[m - 1], m - 1, d[m - 1])
    <3>1. s[m] = [x \in 0..(m - 1) |->
                 IF x = d[m - 1] THEN 0 + m - 1
                 ELSE IF x = m - 1 THEN s[m - 1][d[m - 1]] ELSE s[m - 1][x]]
      BY <1>3, <1>6
    <3>2. 0 + m - 1 = m - 1
      BY <2>1
    <3> QED
      BY <3>1, <3>2 DEF Shuffled
  <2>4. IsPerm(s[m], (m - 1) + 1)
    BY <2>1, <2>2, <2>3, ShuffledPerm
  <2>5. (m - 1) + 1 = m
    BY <2>1
  <2> QED
    BY <1>6, <2>4, <2>5
<1> QED
  BY <1>7, <1>8

\* and so is any that is generated.
LEMMA PermutationsArePerms ==
  ASSUME NEW nr \in Chase!Positive, NEW o, NEW p \in Chase!GenPermutation(nr, 0, o)
  PROVE  IsPerm(p, nr)
<1>0. nr \in Nat /\ nr > 0
  BY DEF Chase!Positive
<1>1. CASE o
  <2>1. p = [x \in 0..(nr - 1) |-> 0 + x]
    BY <1>1 DEF Chase!GenPermutation
  <2> QED
    BY <1>0, <2>1 DEF IsPerm
<1>2. CASE ~o
  BY <1>2, ShufflePerm DEF Chase!GenPermutation
<1> QED
  BY <1>1, <1>2

-----------------------------------------------------------------------------
(* The shuffle is uniform *)

\* Equal draws give equal permutations, however long the shuffle goes on.
LEMMA ShufflesAgree ==
  ASSUME NEW nr \in Nat, NEW d, NEW e, NEW s, NEW t, NEW len \in Nat, len <= nr,
         ShuffleRec(d, nr, s), ShuffleRec(e, len, t), \A k \in 0..(len - 1) : d[k] = e[k]
  PROVE  s[len] = t[len]
<1> DEFINE Bad == {k \in 0..len : s[k] # t[k]}
<1>1. SUFFICES ASSUME Bad # {} PROVE FALSE
  OBVIOUS
<1>2. PICK m \in Bad : \A l \in Bad : m <= l
  <2>1. Bad \in SUBSET Nat
    OBVIOUS
  <2> HIDE DEF Bad
  <2> QED
    BY <1>1, <2>1, Least
<1>3. m \in 0..len /\ m \in 0..nr /\ m \in Nat /\ s[m] # t[m]
  BY <1>2
<1>4. m # 0
  BY <1>3 DEF ShuffleRec
<1>5. m - 1 \in 0..(len - 1) /\ s[m - 1] = t[m - 1] /\ d[m - 1] = e[m - 1]
  <2>1. m - 1 \in 0..(len - 1) /\ m - 1 \in 0..len /\ ~(m <= m - 1)
    BY <1>3, <1>4
  <2>2. m - 1 \notin Bad
    BY <1>2, <2>1
  <2> QED
    BY <2>1, <2>2
<1>6. s[m] = [x \in 0..(m - 1) |-> IF x = d[m - 1] THEN 0 + m - 1
                ELSE IF x = m - 1 THEN s[m - 1][d[m - 1]] ELSE s[m - 1][x]]
  BY <1>3, <1>4 DEF ShuffleRec
<1>7. t[m] = [x \in 0..(m - 1) |-> IF x = e[m - 1] THEN 0 + m - 1
                ELSE IF x = m - 1 THEN t[m - 1][e[m - 1]] ELSE t[m - 1][x]]
  BY <1>3, <1>4 DEF ShuffleRec
<1>8. s[m] = t[m]
  BY ONLY <1>5, <1>6, <1>7
<1> QED
  BY <1>3, <1>8

\* A shuffle is what its recursion says.
LEMMA ShuffleOf ==
  ASSUME NEW nr \in Nat, NEW d
  PROVE  \E s : ShuffleRec(d, nr, s) /\ Chase!Shuffle(d, nr, 0) = s[nr]
<1> DEFINE s == CHOOSE s : ShuffleRec(d, nr, s)
<1>1. ShuffleRec(d, nr, s)
  BY ShuffleExists
<1>2. Chase!Shuffle(d, nr, 0) = s[nr]
  BY Zenon DEF Chase!Shuffle, ShuffleRec
<1> QED
  BY <1>1, <1>2

\* The draws of a shorter shuffle.
Earlier(d, k) == [x \in 0..(k - 1) |-> d[x]]

\* The last pass of a shuffle.
LEMMA LastPass ==
  ASSUME NEW k \in Chase!Positive, NEW d \in Chase!Draws(k + 1)
  PROVE  /\ Earlier(d, k) \in Chase!Draws(k) /\ d[k] \in 0..k
         /\ Chase!Shuffle(d, k + 1, 0) = Shuffled(Chase!Shuffle(Earlier(d, k), k, 0), k, d[k])
<1>1. k \in Nat /\ k > 0 /\ (k + 1) - 1 = k
  BY DEF Chase!Positive
<1>2. /\ d \in [0..k -> 0..k]
      /\ \A x \in 0..k : d[x] \in 0..x
  BY <1>1 DEF Chase!Draws, Chase!RngInt
<1>3. Earlier(d, k) \in Chase!Draws(k)
  <2>1. \A x \in 0..(k - 1) : d[x] \in 0..x /\ d[x] \in 0..(k - 1)
    <3> SUFFICES ASSUME NEW x \in 0..(k - 1) PROVE d[x] \in 0..x /\ d[x] \in 0..(k - 1)
      OBVIOUS
    <3>1. x \in 0..k /\ x \in Nat /\ x <= k - 1
      BY <1>1
    <3>2. d[x] \in 0..x
      BY <1>2, <3>1
    <3> QED
      BY <1>1, <3>1, <3>2
  <2>2. Earlier(d, k) \in [0..(k - 1) -> 0..(k - 1)]
    BY <2>1 DEF Earlier
  <2>3. \A x \in DOMAIN Earlier(d, k) : Earlier(d, k)[x] \in 0..x
    BY <2>1 DEF Earlier
  <2> QED
    BY <2>2, <2>3 DEF Chase!Draws, Chase!RngInt
<1>4. PICK s : ShuffleRec(d, k + 1, s) /\ Chase!Shuffle(d, k + 1, 0) = s[k + 1]
  BY <1>1, ShuffleOf
<1>5. PICK t : /\ ShuffleRec(Earlier(d, k), k, t)
               /\ Chase!Shuffle(Earlier(d, k), k, 0) = t[k]
  BY <1>1, ShuffleOf
<1>6. s[k] = t[k]
  <2>1. \A x \in 0..(k - 1) : d[x] = Earlier(d, k)[x]
    BY DEF Earlier
  <2>2. k + 1 \in Nat /\ k <= k + 1
    BY <1>1
  <2> QED
    BY ONLY <1>1, <1>4, <1>5, <2>1, <2>2, ShufflesAgree
<1>7. s[k + 1] = [x \in 0..k |-> IF x = d[k] THEN k ELSE IF x = k THEN s[k][d[k]] ELSE s[k][x]]
  <2>1. k + 1 \in 0..(k + 1) /\ k + 1 # 0 /\ 0 + (k + 1) - 1 = k
    BY <1>1
  <2>2. s[k + 1] = [x \in 0..((k + 1) - 1) |->
                      IF x = d[(k + 1) - 1] THEN 0 + (k + 1) - 1
                      ELSE IF x = (k + 1) - 1 THEN s[(k + 1) - 1][d[(k + 1) - 1]]
                      ELSE s[(k + 1) - 1][x]]
    BY <1>4, <2>1 DEF ShuffleRec
  <2> QED
    BY ONLY <1>1, <2>1, <2>2
<1>8. s[k + 1] = Shuffled(t[k], k, d[k])
  BY <1>6, <1>7 DEF Shuffled
<1>9. d[k] \in 0..k
  BY <1>1, <1>2
<1> QED
  BY <1>3, <1>4, <1>5, <1>8, <1>9, Zenon

\* The last pass can be undone: the place of the greatest number is its draw, and what
\* was there went to the end.
LEMMA PassUndone ==
  ASSUME NEW k \in Chase!Positive, NEW q, IsPerm(q, k + 1)
  PROVE  \E e \in 0..k : \E p : IsPerm(p, k) /\ q = Shuffled(p, k, e)
<1>1. k \in Nat /\ k > 0 /\ (k + 1) - 1 = k
  BY DEF Chase!Positive
<1>2. /\ q \in [0..k -> 0..k]
      /\ \A x, y \in 0..k : q[x] = q[y] => x = y
      /\ \A y \in 0..k : \E x \in 0..k : q[x] = y
  BY <1>1 DEF IsPerm
<1>3. PICK e \in 0..k : q[e] = k
  BY <1>1, <1>2
<1> DEFINE p == [x \in 0..(k - 1) |-> IF x = e THEN q[k] ELSE q[x]]
<1>4. \A x \in 0..(k - 1) : x \in 0..k /\ x # k /\ p[x] = IF x = e THEN q[k] ELSE q[x]
  BY <1>1
<1>5. p = [x \in 0..(k - 1) |-> p[x]]
  OBVIOUS
<1>6. q = [x \in 0..k |-> q[x]] /\ k \in 0..k
  BY <1>1, <1>2
<1> HIDE DEF p
<1>7. \A y \in 0..k : y # k => y \in 0..(k - 1)
  BY <1>1
<1>8. \A x \in 0..(k - 1) : p[x] \in 0..(k - 1)
  <2> SUFFICES ASSUME NEW x \in 0..(k - 1) PROVE p[x] \in 0..(k - 1)
    OBVIOUS
  <2>1. CASE x = e
    <3>1. q[k] \in 0..k /\ q[k] # k
      BY <1>2, <1>3, <1>4, <1>6, <2>1
    <3> QED
      BY <1>4, <1>7, <2>1, <3>1
  <2>2. CASE x # e
    <3>1. q[x] \in 0..k /\ q[x] # k
      BY <1>2, <1>3, <1>4, <2>2
    <3> QED
      BY <1>4, <1>7, <2>2, <3>1
  <2> QED
    BY <2>1, <2>2
<1>9. ASSUME NEW x \in 0..(k - 1), NEW y \in 0..(k - 1), p[x] = p[y] PROVE x = y
  BY <1>2, <1>4, <1>6, <1>9
<1>10. ASSUME NEW y \in 0..(k - 1) PROVE \E x \in 0..(k - 1) : p[x] = y
  <2>1. y \in 0..k /\ y # k
    BY <1>4
  <2>2. PICK x \in 0..k : q[x] = y
    BY <1>2, <2>1
  <2>3. x # e
    BY <1>3, <2>1, <2>2
  <2>4. CASE x = k
    <3>1. e \in 0..(k - 1)
      BY <1>7, <2>3, <2>4
    <3> QED
      BY <1>4, <2>2, <2>4, <3>1
  <2>5. CASE x # k
    BY <1>4, <1>7, <2>2, <2>3, <2>5
  <2> QED
    BY <2>4, <2>5
<1>11. IsPerm(p, k)
  <2>1. p \in [0..(k - 1) -> 0..(k - 1)]
    BY <1>5, <1>8
  <2> QED
    BY <1>9, <1>10, <2>1 DEF IsPerm
<1>12. q = Shuffled(p, k, e)
  <2>1. \A x \in 0..k : q[x] = IF x = e THEN k ELSE IF x = k THEN p[e] ELSE p[x]
    <3> SUFFICES ASSUME NEW x \in 0..k
                 PROVE  q[x] = IF x = e THEN k ELSE IF x = k THEN p[e] ELSE p[x]
      OBVIOUS
    <3>1. CASE x = e
      BY <1>3, <3>1
    <3>2. CASE x # e /\ x = k
      <4>1. e \in 0..(k - 1)
        BY <1>7, <3>2
      <4> QED
        BY <1>4, <3>2, <4>1
    <3>3. CASE x # e /\ x # k
      BY <1>4, <1>7, <3>3
    <3> QED
      BY <3>1, <3>2, <3>3
  <2> QED
    BY <1>6, <2>1 DEF Shuffled
<1> QED
  BY <1>11, <1>12

\* It tells what was drawn, and the permutation before it.
LEMMA PassTells ==
  ASSUME NEW k \in Chase!Positive, NEW p, IsPerm(p, k), NEW q, IsPerm(q, k),
         NEW e \in 0..k, NEW f \in 0..k, Shuffled(p, k, e) = Shuffled(q, k, f)
  PROVE  e = f /\ p = q
<1>1. k \in Nat /\ k > 0 /\ k \in 0..k
  BY DEF Chase!Positive
<1>2. /\ p \in [0..(k - 1) -> 0..(k - 1)] /\ q \in [0..(k - 1) -> 0..(k - 1)]
  BY DEF IsPerm
<1>3. \A x \in 0..(k - 1) : x \in 0..k /\ x # k /\ p[x] # k /\ q[x] # k
  <2>1. \A v \in 0..(k - 1) : v \in 0..k /\ v # k
    BY <1>1
  <2> QED
    BY <1>2, <2>1
<1>4. \A x \in 0..k : (IF x = e THEN k ELSE IF x = k THEN p[e] ELSE p[x])
                        = (IF x = f THEN k ELSE IF x = k THEN q[f] ELSE q[x])
  <2>1. \A x \in 0..k : Shuffled(p, k, e)[x] = IF x = e THEN k ELSE IF x = k THEN p[e] ELSE p[x]
    BY DEF Shuffled
  <2>2. \A x \in 0..k : Shuffled(q, k, f)[x] = IF x = f THEN k ELSE IF x = k THEN q[f] ELSE q[x]
    BY DEF Shuffled
  <2> QED
    BY <2>1, <2>2
<1>5. \A x \in 0..k : x # k => x \in 0..(k - 1)
  BY <1>1
<1>6. e = f
  <2>1. SUFFICES ASSUME e # f PROVE FALSE
    OBVIOUS
  <2>2. k = IF e = k THEN q[f] ELSE q[e]
    BY <1>4, <2>1
  <2>3. CASE e = k
    BY <1>3, <1>5, <2>1, <2>2, <2>3
  <2>4. CASE e # k
    BY <1>3, <1>5, <2>2, <2>4
  <2> QED
    BY <2>3, <2>4
<1>7. \A x \in 0..(k - 1) : p[x] = q[x]
  <2> SUFFICES ASSUME NEW x \in 0..(k - 1) PROVE p[x] = q[x]
    OBVIOUS
  <2>1. CASE x = e
    <3>1. e # k
      BY <1>3, <2>1
    <3> QED
      BY <1>1, <1>4, <1>6, <2>1, <3>1
  <2>2. CASE x # e
    BY <1>3, <1>4, <1>6, <2>2
  <2> QED
    BY <2>1, <2>2
<1>8. p = q
  <2>1. p = [x \in 0..(k - 1) |-> p[x]] /\ q = [x \in 0..(k - 1) |-> q[x]]
    BY ONLY <1>2
  <2>2. [x \in 0..(k - 1) |-> p[x]] = [x \in 0..(k - 1) |-> q[x]]
    BY ONLY <1>7
  <2> QED
    BY <2>1, <2>2, Zenon
<1> QED
  BY <1>6, <1>8

\* Every permutation of m comes out of one sequence of draws.
Uniform(m) ==
  /\ \A q : IsPerm(q, m) => \E d \in Chase!Draws(m) : Chase!Shuffle(d, m, 0) = q
  /\ \A d, e \in Chase!Draws(m) : Chase!Shuffle(d, m, 0) = Chase!Shuffle(e, m, 0) => d = e

\* One element has one permutation and one draw.
LEMMA UniformFirst == Uniform(1)
<1>1. 1 \in Chase!Positive /\ 0..(1 - 1) = {0}
  BY DEF Chase!Positive
<1>2. \A d \in Chase!Draws(1) : d = [x \in {0} |-> 0]
  BY <1>1 DEF Chase!Draws, Chase!RngInt
<1>3. [x \in {0} |-> 0] \in Chase!Draws(1)
  BY <1>1 DEF Chase!Draws, Chase!RngInt
<1>4. \A q : IsPerm(q, 1) => q = [x \in {0} |-> 0]
  BY <1>1 DEF IsPerm
<1>5. \A d \in Chase!Draws(1) : IsPerm(Chase!Shuffle(d, 1, 0), 1)
  BY <1>1, ShufflePerm
<1>6. ASSUME NEW q, IsPerm(q, 1)
      PROVE  \E d \in Chase!Draws(1) : Chase!Shuffle(d, 1, 0) = q
  <2>1. IsPerm(Chase!Shuffle([x \in {0} |-> 0], 1, 0), 1)
    BY <1>3, <1>5
  <2>2. Chase!Shuffle([x \in {0} |-> 0], 1, 0) = q
    BY ONLY <1>4, <1>6, <2>1
  <2> QED
    BY <1>3, <2>2
<1>7. \A d, e \in Chase!Draws(1) : d = e
  BY ONLY <1>2
<1> QED
  BY <1>6, <1>7 DEF Uniform

\* A pass more keeps it so.
LEMMA UniformNext ==
  ASSUME NEW k \in Chase!Positive, Uniform(k)
  PROVE  Uniform(k + 1)
<1>1. k \in Nat /\ k > 0 /\ (k + 1) - 1 = k /\ k + 1 \in Chase!Positive
  BY DEF Chase!Positive
<1>2. ASSUME NEW q, IsPerm(q, k + 1)
      PROVE  \E d \in Chase!Draws(k + 1) : Chase!Shuffle(d, k + 1, 0) = q
  <2>1. PICK f \in 0..k : \E p : IsPerm(p, k) /\ q = Shuffled(p, k, f)
    BY <1>2, PassUndone
  <2>2. PICK p : IsPerm(p, k) /\ q = Shuffled(p, k, f)
    BY <2>1
  <2>3. PICK e \in Chase!Draws(k) : Chase!Shuffle(e, k, 0) = p
    BY <2>2 DEF Uniform
  <2> DEFINE d == [x \in 0..k |-> IF x = k THEN f ELSE e[x]]
  <2>4. e \in [0..(k - 1) -> 0..(k - 1)] /\ \A x \in 0..(k - 1) : e[x] \in 0..x
    BY <2>3 DEF Chase!Draws, Chase!RngInt
  <2>5. \A x \in 0..k : d[x] \in 0..x
    <3> SUFFICES ASSUME NEW x \in 0..k PROVE d[x] \in 0..x
      OBVIOUS
    <3>1. CASE x = k
      BY <3>1
    <3>2. CASE x # k
      <4>1. x \in 0..(k - 1)
        BY <1>1, <3>2
      <4> QED
        BY <2>4, <3>2, <4>1
    <3> QED
      BY <3>1, <3>2
  <2>6. d \in [0..k -> 0..k]
    <3>1. \A x \in 0..k : 0..x \subseteq 0..k
      BY <1>1
    <3>2. d = [x \in 0..k |-> d[x]]
      OBVIOUS
    <3> HIDE DEF d
    <3>3. \A x \in 0..k : d[x] \in 0..k
      BY <2>5, <3>1
    <3> QED
      BY ONLY <3>2, <3>3
  <2>7. d \in Chase!Draws(k + 1)
    <3> HIDE DEF d
    <3> QED
      BY <1>1, <2>5, <2>6 DEF Chase!Draws, Chase!RngInt
  <2>8. Earlier(d, k) = e
    <3>1. \A x \in 0..(k - 1) : d[x] = e[x]
      BY <1>1
    <3> HIDE DEF d
    <3>2. Earlier(d, k) = [x \in 0..(k - 1) |-> e[x]]
      BY <3>1 DEF Earlier
    <3> QED
      BY ONLY <2>4, <3>2
  <2>9. d[k] = f
    BY <1>1
  <2> HIDE DEF d
  <2>10. Chase!Shuffle(d, k + 1, 0) = Shuffled(p, k, f)
    BY <2>3, <2>7, <2>8, <2>9, LastPass, Zenon
  <2> QED
    BY <2>2, <2>7, <2>10
<1>3. ASSUME NEW d \in Chase!Draws(k + 1), NEW e \in Chase!Draws(k + 1),
             Chase!Shuffle(d, k + 1, 0) = Chase!Shuffle(e, k + 1, 0)
      PROVE  d = e
  <2> DEFINE p == Chase!Shuffle(Earlier(d, k), k, 0)
             q == Chase!Shuffle(Earlier(e, k), k, 0)
  <2>1. /\ Earlier(d, k) \in Chase!Draws(k) /\ d[k] \in 0..k
        /\ Chase!Shuffle(d, k + 1, 0) = Shuffled(p, k, d[k])
    BY LastPass
  <2>2. /\ Earlier(e, k) \in Chase!Draws(k) /\ e[k] \in 0..k
        /\ Chase!Shuffle(e, k + 1, 0) = Shuffled(q, k, e[k])
    BY LastPass
  <2>3. IsPerm(p, k) /\ IsPerm(q, k)
    BY <2>1, <2>2, ShufflePerm
  <2>4. d[k] = e[k] /\ p = q
    <3> HIDE DEF p, q
    <3> QED
      BY <1>3, <2>1, <2>2, <2>3, PassTells
  <2>5. Earlier(d, k) = Earlier(e, k)
    BY <2>1, <2>2, <2>4 DEF Uniform
  <2>6. \A x \in 0..(k - 1) : d[x] = e[x]
    <3>1. \A x \in 0..(k - 1) : Earlier(d, k)[x] = d[x] /\ Earlier(e, k)[x] = e[x]
      BY DEF Earlier
    <3> QED
      BY <2>5, <3>1
  <2>7. \A x \in 0..k : d[x] = e[x]
    <3> SUFFICES ASSUME NEW x \in 0..k PROVE d[x] = e[x]
      OBVIOUS
    <3>1. x = k \/ x \in 0..(k - 1)
      BY <1>1
    <3> QED
      BY <2>4, <2>6, <3>1
  <2>8. d \in [0..k -> 0..k] /\ e \in [0..k -> 0..k]
    BY <1>1 DEF Chase!Draws
  <2>9. d = [x \in 0..k |-> d[x]] /\ e = [x \in 0..k |-> e[x]]
    BY ONLY <2>8
  <2>10. [x \in 0..k |-> d[x]] = [x \in 0..k |-> e[x]]
    BY ONLY <2>7
  <2> QED
    BY <2>9, <2>10, Zenon
<1> QED
  BY <1>2, <1>3 DEF Uniform

\* Every permutation comes out of the shuffle, nothing else does, and each out of one
\* sequence of draws only: as the draws are uniform, so are the permutations
\* (permutation.c:42-50, permutation.h:100-117).
THEOREM EveryPermutationOnce ==
  ASSUME NEW nr \in Chase!Positive
  PROVE  /\ {Chase!Shuffle(d, nr, 0) : d \in Chase!Draws(nr)} 
               = Chase!Bijection(0..(nr - 1), 0..(nr - 1))
         /\ \A d, e \in Chase!Draws(nr) :
              Chase!Shuffle(d, nr, 0) = Chase!Shuffle(e, nr, 0) => d = e
<1> DEFINE Bad == {m \in Nat : m > 0 /\ ~Uniform(m)}
<1>1. Bad = {}
  <2>1. SUFFICES ASSUME Bad # {} PROVE FALSE
    OBVIOUS
  <2>2. PICK m \in Bad : \A l \in Bad : m <= l
    <3>1. Bad \in SUBSET Nat
      OBVIOUS
    <3> HIDE DEF Bad
    <3> QED
      BY <2>1, <3>1, Least
  <2>3. m \in Nat /\ m > 0 /\ ~Uniform(m)
    BY <2>2
  <2>4. m # 1
    BY <2>3, UniformFirst
  <2>5. m - 1 \in Chase!Positive /\ (m - 1) + 1 = m /\ ~(m <= m - 1) /\ m - 1 \in Nat /\ m - 1 > 0
    BY <2>3, <2>4 DEF Chase!Positive
  <2>6. Uniform(m - 1)
    BY <2>2, <2>5
  <2>7. Uniform((m - 1) + 1)
    BY <2>5, <2>6, UniformNext
  <2> QED
    BY <2>3, <2>5, <2>7
<1>2. Uniform(nr)
  BY <1>1 DEF Chase!Positive
<1>3. \A d \in Chase!Draws(nr) : IsPerm(Chase!Shuffle(d, nr, 0), nr)
  BY ShufflePerm
<1>4. \A p : IsPerm(p, nr) <=> p \in Chase!Bijection(0..(nr - 1), 0..(nr - 1))
  BY DEF IsPerm, Chase!Bijection, Chase!Injection, Chase!Surjection, Chase!IsInjective
<1> QED
  BY <1>2, <1>3, <1>4 DEF Uniform

\* The numbers below g * e are those with a quotient below g.
LEMMA Quotients ==
  ASSUME NEW g \in Nat, NEW e \in Chase!Positive
  PROVE  /\ \A q \in 0..(g - 1), r \in 0..(e - 1) :
              /\ q * e + r \in 0..(g * e - 1)
              /\ (q * e + r) \div e = q /\ ((q * e + r) % e) = r
         /\ \A x \in 0..(g * e - 1) :
              /\ x \in Nat /\ x \div e \in 0..(g - 1) /\ (x % e) \in 0..(e - 1)
              /\ x = (x \div e) * e + (x % e)
<1>0. e \in Nat /\ e > 0
  BY DEF Chase!Positive
<1>1. \A u, v \in Nat : u * e \in Nat /\ (u + 1) * e = u * e + e /\ (u <= v => u * e <= v * e)
  <2>1. \A u, v, w \in Nat : u * w \in Nat /\ (u + 1) * w = u * w + w
    OBVIOUS
  <2>2. \A u, v, w \in Nat : u <= v => u * w <= v * w
    OBVIOUS
  <2> QED
    BY <1>0, <2>1, <2>2
<1>2. ASSUME NEW q \in 0..(g - 1), NEW r \in 0..(e - 1)
      PROVE  /\ q * e + r \in 0..(g * e - 1)
             /\ (q * e + r) \div e = q /\ ((q * e + r) % e) = r
  <2>1. (q * e + r) \div e = q /\ ((q * e + r) % e) = r
    BY DivOf
  <2>2. q \in Nat /\ q + 1 \in Nat /\ q + 1 <= g /\ r \in Nat /\ r + 1 <= e
    BY <1>0
  <2>3. q * e \in Nat /\ (q + 1) * e = q * e + e /\ (q + 1) * e <= g * e /\ g * e \in Nat
    BY <1>1, <2>2
  <2> DEFINE u == q * e  v == g * e
  <2> HIDE DEF u, v
  <2>4. u \in Nat /\ v \in Nat /\ u + e <= v
    BY <2>3 DEF u, v
  <2>5. u + r \in 0..(v - 1)
    BY <1>0, <2>2, <2>4
  <2> QED
    BY <2>1, <2>5 DEF u, v
<1>3. ASSUME NEW x \in 0..(g * e - 1)
      PROVE  /\ x \in Nat /\ x \div e \in 0..(g - 1) /\ (x % e) \in 0..(e - 1)
             /\ x = (x \div e) * e + (x % e)
  <2> DEFINE v == g * e
  <2>1. v \in Nat
    BY <1>1
  <2>2. x \in 0..(v - 1)
    OBVIOUS
  <2> HIDE DEF v
  <2>3. x \in Nat /\ x + 1 <= v
    BY <2>1, <2>2
  <2>4. /\ x \div e \in Nat /\ (x % e) \in 0..(e - 1)
        /\ x = e * (x \div e) + (x % e)
    BY <2>3, DivMod
  <2>5. \A u, w \in Nat : u * w = w * u
    OBVIOUS
  <2>6. x = (x \div e) * e + (x % e)
    BY <1>0, <2>4, <2>5
  <2> DEFINE q == x \div e  r == x % e
  <2> HIDE DEF q, r
  <2>7. SUFFICES q < g
    <3>1. q \in 0..(g - 1)
      BY <2>4, <2>7 DEF q
    <3> QED
      BY <2>3, <2>4, <2>6, <3>1 DEF q
  <2>8. SUFFICES ASSUME g <= q PROVE FALSE
    BY <2>4 DEF q
  <2>9. g * e <= q * e /\ q * e \in Nat
    BY <1>1, <2>4, <2>8 DEF q
  <2>10. x = q * e + r /\ r \in Nat
    BY <2>4, <2>6 DEF q, r
  <2> DEFINE u == q * e
  <2> HIDE DEF u
  <2>11. v <= u /\ u \in Nat /\ x = u + r
    BY <2>9, <2>10 DEF u, v
  <2> QED
    BY <2>1, <2>3, <2>10, <2>11
<1> QED
  BY <1>2, <1>3

\* A permutation of the elements of a request goes through one TLB group after another.
LEMMA GroupedPerms ==
  ASSUME NEW a, Chase!IsRequest(a), Sized(a), NEW p \in Chase!Grouped(a)
  PROVE  /\ IsPerm(p, Chase!NrElts(a))
         /\ \A x, y \in 0..(Chase!NrElts(a) - 1) :
              x \div Chase!PerGroup(a) = y \div Chase!PerGroup(a)
                <=> p[x] \div Chase!PerGroup(a) = p[y] \div Chase!PerGroup(a)
<1> DEFINE e == Chase!PerGroup(a)  g == Chase!NrGroups(a)  nr == Chase!NrElts(a)
<1>1. nr \in Chase!Positive /\ g \in Chase!Positive /\ e \in Chase!Positive /\ nr = g * e
  BY Sizes
<1>2. \E tp \in Chase!GenPermutation(g, 0, a.ordered),
         in \in [0..(g - 1) -> Chase!GenPermutation(e, 0, a.ordered)] :
         p = [x \in 0..(nr - 1) |-> (tp[x \div e] * e) + in[x \div e][x % e]]
  BY DEF Chase!Grouped
<1> HIDE DEF e, g, nr
<1>3. PICK tp \in Chase!GenPermutation(g, 0, a.ordered),
           in \in [0..(g - 1) -> Chase!GenPermutation(e, 0, a.ordered)] :
         p = [x \in 0..(nr - 1) |-> (tp[x \div e] * e) + in[x \div e][x % e]]
  BY <1>2
<1>4. IsPerm(tp, g) /\ \A h \in 0..(g - 1) : IsPerm(in[h], e)
  BY <1>1, PermutationsArePerms
<1>5. g \in Nat
  BY <1>1 DEF Chase!Positive
<1>6. /\ \A q \in 0..(g - 1), r \in 0..(e - 1) :
              /\ q * e + r \in 0..(nr - 1)
              /\ (q * e + r) \div e = q /\ ((q * e + r) % e) = r
      /\ \A x \in 0..(nr - 1) :
              /\ x \in Nat /\ x \div e \in 0..(g - 1) /\ (x % e) \in 0..(e - 1)
              /\ x = (x \div e) * e + (x % e)
  <2>1. nr = g * e
    BY <1>1
  <2>2. e \in Chase!Positive
    BY <1>1
  <2>3. /\ \A q \in 0..(g - 1), r \in 0..(e - 1) :
              /\ q * e + r \in 0..(g * e - 1)
              /\ (q * e + r) \div e = q /\ ((q * e + r) % e) = r
        /\ \A x \in 0..(g * e - 1) :
              /\ x \in Nat /\ x \div e \in 0..(g - 1) /\ (x % e) \in 0..(e - 1)
              /\ x = (x \div e) * e + (x % e)
    BY <1>5, <2>2, Quotients, Zenon
  <2> QED
    BY <2>1, <2>3, Zenon
<1>7. /\ \A h \in 0..(g - 1) : tp[h] \in 0..(g - 1)
      /\ \A h, k \in 0..(g - 1) : tp[h] = tp[k] => h = k
      /\ \A k \in 0..(g - 1) : \E h \in 0..(g - 1) : tp[h] = k
  BY <1>4 DEF IsPerm
<1>8. \A h \in 0..(g - 1) :
        /\ \A r \in 0..(e - 1) : in[h][r] \in 0..(e - 1)
        /\ \A r, t \in 0..(e - 1) : in[h][r] = in[h][t] => r = t
        /\ \A t \in 0..(e - 1) : \E r \in 0..(e - 1) : in[h][r] = t
  BY <1>4 DEF IsPerm
<1>9. \A x \in 0..(nr - 1) :
        /\ p[x] = (tp[x \div e] * e) + in[x \div e][x % e]
        /\ x \div e \in 0..(g - 1) /\ (x % e) \in 0..(e - 1)
        /\ tp[x \div e] \in 0..(g - 1) /\ in[x \div e][x % e] \in 0..(e - 1)
  BY <1>3, <1>6, <1>7, <1>8
<1>10. \A x \in 0..(nr - 1) :
        /\ p[x] \in 0..(nr - 1)
        /\ p[x] \div e = tp[x \div e]
        /\ (p[x] % e) = in[x \div e][x % e]
  BY <1>6, <1>9
<1>11. ASSUME NEW x \in 0..(nr - 1), NEW y \in 0..(nr - 1), p[x] = p[y]
       PROVE  x = y
  <2>1. tp[x \div e] = tp[y \div e] /\ in[x \div e][x % e] = in[y \div e][y % e]
    BY <1>10, <1>11
  <2>2. x \div e = y \div e
    BY <1>7, <1>9, <2>1
  <2>3. x % e = y % e
    <3>1. \A h \in 0..(g - 1), q, t \in 0..(e - 1) : in[h][q] = in[h][t] => q = t
      BY <1>8
    <3>2. in[x \div e][x % e] = in[x \div e][y % e]
      BY <2>1, <2>2
    <3>3. x \div e \in 0..(g - 1) /\ (x % e) \in 0..(e - 1) /\ (y % e) \in 0..(e - 1)
      BY <1>9
    <3> QED
      BY <3>1, <3>2, <3>3
  <2> QED
    BY <1>6, <2>2, <2>3
<1>12. ASSUME NEW y \in 0..(nr - 1) PROVE \E x \in 0..(nr - 1) : p[x] = y
  <2>1. y \div e \in 0..(g - 1) /\ (y % e) \in 0..(e - 1) /\ y = (y \div e) * e + (y % e)
    BY <1>6
  <2>2. PICK h \in 0..(g - 1) : tp[h] = y \div e
    BY <1>7, <2>1
  <2>3. PICK r \in 0..(e - 1) : in[h][r] = y % e
    BY <1>8, <2>1
  <2>4. h * e + r \in 0..(nr - 1) /\ (h * e + r) \div e = h /\ ((h * e + r) % e) = r
    BY <1>6
  <2> DEFINE x == h * e + r
  <2> HIDE DEF x
  <2>5. x \in 0..(nr - 1) /\ p[x] = (tp[h] * e) + in[h][r]
    BY <1>9, <2>4 DEF x
  <2> QED
    BY <2>1, <2>2, <2>3, <2>5
<1>13. p = [x \in 0..(nr - 1) |-> p[x]]
  BY <1>3
<1>14. IsPerm(p, nr)
  <2>1. p \in [0..(nr - 1) -> 0..(nr - 1)]
    BY <1>10, <1>13
  <2> QED
    BY <1>11, <1>12, <2>1 DEF IsPerm
<1>15. \A x, y \in 0..(nr - 1) : x \div e = y \div e <=> p[x] \div e = p[y] \div e
  <2> SUFFICES ASSUME NEW x \in 0..(nr - 1), NEW y \in 0..(nr - 1)
               PROVE  x \div e = y \div e <=> p[x] \div e = p[y] \div e
    OBVIOUS
  <2>1. p[x] \div e = tp[x \div e] /\ p[y] \div e = tp[y \div e]
    BY <1>10
  <2>2. x \div e \in 0..(g - 1) /\ y \div e \in 0..(g - 1)
    BY <1>9
  <2>3. \A h, k \in 0..(g - 1) : tp[h] = tp[k] => h = k
    BY <1>7
  <2> QED
    BY <2>1, <2>2, <2>3, Zenon
<1> QED
  BY <1>14, <1>15 DEF e, nr

-----------------------------------------------------------------------------
(* Slots *)

\* The address of element x in row r of the mixer mx, for the request a.
SlotOf(a, mx, x, r) ==
  x * a.stride + (mx[r][x % Cardinality(DOMAIN mx[r])]) * Chase!Scale(a)

\* No two rows of mx have the same number in a column.
IsMixer(mx, k) ==
  \E m \in Chase!Positive :
    /\ mx \in [0..(k - 1) -> [0..(m - 1) -> 0..(k - 1)]]
    /\ \A col \in 0..(m - 1), r, t \in 0..(k - 1) : mx[r][col] = mx[t][col] => r = t

\* A request whose chases can be generated, and its mixer.
Mixable(a, mx) ==
  /\ Chase!IsRequest(a) /\ Sized(a)
  /\ Chase!Indices(a) >= 1 /\ IsMixer(mx, Chase!Indices(a))

Elements(a) == 0..(Chase!NrElts(a) - 1)
Rows(a) == 0..(Chase!Indices(a) - 1)

\* One slot ends before the other begins.
Apart(u, v, b) == u + b <= v \/ v + b <= u

\* The rows of the mixer differ in each column.
LEMMA Columns ==
  ASSUME NEW a, NEW mx, Mixable(a, mx)
  PROVE  \A x \in Nat, r, t \in Rows(a) :
           /\ mx[r][x % Cardinality(DOMAIN mx[r])] \in Rows(a)
           /\ mx[r][x % Cardinality(DOMAIN mx[r])] = mx[t][x % Cardinality(DOMAIN mx[t])] => r = t
<1> DEFINE k == Chase!Indices(a)
<1>1. PICK m \in Chase!Positive :
         /\ mx \in [0..(k - 1) -> [0..(m - 1) -> 0..(k - 1)]]
         /\ \A col \in 0..(m - 1), r, t \in 0..(k - 1) : mx[r][col] = mx[t][col] => r = t
  BY DEF Mixable, IsMixer
<1> HIDE DEF k
<1>2. \A r \in 0..(k - 1) : Cardinality(DOMAIN mx[r]) = m
  <2> SUFFICES ASSUME NEW r \in 0..(k - 1) PROVE Cardinality(DOMAIN mx[r]) = m
    OBVIOUS
  <2>1. DOMAIN mx[r] = 0..(m - 1)
    BY <1>1
  <2>2. Cardinality(0..(m - 1)) = m
    <3>1. m \in Nat /\ 0 <= m - 1 /\ (m - 1) - 0 + 1 = m /\ 0 \in Int /\ m - 1 \in Int
      BY DEF Chase!Positive
    <3>2. Cardinality(0..(m - 1)) = (m - 1) - 0 + 1
      BY <3>1, FS_Interval
    <3> QED
      BY <3>1, <3>2
  <2> QED
    BY <2>1, <2>2
<1>3. \A x \in Nat : (x % m) \in 0..(m - 1)
  BY DivMod
<1>4. \A x \in Nat, r, t \in 0..(k - 1) :
        /\ mx[r][x % m] \in 0..(k - 1)
        /\ mx[r][x % m] = mx[t][x % m] => r = t
  BY <1>1, <1>3
<1> QED
  BY <1>2, <1>4 DEF k, Rows

\* Where a slot lies in its element, in the arena, and to the other slots.
LEMMA SlotFacts ==
  ASSUME NEW a, NEW mx, Mixable(a, mx)
  PROVE  /\ \A x \in Elements(a), r \in Rows(a) :
              /\ SlotOf(a, mx, x, r) \in Nat /\ SlotOf(a, mx, x, r) \div a.stride = x
              /\ SlotOf(a, mx, x, r) + a.base <= a.mem
              /\ x * a.stride \in Nat /\ x * a.stride <= SlotOf(a, mx, x, r)
              /\ SlotOf(a, mx, x, r) + a.base <= x * a.stride + a.stride
         /\ \A x, y \in Elements(a), r, t \in Rows(a) :
              x # y \/ r # t => Apart(SlotOf(a, mx, x, r), SlotOf(a, mx, y, t), a.base)
<1> DEFINE s == a.stride  b == a.base  k == Chase!Indices(a)  c == Chase!Scale(a)
           nr == Chase!NrElts(a)
           col(x, r) == mx[r][x % Cardinality(DOMAIN mx[r])]
           sl(x, r) == SlotOf(a, mx, x, r)
<1>1. s \in Chase!Positive /\ b \in Chase!Positive /\ nr \in Chase!Positive
  BY Sizes DEF Mixable, Chase!IsRequest
<1>2. k \in Chase!Positive /\ c \in Chase!Positive /\ b <= c /\ k * c <= s
  BY Room DEF Mixable
<1>3. a.mem = nr * s
  BY Sizes DEF Mixable
<1>4. \A x \in Nat, r, t \in 0..(k - 1) :
        col(x, r) \in 0..(k - 1) /\ (col(x, r) = col(x, t) => r = t)
  <2>1. \A x \in Nat, r, t \in Rows(a) : col(x, r) \in Rows(a) /\ (col(x, r) = col(x, t) => r = t)
    BY Columns
  <2>2. Rows(a) = 0..(k - 1)
    BY DEF Rows
  <2> QED
    BY <2>1, <2>2, Zenon
<1>5. \A x, r : sl(x, r) = x * s + col(x, r) * c
  BY DEF SlotOf
<1> HIDE DEF s, b, k, c, nr, col, sl
<1>6. /\ s \in Nat /\ b \in Nat /\ b > 0 /\ k \in Nat /\ c \in Nat /\ nr \in Nat /\ s > 0
      /\ nr > 0 /\ k > 0
  BY <1>1, <1>2 DEF Chase!Positive
<1>7. /\ \A u, v, w \in Nat : u <= v => u * w <= v * w
      /\ \A u, w \in Nat : (u + 1) * w = u * w + w /\ u * w \in Nat
  <2>1. \A u, v, w \in Nat : u <= v => u * w <= v * w
    OBVIOUS
  <2>2. \A u, w \in Nat : (u + 1) * w = u * w + w /\ u * w \in Nat
    OBVIOUS
  <2> QED
    BY <2>1, <2>2
\* The slots of an element, one after another.
<1>8. \A g, h \in 0..(k - 1) :
        /\ g * c \in Nat /\ g * c + c <= s
        /\ g < h => g * c + b <= h * c
  <2> SUFFICES ASSUME NEW g \in 0..(k - 1), NEW h \in 0..(k - 1)
               PROVE  /\ g * c \in Nat /\ g * c + c <= s
                      /\ g < h => g * c + b <= h * c
    OBVIOUS
  <2>1. g \in Nat /\ h \in Nat /\ g + 1 \in Nat /\ g + 1 <= k
    BY <1>6
  <2>2. g * c \in Nat /\ h * c \in Nat /\ (g + 1) * c = g * c + c /\ (g + 1) * c <= k * c
    BY <1>6, <1>7, <2>1
  <2>3. g < h => (g + 1) * c <= h * c
    BY <1>6, <1>7, <2>1
  <2>4. k * c \in Nat
    BY <1>6, <1>7
  <2> DEFINE u == g * c  v == h * c  w == k * c  z == (g + 1) * c
  <2> HIDE DEF u, v, w, z
  <2>5. /\ u \in Nat /\ v \in Nat /\ w \in Nat /\ z = u + c /\ z <= w /\ w <= s
        /\ (g < h => z <= v)
    BY <1>2, <2>2, <2>3, <2>4 DEF u, v, w, z
  <2>6. u + c <= s /\ (g < h => u + b <= v)
    BY <1>2, <1>6, <2>5
  <2> QED
    BY <2>5, <2>6 DEF u, v
<1>9. \A x \in 0..(nr - 1), r \in 0..(k - 1) :
        /\ x * s \in Nat /\ sl(x, r) = x * s + col(x, r) * c
        /\ col(x, r) \in 0..(k - 1) /\ x \in Nat
  BY <1>4, <1>5, <1>6, <1>7
<1>10. ASSUME NEW x \in 0..(nr - 1), NEW r \in 0..(k - 1)
       PROVE  /\ sl(x, r) \in Nat /\ sl(x, r) \div s = x
              /\ x * s <= sl(x, r) /\ sl(x, r) + b <= x * s + s
              /\ sl(x, r) + b <= nr * s
  <2> DEFINE u == x * s  v == col(x, r) * c
  <2>1. u \in Nat /\ v \in Nat /\ v + c <= s /\ sl(x, r) = u + v
    BY <1>8, <1>9
  <2>2. x + 1 \in Nat /\ x + 1 <= nr /\ x \in Nat
    BY <1>6
  <2>3. (x + 1) * s = u + s /\ (x + 1) * s <= nr * s /\ nr * s \in Nat
    BY <1>6, <1>7, <2>2
  <2>4. v \in 0..(s - 1)
    <3> HIDE DEF u, v
    <3> QED
      BY <1>2, <1>6, <2>1
  <2>5. (x * s + v) \div s = x
    <3> HIDE DEF v
    <3> QED
      BY <1>1, <2>2, <2>4, DivOf
  <2> DEFINE w == nr * s  z == (x + 1) * s
  <2>6. (u + v) \div s = x
    BY <2>5
  <2>7. z = u + s /\ z <= w /\ w \in Nat
    BY <2>3
  <2> HIDE DEF u, v, w, z
  <2>8. u + v \in Nat /\ u <= u + v /\ (u + v) + b <= u + s /\ (u + v) + b <= w
    BY <1>2, <1>6, <2>1, <2>7
  <2> QED
    BY <2>1, <2>6, <2>8 DEF u, w
<1>11. ASSUME NEW x \in 0..(nr - 1), NEW y \in 0..(nr - 1), NEW r \in 0..(k - 1),
              NEW t \in 0..(k - 1), x < y
       PROVE  sl(x, r) + b <= sl(y, t)
  <2>1. x + 1 \in Nat /\ y \in Nat /\ x + 1 <= y /\ x \in Nat
    BY <1>6, <1>11
  <2>2. (x + 1) * s = x * s + s /\ (x + 1) * s <= y * s /\ x * s \in Nat /\ y * s \in Nat
    BY <1>6, <1>7, <2>1
  <2>3. sl(x, r) \in Nat /\ sl(y, t) \in Nat /\ sl(x, r) + b <= x * s + s /\ y * s <= sl(y, t)
    BY <1>10
  <2> DEFINE u == x * s  v == y * s  w == sl(x, r)  z == sl(y, t)
  <2> HIDE DEF u, v, w, z
  <2>4. u \in Nat /\ v \in Nat /\ w \in Nat /\ z \in Nat /\ u + s <= v /\ w + b <= u + s /\ v <= z
    BY <2>2, <2>3 DEF u, v, w, z
  <2>5. w + b <= z
    BY <1>6, <2>4
  <2> QED
    BY <2>5 DEF w, z
<1>12. ASSUME NEW x \in 0..(nr - 1), NEW r \in 0..(k - 1), NEW t \in 0..(k - 1), r # t
       PROVE  Apart(sl(x, r), sl(x, t), b)
  <2> DEFINE g == col(x, r)  h == col(x, t)
  <2>1. g \in 0..(k - 1) /\ h \in 0..(k - 1) /\ g # h
    BY <1>4, <1>9, <1>12
  <2>2. sl(x, r) = x * s + g * c /\ sl(x, t) = x * s + h * c /\ x * s \in Nat
    BY <1>9
  <2> HIDE DEF g, h
  <2>3. g * c \in Nat /\ h * c \in Nat
    BY <1>8, <2>1
  <2>4. g * c + b <= h * c \/ h * c + b <= g * c
    <3>1. g < h \/ h < g
      BY <1>6, <2>1
    <3> QED
      BY <1>8, <2>1, <3>1
  <2> DEFINE u == x * s  v == g * c  w == h * c
  <2> HIDE DEF u, v, w
  <2>5. u \in Nat /\ v \in Nat /\ w \in Nat /\ (v + b <= w \/ w + b <= v)
    BY <2>2, <2>3, <2>4 DEF u, v, w
  <2>6. (u + v) + b <= u + w \/ (u + w) + b <= u + v
    BY <1>6, <2>5
  <2> QED
    BY <2>2, <2>6 DEF Apart, u, v, w
<1>13. \A x, y \in 0..(nr - 1), r, t \in 0..(k - 1) :
         x # y \/ r # t => Apart(sl(x, r), sl(y, t), b)
  <2> SUFFICES ASSUME NEW x \in 0..(nr - 1), NEW y \in 0..(nr - 1), NEW r \in 0..(k - 1),
                      NEW t \in 0..(k - 1), x # y \/ r # t
               PROVE  Apart(sl(x, r), sl(y, t), b)
    OBVIOUS
  <2>1. x < y \/ y < x \/ (x = y /\ r # t)
    BY <1>6
  <2>2. CASE x < y
    BY <1>11, <2>2 DEF Apart
  <2>3. CASE y < x
    BY <1>11, <2>3 DEF Apart
  <2>4. CASE x = y /\ r # t
    BY <1>12, <2>4
  <2> QED
    BY <2>1, <2>2, <2>3, <2>4
<1>14. /\ Elements(a) = 0..(nr - 1) /\ Rows(a) = 0..(k - 1)
       /\ \A x, r : sl(x, r) = SlotOf(a, mx, x, r)
  BY DEF Elements, Rows, nr, k, sl
<1>15. a.stride = s /\ a.base = b
  BY DEF s, b
<1>16. \A x \in 0..(nr - 1), r \in 0..(k - 1) :
              /\ sl(x, r) \in Nat /\ sl(x, r) \div s = x
              /\ sl(x, r) + b <= nr * s
              /\ x * s \in Nat /\ x * s <= sl(x, r)
              /\ sl(x, r) + b <= x * s + s
  BY <1>9, <1>10
<1> QED
  BY <1>3, <1>13, <1>14, <1>15, <1>16

\* A slot is inside its element, and two slots are apart.
LEMMA Slots ==
  ASSUME NEW a, NEW mx, Mixable(a, mx)
  PROVE  /\ \A x \in Elements(a), r \in Rows(a) :
              /\ SlotOf(a, mx, x, r) \in Nat /\ SlotOf(a, mx, x, r) \div a.stride = x
              /\ SlotOf(a, mx, x, r) + a.base <= a.mem
         /\ \A x, y \in Elements(a), r, t \in Rows(a) :
              x # y \/ r # t => Apart(SlotOf(a, mx, x, r), SlotOf(a, mx, y, t), a.base)
  BY SlotFacts

\* Every word of a slot tells its element.
LEMMA SlotWords ==
  ASSUME NEW a, NEW mx, Mixable(a, mx), NEW x \in Elements(a), NEW r \in Rows(a),
         NEW o \in 0..(a.base - 1)
  PROVE  (SlotOf(a, mx, x, r) + o) \div a.stride = x
<1> DEFINE u == SlotOf(a, mx, x, r)  v == x * a.stride
<1>1. /\ u \in Nat /\ v \in Nat /\ v <= u /\ u + a.base <= v + a.stride
  BY SlotFacts
<1>2. a.stride \in Chase!Positive /\ a.base \in Chase!Positive
  BY DEF Mixable, Chase!IsRequest
<1>3. x \in Nat
  BY Sizes DEF Mixable, Elements, Chase!Positive
<1> HIDE DEF u
<1>4. (u - v) + o \in 0..(a.stride - 1) /\ v + ((u - v) + o) = u + o
  <2> HIDE DEF v
  <2> QED
    BY <1>1, <1>2 DEF Chase!Positive
<1> DEFINE q == (u - v) + o
<1>5. q \in 0..(a.stride - 1) /\ v + q = u + o
  BY <1>4
<1> HIDE DEF q
<1>6. (x * a.stride + q) \div a.stride = x
  BY <1>2, <1>3, <1>5, DivOf
<1> QED
  BY <1>5, <1>6 DEF u, v

-----------------------------------------------------------------------------
(* Laps *)

\* Where p has element 0, and the k-th of its nr elements from there on.
Start(p) == CHOOSE z \in DOMAIN p : p[z] = 0
ElemAt(p, nr, k) == p[(Start(p) + k) % nr]

\* The remainder of a sum of two places is one subtraction.
LEMMA Remainders ==
  ASSUME NEW nr \in Chase!Positive, NEW y \in 0..(nr - 1), NEW k \in 0..(nr - 1)
  PROVE  /\ ((y + k) % nr) = IF y + k < nr THEN y + k ELSE (y + k) - nr
         /\ ((y + k) % nr) \in 0..(nr - 1)
<1>0. nr \in Nat /\ nr > 0 /\ y \in Nat /\ k \in Nat /\ y + 1 <= nr /\ k + 1 <= nr
  BY DEF Chase!Positive
<1>1. \A q \in Nat, r \in 0..(nr - 1) : ((q * nr + r) % nr) = r
  BY DivOf
<1>2. \A u \in Nat : 0 * u = 0 /\ 1 * u = u
  OBVIOUS
<1>3. CASE y + k < nr
  <2>1. y + k \in 0..(nr - 1) /\ 0 * nr + (y + k) = y + k
    BY <1>0, <1>2, <1>3
  <2> QED
    BY <1>1, <1>3, <2>1
<1>4. CASE ~(y + k < nr)
  <2>1. (y + k) - nr \in 0..(nr - 1) /\ 1 * nr + ((y + k) - nr) = y + k
    BY <1>0, <1>2, <1>4
  <2>2. ((1 * nr + ((y + k) - nr)) % nr) = (y + k) - nr
    BY <1>1, <2>1
  <2> QED
    BY <1>4, <2>1, <2>2
<1> QED
  BY <1>3, <1>4

\* A permutation, turned so that it begins with 0, and the element after each.
LEMMA Turned ==
  ASSUME NEW nr \in Chase!Positive, NEW p, IsPerm(p, nr)
  PROVE  /\ \A k \in 0..(nr - 1) : ElemAt(p, nr, k) \in 0..(nr - 1)
         /\ ElemAt(p, nr, 0) = 0
         /\ \A k, l \in 0..(nr - 1) : ElemAt(p, nr, k) = ElemAt(p, nr, l) => k = l
         /\ \A y \in 0..(nr - 1) : \E k \in 0..(nr - 1) : ElemAt(p, nr, k) = y
         /\ \A k \in 0..(nr - 1) :
              p[Chase!NextIndex(Chase!AntiFunction(p)[ElemAt(p, nr, k)], nr)]
                = IF k + 1 = nr THEN 0 ELSE ElemAt(p, nr, k + 1)
<1>0. nr \in Nat /\ nr > 0
  BY DEF Chase!Positive
<1>1. /\ DOMAIN p = 0..(nr - 1)
      /\ \A x \in 0..(nr - 1) : p[x] \in 0..(nr - 1)
      /\ \A x, y \in 0..(nr - 1) : p[x] = p[y] => x = y
      /\ \A y \in 0..(nr - 1) : \E x \in 0..(nr - 1) : p[x] = y
  BY DEF IsPerm
<1> DEFINE z == Start(p)
           at(k) == (z + k) % nr
<1>2. z \in 0..(nr - 1) /\ p[z] = 0
  <2>1. 0 \in 0..(nr - 1)
    BY <1>0
  <2>2. \E x \in DOMAIN p : p[x] = 0
    BY <1>1, <2>1
  <2> QED
    BY <1>1, <2>2 DEF Start
<1> HIDE DEF z
<1>3. \A k \in 0..(nr - 1) : /\ at(k) = IF z + k < nr THEN z + k ELSE (z + k) - nr
                             /\ at(k) \in 0..(nr - 1)
  BY <1>2, Remainders
<1>4. \A k : ElemAt(p, nr, k) = p[at(k)]
  BY DEF ElemAt, z
<1> HIDE DEF at
<1>5. \A k \in 0..(nr - 1) : ElemAt(p, nr, k) \in 0..(nr - 1)
  BY <1>1, <1>3, <1>4
<1>6. ElemAt(p, nr, 0) = 0
  <2>1. 0 \in 0..(nr - 1) /\ z + 0 = z /\ z < nr
    BY <1>0, <1>2
  <2>2. at(0) = z
    BY <1>3, <2>1
  <2> QED
    BY <1>2, <1>4, <2>2
<1>7. ASSUME NEW k \in 0..(nr - 1), NEW l \in 0..(nr - 1), ElemAt(p, nr, k) = ElemAt(p, nr, l)
      PROVE  k = l
  <2>1. at(k) = at(l)
    BY <1>1, <1>3, <1>4, <1>7
  <2>2. /\ at(k) = IF z + k < nr THEN z + k ELSE (z + k) - nr
        /\ at(l) = IF z + l < nr THEN z + l ELSE (z + l) - nr
    BY <1>3
  <2>3. z \in Nat /\ k \in Nat /\ l \in Nat /\ k < nr /\ l < nr
    BY <1>0, <1>2
  <2>4. \A b, y, g, h \in Nat :
          /\ y < b /\ g < b /\ h < b
          /\ (IF y + g < b THEN y + g ELSE (y + g) - b)
               = (IF y + h < b THEN y + h ELSE (y + h) - b)
          => g = h
    OBVIOUS
  <2>5. z < nr
    BY <1>0, <1>2
  <2>6. (IF z + k < nr THEN z + k ELSE (z + k) - nr) = (IF z + l < nr THEN z + l ELSE (z + l) - nr)
    BY <2>1, <2>2, Zenon
  <2> QED
    BY <1>0, <2>3, <2>4, <2>5, <2>6, Zenon
<1>8. ASSUME NEW y \in 0..(nr - 1) PROVE \E k \in 0..(nr - 1) : ElemAt(p, nr, k) = y
  <2>1. PICK x \in 0..(nr - 1) : p[x] = y
    BY <1>1
  <2> DEFINE k == IF z <= x THEN x - z ELSE (x - z) + nr
  <2>2. k \in 0..(nr - 1) /\ (IF z + k < nr THEN z + k ELSE (z + k) - nr) = x
    BY <1>0, <1>2
  <2> HIDE DEF k
  <2>3. at(k) = x
    BY <1>3, <2>2
  <2> QED
    BY <1>4, <2>1, <2>2, <2>3
<1>9. ASSUME NEW k \in 0..(nr - 1)
      PROVE  p[Chase!NextIndex(Chase!AntiFunction(p)[ElemAt(p, nr, k)], nr)]
               = IF k + 1 = nr THEN 0 ELSE ElemAt(p, nr, k + 1)
  <2> DEFINE x == at(k)
  <2>1. x \in 0..(nr - 1) /\ x = IF z + k < nr THEN z + k ELSE (z + k) - nr
    BY <1>3
  <2> HIDE DEF x
  <2>2. Chase!AntiFunction(p)[p[x]] = x
    BY <1>1, <2>1 DEF Chase!AntiFunction, Chase!Inverse, Chase!Range
  <2>3. Chase!AntiFunction(p)[ElemAt(p, nr, k)] = x
    BY <1>4, <2>2 DEF x
  <2>4. CASE k + 1 = nr
    <3>1. Chase!NextIndex(x, nr) = z
      BY <1>0, <1>2, <2>1, <2>4 DEF Chase!NextIndex
    <3> QED
      BY <1>2, <2>3, <2>4, <3>1
  <2>5. CASE k + 1 # nr
    <3>1. k + 1 \in 0..(nr - 1)
      BY <1>0, <2>5
    <3>2. at(k + 1) = IF z + (k + 1) < nr THEN z + (k + 1) ELSE (z + (k + 1)) - nr
      BY <1>3, <3>1
    <3>3. Chase!NextIndex(x, nr) = at(k + 1)
      BY <1>0, <1>2, <2>1, <2>5, <3>2 DEF Chase!NextIndex
    <3> QED
      BY <1>4, <2>3, <2>5, <3>3
  <2> QED
    BY <2>4, <2>5
<1> QED
  BY <1>5, <1>6, <1>7, <1>8, <1>9

\* The elements that a chase of iters permutations visits, in its order, the rows of
\* their slots, and the slots.
LapElem(a, perms, m) == ElemAt(perms[m \div Chase!NrElts(a)], Chase!NrElts(a), m % Chase!NrElts(a))
LapRow(a, row, m) == row + (m \div Chase!NrElts(a))
LapAt(a, mx, row, perms, m) == SlotOf(a, mx, LapElem(a, perms, m), LapRow(a, row, m))

LapLength(a, iters) == iters * Chase!NrElts(a)
Steps(a, iters) == 0..(LapLength(a, iters) - 1)
\* The slots of a row, and of the rows that a chase uses.
RowSlots(a, mx, r) == {SlotOf(a, mx, x, r) : x \in Elements(a)}
LapSlots(a, mx, row, iters) == UNION {RowSlots(a, mx, row + j) : j \in 0..(iters - 1)}
NextStep(a, iters, m) == IF m + 1 = LapLength(a, iters) THEN 0 ELSE m + 1

\* What a chase of iters permutations is generated from.
IsPlan(a, row, iters, perms) ==
  /\ iters \in Chase!Positive /\ row \in Nat /\ row + iters <= Chase!Indices(a)
  /\ perms \in [0..(iters - 1) -> Chase!Grouped(a)]

\* The parts of a lap are what they should be.
LEMMA LapParts ==
  ASSUME NEW a, NEW mx, Mixable(a, mx), NEW row, NEW iters, NEW perms,
         IsPlan(a, row, iters, perms)
  PROVE  /\ Chase!NrElts(a) \in Chase!Positive /\ iters \in Nat
         /\ LapLength(a, iters) \in Chase!Positive
         /\ \A j \in 0..(iters - 1) : /\ IsPerm(perms[j], Chase!NrElts(a))
                                      /\ row + j \in Rows(a) /\ row + j \in Nat
         /\ \A m \in Steps(a, iters) :
              /\ m \in Nat
              /\ m \div Chase!NrElts(a) \in 0..(iters - 1)
              /\ m % Chase!NrElts(a) \in Elements(a)
              /\ m = (m \div Chase!NrElts(a)) * Chase!NrElts(a) + (m % Chase!NrElts(a))
              /\ LapElem(a, perms, m) \in Elements(a) /\ LapRow(a, row, m) \in Rows(a)
<1> DEFINE nr == Chase!NrElts(a)
<1>1. nr \in Chase!Positive
  BY Sizes DEF Mixable
<1>2. iters \in Chase!Positive /\ iters \in Nat /\ row \in Nat /\ row + iters <= Chase!Indices(a)
  BY DEF IsPlan, Chase!Positive
<1>3. LapLength(a, iters) \in Chase!Positive
  BY <1>1, <1>2, ProductType DEF LapLength
<1>4. Chase!Indices(a) \in Nat
  BY Room DEF Mixable, Chase!Positive
<1>5. \A j \in 0..(iters - 1) : row + j \in Rows(a) /\ row + j \in Nat
  BY <1>2, <1>4 DEF Rows
<1>6. \A j \in 0..(iters - 1) : IsPerm(perms[j], nr)
  <2> SUFFICES ASSUME NEW j \in 0..(iters - 1) PROVE IsPerm(perms[j], nr)
    OBVIOUS
  <2>1. perms[j] \in Chase!Grouped(a)
    BY DEF IsPlan
  <2>2. Chase!IsRequest(a) /\ Sized(a)
    BY DEF Mixable
  <2> QED
    BY <2>1, <2>2, GroupedPerms
<1>7. Steps(a, iters) = 0..(iters * nr - 1) /\ Elements(a) = 0..(nr - 1)
  BY DEF Steps, LapLength, Elements
<1> HIDE DEF nr
<1>8. \A m \in 0..(iters * nr - 1) :
        /\ m \in Nat /\ m \div nr \in 0..(iters - 1) /\ (m % nr) \in 0..(nr - 1)
        /\ m = (m \div nr) * nr + (m % nr)
  BY <1>1, <1>2, Quotients
<1>9. \A m \in 0..(iters * nr - 1) : ElemAt(perms[m \div nr], nr, m % nr) \in 0..(nr - 1)
  BY <1>1, <1>6, <1>8, Turned
<1>10. \A m \in 0..(iters * nr - 1) :
         LapElem(a, perms, m) \in 0..(nr - 1) /\ LapRow(a, row, m) \in Rows(a)
  BY <1>5, <1>8, <1>9 DEF LapElem, LapRow, nr
<1> QED
  BY <1>1, <1>2, <1>3, <1>5, <1>6, <1>7, <1>8, <1>10, Zenon DEF nr

\* A lap visits each of its slots once, beginning with that of element 0.
LEMMA LapIsOnce ==
  ASSUME NEW a, NEW mx, Mixable(a, mx), NEW row, NEW iters, NEW perms,
         IsPlan(a, row, iters, perms)
  PROVE  /\ \A l, m \in Steps(a, iters) : l # m =>
              \/ LapElem(a, perms, l) # LapElem(a, perms, m)
              \/ LapRow(a, row, l) # LapRow(a, row, m)
         /\ {LapAt(a, mx, row, perms, m) : m \in Steps(a, iters)} = LapSlots(a, mx, row, iters)
         /\ 0 \in Steps(a, iters) /\ LapAt(a, mx, row, perms, 0) = SlotOf(a, mx, 0, row)
         /\ \A m \in Steps(a, iters) : m % Chase!NrElts(a) = 0 => LapElem(a, perms, m) = 0
<1> DEFINE nr == Chase!NrElts(a)
<1>1. /\ nr \in Chase!Positive /\ iters \in Nat /\ LapLength(a, iters) \in Chase!Positive
      /\ \A j \in 0..(iters - 1) : IsPerm(perms[j], nr) /\ row + j \in Rows(a) /\ row + j \in Nat
      /\ \A m \in Steps(a, iters) :
           /\ m \in Nat /\ m \div nr \in 0..(iters - 1) /\ m % nr \in Elements(a)
           /\ m = (m \div nr) * nr + (m % nr)
           /\ LapElem(a, perms, m) \in Elements(a) /\ LapRow(a, row, m) \in Rows(a)
  BY LapParts
<1>2. Steps(a, iters) = 0..(iters * nr - 1) /\ Elements(a) = 0..(nr - 1)
  BY DEF Steps, LapLength, Elements
<1>3. \A m : /\ LapElem(a, perms, m) = ElemAt(perms[m \div nr], nr, m % nr)
             /\ LapRow(a, row, m) = row + (m \div nr)
             /\ LapAt(a, mx, row, perms, m) = SlotOf(a, mx, LapElem(a, perms, m), LapRow(a, row, m))
  BY DEF LapElem, LapRow, LapAt
<1> HIDE DEF nr
<1>4. \A j \in 0..(iters - 1) :
         /\ ElemAt(perms[j], nr, 0) = 0
         /\ \A k, l \in 0..(nr - 1) : ElemAt(perms[j], nr, k) = ElemAt(perms[j], nr, l) => k = l
         /\ \A y \in 0..(nr - 1) : \E k \in 0..(nr - 1) : ElemAt(perms[j], nr, k) = y
  BY <1>1, Turned
<1>5. row \in Nat /\ iters > 0
  BY DEF IsPlan, Chase!Positive
<1>6. ASSUME NEW l \in Steps(a, iters), NEW m \in Steps(a, iters),
             LapElem(a, perms, l) = LapElem(a, perms, m),
             LapRow(a, row, l) = LapRow(a, row, m)
      PROVE  l = m
  <2>1. l \div nr = m \div nr
    <3>1. row + (l \div nr) = row + (m \div nr)
      BY <1>3, <1>6
    <3>2. l \div nr \in Nat /\ m \div nr \in Nat
      BY <1>1
    <3> QED
      BY <1>5, <3>1, <3>2
  <2>2. l % nr = m % nr
    <3>1. ElemAt(perms[l \div nr], nr, l % nr) = ElemAt(perms[l \div nr], nr, m % nr)
      BY <1>3, <1>6, <2>1
    <3>2. l \div nr \in 0..(iters - 1) /\ (l % nr) \in 0..(nr - 1) /\ (m % nr) \in 0..(nr - 1)
      BY <1>1, <1>2
    <3>3. \A j \in 0..(iters - 1), g, h \in 0..(nr - 1) :
            ElemAt(perms[j], nr, g) = ElemAt(perms[j], nr, h) => g = h
      BY <1>4
    <3> QED
      BY <3>1, <3>2, <3>3
  <2> QED
    BY <1>1, <2>1, <2>2
<1>7. \A q \in 0..(iters - 1), r \in 0..(nr - 1) :
        /\ q * nr + r \in 0..(iters * nr - 1)
        /\ (q * nr + r) \div nr = q /\ ((q * nr + r) % nr) = r
  BY <1>1, Quotients
<1>8. ASSUME NEW x \in Elements(a), NEW j \in 0..(iters - 1)
      PROVE  \E m \in Steps(a, iters) : LapAt(a, mx, row, perms, m) = SlotOf(a, mx, x, row + j)
  <2>1. PICK k \in 0..(nr - 1) : ElemAt(perms[j], nr, k) = x
    BY <1>2, <1>4
  <2> DEFINE m == j * nr + k
  <2>2. m \in Steps(a, iters) /\ m \div nr = j /\ (m % nr) = k
    BY <1>2, <1>7
  <2> HIDE DEF m
  <2> QED
    BY <1>3, <2>1, <2>2
<1>9. {LapAt(a, mx, row, perms, m) : m \in Steps(a, iters)} = LapSlots(a, mx, row, iters)
  <2>1. ASSUME NEW m \in Steps(a, iters)
        PROVE  \E x \in Elements(a), j \in 0..(iters - 1) :
                 LapAt(a, mx, row, perms, m) = SlotOf(a, mx, x, row + j)
    BY <1>1, <1>3
  <2> QED
    BY <1>8, <2>1 DEF LapSlots, RowSlots
<1>10. 0 \in Steps(a, iters) /\ 0 \div nr = 0 /\ (0 % nr) = 0
  <2>1. nr \in Nat /\ nr > 0
    BY <1>1 DEF Chase!Positive
  <2>2. 0 * nr + 0 = 0 /\ 0 \in 0..(iters - 1) /\ 0 \in 0..(nr - 1)
    BY <1>1, <1>5, <2>1
  <2> QED
    BY <1>2, <1>7, <2>2
<1>11. LapAt(a, mx, row, perms, 0) = SlotOf(a, mx, 0, row)
  <2>1. 0 \in 0..(iters - 1) /\ row + 0 = row
    BY <1>1, <1>5
  <2> QED
    BY <1>3, <1>4, <1>10, <2>1
<1>12. ASSUME NEW m \in Steps(a, iters), m % nr = 0 PROVE LapElem(a, perms, m) = 0
  <2>1. m \div nr \in 0..(iters - 1)
    BY <1>1
  <2>2. ElemAt(perms[m \div nr], nr, 0) = 0
    BY <1>4, <2>1
  <2> QED
    BY <1>3, <1>12, <2>2
<1> QED
  BY <1>6, <1>9, <1>10, <1>11, <1>12 DEF nr

\* The element after each, and its row: the next of the permutation, or element 0 of the
\* next one.
LEMMA LapNext ==
  ASSUME NEW a, NEW mx, Mixable(a, mx), NEW row, NEW iters, NEW perms,
         IsPlan(a, row, iters, perms), NEW m \in Steps(a, iters)
  PROVE  LET nr == Chase!NrElts(a)
             j == m \div nr
             e == perms[j][Chase!NextIndex(Chase!AntiFunction(perms[j])[LapElem(a, perms, m)], nr)]
             k == NextStep(a, iters, m)
         IN /\ k \in Steps(a, iters)
            /\ e = 0 => LapElem(a, perms, k) = 0 /\ LapRow(a, row, k) = row + ((j + 1) % iters)
            /\ e # 0 => LapElem(a, perms, k) = e /\ LapRow(a, row, k) = row + j
<1> DEFINE nr == Chase!NrElts(a)
           j == m \div nr
           h == m % nr
           p == perms[j]
           e == p[Chase!NextIndex(Chase!AntiFunction(p)[LapElem(a, perms, m)], nr)]
           k == NextStep(a, iters, m)
<1>1. /\ nr \in Chase!Positive /\ iters \in Nat
      /\ \A l \in 0..(iters - 1) : IsPerm(perms[l], nr)
      /\ m \in Nat /\ j \in 0..(iters - 1) /\ h \in Elements(a) /\ m = j * nr + h
  BY LapParts
<1>2. Steps(a, iters) = 0..(iters * nr - 1) /\ Elements(a) = 0..(nr - 1)
  BY DEF Steps, LapLength, Elements
<1>3. \A l : /\ LapElem(a, perms, l) = ElemAt(perms[l \div nr], nr, l % nr)
             /\ LapRow(a, row, l) = row + (l \div nr)
  BY DEF LapElem, LapRow
<1>4. k = IF m + 1 = iters * nr THEN 0 ELSE m + 1
  BY DEF NextStep, LapLength
<1>5. LapElem(a, perms, m) = ElemAt(p, nr, h)
  BY <1>3
<1> HIDE DEF nr
<1>6. /\ e = IF h + 1 = nr THEN 0 ELSE ElemAt(p, nr, h + 1)
      /\ ElemAt(p, nr, 0) = 0
      /\ \A g, l \in 0..(nr - 1) : ElemAt(p, nr, g) = ElemAt(p, nr, l) => g = l
  <2>1. IsPerm(p, nr) /\ h \in 0..(nr - 1)
    BY <1>1, <1>2
  <2> HIDE DEF p, h
  <2> QED
    BY <1>1, <1>5, <2>1, Turned
<1>7. \A q \in 0..(iters - 1), r \in 0..(nr - 1) :
        /\ q * nr + r \in 0..(iters * nr - 1)
        /\ (q * nr + r) \div nr = q /\ ((q * nr + r) % nr) = r
  BY <1>1, Quotients
<1>8. /\ nr \in Nat /\ nr > 0 /\ j \in Nat /\ h \in 0..(nr - 1) /\ h \in Nat /\ iters > 0
      /\ iters \in Chase!Positive
  BY <1>1, <1>2 DEF IsPlan, Chase!Positive
<1> HIDE DEF j, h, p, e, k
<1>9. \A u, w \in Nat : (u + 1) * w = u * w + w /\ u * w \in Nat
  OBVIOUS
<1>10. \A u \in Nat : 0 * u = 0 /\ 1 * u = u
  OBVIOUS
<1>11. \A q \in Nat, r \in 0..(iters - 1) : ((q * iters + r) % iters) = r
  BY <1>8, DivOf
<1>12. 0 \in 0..(iters - 1) /\ 0 \in 0..(nr - 1)
  BY <1>1, <1>8
<1>13. CASE h + 1 = nr
  <2>1. m + 1 = (j + 1) * nr
    <3>1. (j + 1) * nr = j * nr + nr /\ j * nr \in Nat
      BY <1>8, <1>9
    <3> DEFINE u == j * nr  v == (j + 1) * nr
    <3> HIDE DEF u, v
    <3>2. v = u + nr /\ u \in Nat /\ m = u + h
      BY <1>1, <3>1 DEF u, v
    <3> QED
      BY <1>8, <1>13, <3>2 DEF v
  <2>2. CASE j + 1 = iters
    <3>1. k = 0
      BY <1>4, <2>1, <2>2
    <3>2. (j + 1) % iters = 0
      <4>1. ((1 * iters + 0) % iters) = 0
        BY <1>11, <1>12
      <4>2. 1 * iters + 0 = iters
        BY <1>1, <1>10
      <4> QED
        BY <2>2, <4>1, <4>2
    <3>3. 0 \in 0..(iters - 1) /\ 0 \in 0..(nr - 1) /\ 0 * nr + 0 = 0
      BY <1>8, <1>10, <1>12
    <3>4. 0 \in Steps(a, iters) /\ 0 \div nr = 0 /\ (0 % nr) = 0
      BY <1>2, <1>7, <3>3
    <3>5. LapElem(a, perms, 0) = 0 /\ LapRow(a, row, 0) = row + 0
      <4>1. IsPerm(perms[0], nr)
        BY <1>1, <3>3
      <4>2. ElemAt(perms[0], nr, 0) = 0
        BY <1>1, <4>1, Turned
      <4> QED
        BY <1>3, <3>4, <4>2
    <3>6. k \in Steps(a, iters) /\ e = 0 /\ LapElem(a, perms, k) = 0
          /\ LapRow(a, row, k) = row + ((j + 1) % iters)
      BY <1>6, <1>13, <3>1, <3>2, <3>4, <3>5
    <3> QED
      BY <3>6 DEF nr, j, p, e, k
  <2>3. CASE j + 1 # iters
    <3>1. j + 1 \in 0..(iters - 1) /\ 0 \in 0..(nr - 1) /\ j + 1 \in Nat
      BY <1>1, <1>8, <2>3
    <3>2. (j + 1) * nr + 0 = m + 1
      BY <1>1, <2>1
    <3>3. m + 1 \in 0..(iters * nr - 1) /\ (m + 1) \div nr = j + 1 /\ ((m + 1) % nr) = 0
      BY <1>7, <3>1, <3>2
    <3>4. m + 1 # iters * nr
      BY <1>1, <3>3
    <3>5. k = m + 1
      BY <1>4, <3>4
    <3>6. (j + 1) % iters = j + 1
      <4>1. ((0 * iters + (j + 1)) % iters) = j + 1
        BY <1>11, <3>1
      <4>2. 0 * iters + (j + 1) = j + 1
        BY <1>1, <1>10, <3>1
      <4> QED
        BY <4>1, <4>2
    <3>7. LapElem(a, perms, k) = 0 /\ LapRow(a, row, k) = row + ((j + 1) % iters)
      <4>1. IsPerm(perms[j + 1], nr)
        BY <1>1, <3>1
      <4>2. ElemAt(perms[j + 1], nr, 0) = 0
        BY <1>1, <4>1, Turned
      <4> QED
        BY <1>3, <3>3, <3>5, <3>6, <4>2
    <3>8. k \in Steps(a, iters) /\ e = 0
      BY <1>2, <1>6, <1>13, <3>3, <3>5
    <3> QED
      BY <3>7, <3>8 DEF nr, j, p, e, k
  <2> QED
    BY <2>2, <2>3
<1>14. CASE h + 1 # nr
  <2>1. h + 1 \in 0..(nr - 1) /\ 0 \in 0..(nr - 1) /\ h + 1 # 0
    BY <1>8, <1>14
  <2>2. j * nr + (h + 1) = m + 1
    <3>1. j * nr \in Nat
      BY <1>8, <1>9
    <3> DEFINE u == j * nr
    <3> HIDE DEF u
    <3>2. u \in Nat /\ m = u + h
      BY <1>1, <3>1 DEF u
    <3>3. u + (h + 1) = m + 1
      BY <1>8, <3>2
    <3> QED
      BY <3>3 DEF u
  <2>3. m + 1 \in 0..(iters * nr - 1) /\ (m + 1) \div nr = j /\ ((m + 1) % nr) = h + 1
    BY <1>1, <1>7, <2>1, <2>2
  <2>4. k = m + 1
    <3>1. m + 1 # iters * nr
      BY <1>1, <2>3
    <3> QED
      BY <1>4, <3>1
  <2>5. e = ElemAt(p, nr, h + 1) /\ e # 0
    BY <1>6, <1>14, <2>1
  <2>6. k \in Steps(a, iters) /\ LapElem(a, perms, k) = e /\ LapRow(a, row, k) = row + j
    BY <1>2, <1>3, <2>3, <2>4, <2>5 DEF p
  <2> QED
    BY <2>5, <2>6 DEF nr, j, p, e, k
<1> QED
  BY <1>13, <1>14

-----------------------------------------------------------------------------
(* Links *)

\* links lead from each slot of the lap to the next, and from the last to the first.
LapLinks(a, mx, row, iters, perms, links) ==
  /\ DOMAIN links = {LapAt(a, mx, row, perms, m) : m \in Steps(a, iters)}
  /\ \A m \in Steps(a, iters) :
       links[LapAt(a, mx, row, perms, m)] = LapAt(a, mx, row, perms, NextStep(a, iters, m))

\* Cardinality means in Chase what it means here.
LEMMA SameCardinality == \A S : Chase!Cardinality(S) = Cardinality(S)
  BY DEF Chase!Cardinality, Chase!IsFiniteSet, Cardinality, IsFiniteSet

\* Nor do the addresses differ.
LEMMA MixedIsSlot == \A x, r : Chase!Mixed(x, r) = SlotOf(args, mixer, x, r)
  BY SameCardinality DEF Chase!Mixed, SlotOf

\* A slot tells the element and the row it is of.
LEMMA SlotTells ==
  ASSUME NEW a, NEW mx, Mixable(a, mx), NEW x \in Elements(a), NEW y \in Elements(a),
         NEW r \in Rows(a), NEW t \in Rows(a), SlotOf(a, mx, x, r) = SlotOf(a, mx, y, t)
  PROVE  x = y /\ r = t
<1>1. a.base \in Nat /\ a.base > 0
  BY DEF Mixable, Chase!IsRequest, Chase!Positive
<1>2. SlotOf(a, mx, x, r) \in Nat
  BY Slots
<1>3. ~Apart(SlotOf(a, mx, x, r), SlotOf(a, mx, y, t), a.base)
  <2> DEFINE u == SlotOf(a, mx, x, r)
  <2> HIDE DEF u
  <2>1. ~Apart(u, u, a.base)
    BY <1>1, <1>2 DEF Apart, u
  <2> QED
    BY <2>1 DEF u
<1> QED
  BY <1>3, Slots

\* A long chase's links are a lap's.
LEMMA LongChase ==
  ASSUME Mixable(args, mixer), NEW row, NEW iters, NEW perms, IsPlan(args, row, iters, perms)
  PROVE  LapLinks(args, mixer, row, iters, perms, Chase!LinkedLong(row, perms))
<1> DEFINE nr == Chase!NrElts(args)
           sl(x, r) == SlotOf(args, mixer, x, r)
           Slot(j) == RowSlots(args, mixer, row + j)
           nx(x, j) == perms[j][Chase!NextIndex(Chase!AntiFunction(perms[j])[x], nr)]
           to(x, j) == IF nx(x, j) = 0 THEN sl(0, row + ((j + 1) % iters))
                       ELSE sl(nx(x, j), row + j)
           at(m) == LapAt(args, mixer, row, perms, m)
           links == Chase!LinkedLong(row, perms)
<1>1. DOMAIN perms = 0..(iters - 1) /\ iters \in Chase!Positive /\ row \in Nat
  BY DEF IsPlan
<1>2. Cardinality(DOMAIN perms) = iters
  <2>1. iters \in Nat /\ 0 \in Int /\ iters - 1 \in Int /\ ~(0 > iters - 1)
        /\ (iters - 1) - 0 + 1 = iters
    BY <1>1 DEF Chase!Positive
  <2>2. Cardinality(0..(iters - 1)) = (iters - 1) - 0 + 1
    BY <2>1, FS_Interval
  <2> QED
    BY <1>1, <2>1, <2>2
<1>3. links = [u \in UNION {Slot(j) : j \in DOMAIN perms} |->
                 to(u \div args.stride, CHOOSE j \in DOMAIN perms : u \in Slot(j))]
  <2> DEFINE Slot2(j) == {Chase!Mixed(x, row + j) : x \in 0..(nr - 1)}
             to2(x, j) == IF nx(x, j) = 0
                          THEN Chase!Mixed(0, row + ((j + 1) % Chase!Cardinality(DOMAIN perms)))
                          ELSE Chase!Mixed(nx(x, j), row + j)
  <2>1. links = [u \in UNION {Slot2(j) : j \in DOMAIN perms} |->
                 to2(u \div args.stride, CHOOSE j \in DOMAIN perms : u \in Slot2(j))]
    BY Zenon DEF Chase!LinkedLong, Chase!EndsPermutation
  <2>2. Chase!Cardinality(DOMAIN perms) = iters
    BY <1>2, SameCardinality
  <2> HIDE DEF nx, nr
  <2>3. \A j : Slot2(j) = Slot(j)
    BY MixedIsSlot DEF RowSlots, Elements, nr
  <2>4. \A x, j : to2(x, j) = to(x, j)
    BY <2>2, MixedIsSlot
  <2> HIDE DEF Slot, Slot2, to, to2, links
  <2>5. UNION {Slot2(j) : j \in DOMAIN perms} = UNION {Slot(j) : j \in DOMAIN perms}
    BY <2>3
  <2> DEFINE All == UNION {Slot(j) : j \in DOMAIN perms}
             All2 == UNION {Slot2(j) : j \in DOMAIN perms}
             Of(u) == CHOOSE j \in DOMAIN perms : u \in Slot(j)
             Of2(u) == CHOOSE j \in DOMAIN perms : u \in Slot2(j)
  <2>6. \A u : Of2(u) = Of(u)
    BY <2>3, Zenon
  <2>7. links = [u \in All2 |-> to2(u \div args.stride, Of2(u))]
    BY <2>1
  <2>8. All2 = All
    BY <2>5
  <2>9. links = [u \in All |-> to(u \div args.stride, Of(u))]
    <3> HIDE DEF All, All2, Of, Of2
    <3> QED
      BY <2>4, <2>6, <2>7, <2>8
  <2> QED
    BY <2>9
<1>4. /\ \A j \in 0..(iters - 1) : row + j \in Rows(args) /\ row + j \in Nat
      /\ \A m \in Steps(args, iters) :
           /\ m \div nr \in 0..(iters - 1)
           /\ LapElem(args, perms, m) \in Elements(args) /\ LapRow(args, row, m) \in Rows(args)
  BY LapParts
<1>5. {at(m) : m \in Steps(args, iters)} = LapSlots(args, mixer, row, iters)
  BY LapIsOnce
<1> HIDE DEF links
<1>6. DOMAIN links = {at(m) : m \in Steps(args, iters)}
  <2>1. DOMAIN links = UNION {Slot(j) : j \in DOMAIN perms}
    <3> HIDE DEF Slot, to
    <3> QED
      BY <1>3
  <2>2. UNION {Slot(j) : j \in DOMAIN perms} = LapSlots(args, mixer, row, iters)
    BY <1>1, Zenon DEF LapSlots
  <2> QED
    BY <1>5, <2>1, <2>2, Zenon
<1>7. ASSUME NEW m \in Steps(args, iters)
      PROVE  links[at(m)] = at(NextStep(args, iters, m))
  <2> DEFINE x == LapElem(args, perms, m)  j == m \div nr
  <2>1. at(m) = sl(x, row + j)
    BY DEF LapAt, LapRow
  <2>2. x \in Elements(args) /\ j \in 0..(iters - 1) /\ row + j \in Rows(args)
    BY <1>4
  <2>3. at(m) \div args.stride = x
    BY <2>1, <2>2, Slots
  <2>4. (CHOOSE l \in DOMAIN perms : at(m) \in Slot(l)) = j
    <3>1. at(m) \in Slot(j)
      BY <2>1, <2>2 DEF RowSlots
    <3>2. ASSUME NEW l \in DOMAIN perms, at(m) \in Slot(l) PROVE l = j
      <4>1. PICK y \in Elements(args) : at(m) = sl(y, row + l)
        BY <3>2 DEF RowSlots
      <4>2. row + l \in Rows(args)
        BY <1>1, <1>4
      <4>3. row + l = row + j
        BY <2>1, <2>2, <4>1, <4>2, SlotTells
      <4>4. l \in Nat /\ j \in Nat
        BY <1>1, <2>2
      <4> QED
        BY <1>1, <4>3, <4>4
    <3> HIDE DEF Slot, at, j
    <3> QED
      BY <1>1, <2>2, <3>1, <3>2
  <2>5. at(m) \in DOMAIN links
    BY <1>6
  <2>6. links[at(m)] = to(x, j)
    <3> HIDE DEF to, x, j, at, Slot
    <3> QED
      BY <1>3, <2>3, <2>4, <2>5
  <2>7. LET k == NextStep(args, iters, m)
        IN /\ nx(x, j) = 0 =>
                LapElem(args, perms, k) = 0 /\ LapRow(args, row, k) = row + ((j + 1) % iters)
           /\ nx(x, j) # 0 => LapElem(args, perms, k) = nx(x, j) /\ LapRow(args, row, k) = row + j
    BY LapNext
  <2>8. to(x, j) = at(NextStep(args, iters, m))
    <3> HIDE DEF nx, x, j
    <3> QED
      BY <2>7 DEF LapAt
  <2> QED
    BY <2>6, <2>8
<1> QED
  BY <1>6, <1>7 DEF LapLinks, links

\* A chase that is not long is one of a single permutation.
LEMMA ShortChase ==
  ASSUME Mixable(args, mixer), NEW row \in Rows(args), NEW perm \in Chase!Grouped(args)
  PROVE  LET perms == [j \in 0..0 |-> perm]
         IN /\ IsPlan(args, row, 1, perms)
            /\ LapLinks(args, mixer, row, 1, perms, Chase!Linked(row, perm))
<1> DEFINE nr == Chase!NrElts(args)
           perms == [j \in 0..0 |-> perm]
           sl(x, r) == SlotOf(args, mixer, x, r)
           nx(x) == perm[Chase!NextIndex(Chase!AntiFunction(perm)[x], nr)]
           at(m) == LapAt(args, mixer, row, perms, m)
           links == Chase!Linked(row, perm)
<1>1. IsPlan(args, row, 1, perms)
  <2>1. Chase!Indices(args) \in Nat /\ 1 - 1 = 0 /\ 1 \in Chase!Positive
    BY Room DEF Mixable, Chase!Positive
  <2>2. row \in Nat /\ row + 1 <= Chase!Indices(args)
    BY <2>1 DEF Rows
  <2> QED
    BY <2>1, <2>2 DEF IsPlan
<1>2. links = [u \in {sl(x, row) : x \in Elements(args)} |-> sl(nx(u \div args.stride), row)]
  BY MixedIsSlot DEF Chase!Linked, Elements
<1> HIDE DEF links
<1>3. /\ row + 0 \in Rows(args) /\ row \in Nat /\ nr \in Chase!Positive
      /\ \A m \in Steps(args, 1) : m \div nr = 0 /\ LapElem(args, perms, m) \in Elements(args)
  <2>1. 0..(1 - 1) = {0}
    OBVIOUS
  <2> HIDE DEF perms
  <2> QED
    BY <1>1, <2>1, LapParts DEF IsPlan
<1>4. row + 0 = row
  BY <1>3
<1>5. {at(m) : m \in Steps(args, 1)} = {sl(x, row) : x \in Elements(args)}
  <2> HIDE DEF perms
  <2>1. {at(m) : m \in Steps(args, 1)} = LapSlots(args, mixer, row, 1)
    BY <1>1, LapIsOnce
  <2>2. LapSlots(args, mixer, row, 1) = RowSlots(args, mixer, row)
    <3>1. 0..(1 - 1) = {0}
      OBVIOUS
    <3>2. \A S : UNION {S} = S
      OBVIOUS
    <3>3. UNION {RowSlots(args, mixer, row + j) : j \in {0}} = UNION {RowSlots(args, mixer, row)}
      BY <1>4
    <3> QED
      BY <3>1, <3>2, <3>3 DEF LapSlots
  <2> QED
    BY <2>1, <2>2, Zenon DEF RowSlots
<1>6. ASSUME NEW m \in Steps(args, 1)
      PROVE  links[at(m)] = at(NextStep(args, 1, m))
  <2> DEFINE x == LapElem(args, perms, m)  k == NextStep(args, 1, m)
  <2>1. at(m) = sl(x, row)
    BY <1>3, <1>4 DEF LapAt, LapRow
  <2>2. at(m) \div args.stride = x
    BY <1>3, <2>1, Slots
  <2>3. links[at(m)] = sl(nx(x), row)
    <3>1. at(m) \in DOMAIN links
      BY <1>2, <1>3, <2>1
    <3> HIDE DEF x, at, sl, nx
    <3> QED
      BY <1>2, <2>2, <3>1
  <2>4. LET j == m \div nr
            e == perms[j][Chase!NextIndex(Chase!AntiFunction(perms[j])[x], nr)]
        IN /\ k \in Steps(args, 1)
           /\ e = 0 => LapElem(args, perms, k) = 0
           /\ e # 0 => LapElem(args, perms, k) = e
    <3> HIDE DEF perms
    <3> QED
      BY <1>1, LapNext
  <2>5. k \in Steps(args, 1) /\ LapElem(args, perms, k) = nx(x)
    <3>1. m \div nr = 0 /\ perms[0] = perm
      BY <1>3
    <3> QED
      BY <2>4, <3>1
  <2>6. at(k) = sl(nx(x), row)
    <3>1. LapRow(args, row, k) = row
      BY <1>3, <1>4, <2>5 DEF LapRow
    <3> QED
      BY <2>5, <3>1 DEF LapAt
  <2> QED
    BY <2>3, <2>6
<1> QED
  BY <1>1, <1>2, <1>5, <1>6 DEF LapLinks, links

-----------------------------------------------------------------------------
(* What a chase stores *)

\* The words of the slots S.
Within(a, S) == {w \in Nat : \E at \in S : at <= w /\ w < at + a.base}

\* What is stored for step m of a lap, in the first and, if the request has one, in the
\* second word of its slot.
StepStored(a, mx, row, iters, perms, ar, m) ==
  LET at == LapAt(a, mx, row, perms, m)
      nx == LapAt(a, mx, row, perms, NextStep(a, iters, m))
  IN /\ at \in DOMAIN ar
     /\ ar[at] = IF a.chase = "critword" THEN at + a.offset ELSE nx
     /\ a.chase \in {"critword", "critword2"} =>
          /\ at + a.offset \in DOMAIN ar
          /\ ar[at + a.offset] = IF a.chase = "critword" THEN nx ELSE nx + a.offset

Stored(a, mx, row, iters, perms, ar) ==
  \A m \in Steps(a, iters) : StepStored(a, mx, row, iters, perms, ar, m)

\* The second words of slots are no first words, and each is the second of one slot only.
LEMMA SecondWords ==
  ASSUME NEW a, NEW mx, Mixable(a, mx), a.chase \in {"critword", "critword2"},
         NEW x \in Elements(a), NEW y \in Elements(a), NEW r \in Rows(a), NEW t \in Rows(a)
  PROVE  /\ SlotOf(a, mx, x, r) + a.offset # SlotOf(a, mx, y, t)
         /\ (SlotOf(a, mx, x, r) + a.offset) - a.offset = SlotOf(a, mx, x, r)
<1> DEFINE u == SlotOf(a, mx, x, r)  v == SlotOf(a, mx, y, t)
<1>1. a.base \in Nat /\ a.offset \in 1..(a.base - 1)
  BY DEF Mixable, Chase!IsRequest, Chase!Positive
<1>2. u \in Nat /\ v \in Nat
  BY Slots
<1>3. u = v \/ Apart(u, v, a.base)
  <2>1. CASE x = y /\ r = t
    BY <2>1
  <2>2. CASE x # y \/ r # t
    BY <2>2, Slots
  <2> QED
    BY <2>1, <2>2
<1> HIDE DEF u, v
<1>4. u + a.offset # v /\ (u + a.offset) - a.offset = u
  BY <1>1, <1>2, <1>3 DEF Apart
<1> QED
  BY <1>4 DEF u, v

\* What is stored for a chase, rewritten or not, is what StepStored says.
LEMMA Rewritten ==
  ASSUME Mixable(args, mixer), NEW row, NEW iters, NEW perms,
         IsPlan(args, row, iters, perms), NEW links,
         LapLinks(args, mixer, row, iters, perms, links)
  PROVE  /\ Stored(args, mixer, row, iters, perms, Chase!Critical(links))
         /\ DOMAIN Chase!Critical(links) \subseteq Within(args, LapSlots(args, mixer, row, iters))
<1> DEFINE at(m) == LapAt(args, mixer, row, perms, m)
           nx(m) == at(NextStep(args, iters, m))
           ar == Chase!Critical(links)
           off == args.offset
           Slot == LapSlots(args, mixer, row, iters)
<1>1. DOMAIN links = Slot /\ {at(m) : m \in Steps(args, iters)} = Slot
  <2>1. {at(m) : m \in Steps(args, iters)} = Slot
    BY LapIsOnce
  <2> QED
    BY <2>1 DEF LapLinks
<1>2. \A m \in Steps(args, iters) : links[at(m)] = nx(m) /\ at(m) \in DOMAIN links
  BY DEF LapLinks
<1>3. /\ \A m \in Steps(args, iters) :
           LapElem(args, perms, m) \in Elements(args) /\ LapRow(args, row, m) \in Rows(args)
  BY LapParts
<1>4. \A m \in Steps(args, iters) : at(m) \in Nat
  BY <1>3, Slots DEF LapAt
<1>5. ASSUME args.chase \in {"critword", "critword2"}
      PROVE  \A l, m \in Steps(args, iters) : at(l) + off # at(m) /\ (at(l) + off) - off = at(l)
  BY <1>3, <1>5, SecondWords DEF LapAt
<1>6. /\ args.base \in Nat /\ args.base > 0 /\ off \in Nat
      /\ args.chase \in {"critword", "critword2"} => off < args.base
      /\ args.chase \in {"plain", "critword", "critword2", "branch"}
  BY DEF Mixable, Chase!IsRequest, Chase!Positive
<1> DEFINE second == {u + off : u \in DOMAIN links}
<1>7. /\ args.chase = "critword2" =>
           ar = Chase!Over([u \in second |-> links[u - off] + off], links)
      /\ args.chase = "critword" =>
           ar = Chase!Over([u \in second |-> links[u - off]], [u \in DOMAIN links |-> u + off])
      /\ args.chase \notin {"critword", "critword2"} => ar = links
  BY DEF Chase!Critical
<1>8. \A u \in Slot : \E m \in Steps(args, iters) : u = at(m)
  <2> HIDE DEF at, Slot
  <2> QED
    BY <1>1
<1>9. \A u \in Slot : u \in Nat
  <2> HIDE DEF at, Slot
  <2> QED
    BY <1>4, <1>8
<1> HIDE DEF ar, at, Slot, nx
<1>10. CASE args.chase \notin {"critword", "critword2"}
  <2>1. \A m \in Steps(args, iters) : StepStored(args, mixer, row, iters, perms, ar, m)
    BY <1>2, <1>7, <1>10 DEF StepStored, at, nx
  <2>2. DOMAIN ar \subseteq Within(args, Slot)
    BY <1>1, <1>6, <1>7, <1>9, <1>10 DEF Within
  <2> QED
    BY <2>1, <2>2 DEF Stored, ar, Slot
<1>11. CASE args.chase \in {"critword", "critword2"}
  <2> DEFINE F == IF args.chase = "critword2" THEN [u \in second |-> links[u - off] + off]
                  ELSE [u \in second |-> links[u - off]]
             G == IF args.chase = "critword2" THEN links ELSE [u \in DOMAIN links |-> u + off]
  <2>1. ar = Chase!Over(F, G)
    BY <1>7, <1>11
  <2>2. DOMAIN F = second /\ DOMAIN G = Slot
    BY <1>1
  <2>3. \A m \in Steps(args, iters) :
          /\ at(m) + off \in second
          /\ F[at(m) + off] = IF args.chase = "critword" THEN nx(m) ELSE nx(m) + off
    <3> SUFFICES ASSUME NEW m \in Steps(args, iters)
                 PROVE  /\ at(m) + off \in second
                        /\ F[at(m) + off] = IF args.chase = "critword" THEN nx(m) ELSE nx(m) + off
      OBVIOUS
    <3>1. at(m) + off \in second
      BY <1>2
    <3>2. (at(m) + off) - off = at(m)
      BY <1>5, <1>11
    <3>3. links[(at(m) + off) - off] = nx(m)
      BY <1>2, <3>2
    <3> HIDE DEF second
    <3>4. CASE args.chase = "critword"
      BY <3>1, <3>3, <3>4
    <3>5. CASE args.chase = "critword2"
      BY <3>1, <3>3, <3>5
    <3> QED
      BY <1>11, <3>1, <3>4, <3>5
  <2>4. \A m \in Steps(args, iters) :
          /\ at(m) \in Slot /\ at(m) \notin second
          /\ G[at(m)] = IF args.chase = "critword" THEN at(m) + off ELSE nx(m)
    <3> SUFFICES ASSUME NEW m \in Steps(args, iters)
                 PROVE  /\ at(m) \in Slot /\ at(m) \notin second
                        /\ G[at(m)] = IF args.chase = "critword" THEN at(m) + off ELSE nx(m)
      OBVIOUS
    <3>1. at(m) \in Slot /\ at(m) \in DOMAIN links /\ links[at(m)] = nx(m)
      BY <1>1, <1>2
    <3>2. at(m) \notin second
      BY <1>1, <1>5, <1>8, <1>11
    <3> HIDE DEF second
    <3>3. CASE args.chase = "critword"
      <4>1. G = [u \in DOMAIN links |-> u + off]
        BY <3>3
      <4>2. G[at(m)] = at(m) + off
        <5> HIDE DEF G
        <5> QED
          BY <3>1, <4>1
      <4> QED
        BY <3>1, <3>2, <3>3, <4>2
    <3>4. CASE args.chase = "critword2"
      <4>1. G = links
        BY <3>4
      <4> QED
        BY <3>1, <3>2, <3>4, <4>1
    <3> QED
      BY <1>11, <3>1, <3>2, <3>3, <3>4
  <2> HIDE DEF F, G
  <2>5. DOMAIN ar = second \union Slot
    BY <2>1, <2>2 DEF Chase!Over
  <2>6. \A m \in Steps(args, iters) :
          /\ at(m) + off \in DOMAIN ar /\ at(m) \in DOMAIN ar
          /\ ar[at(m) + off] = F[at(m) + off]
          /\ ar[at(m)] = G[at(m)]
    <3> HIDE DEF second
    <3> QED
      BY <2>1, <2>2, <2>3, <2>4 DEF Chase!Over
  <2>7. \A m \in Steps(args, iters) : StepStored(args, mixer, row, iters, perms, ar, m)
    BY <2>3, <2>4, <2>6 DEF StepStored, at, nx
  <2>8. DOMAIN ar \subseteq Within(args, Slot)
    <3> SUFFICES ASSUME NEW w \in DOMAIN ar PROVE w \in Within(args, Slot)
      OBVIOUS
    <3>1. CASE w \in Slot
      BY <1>6, <1>9, <3>1 DEF Within
    <3>2. CASE w \in second
      <4>1. PICK u \in Slot : w = u + off
        BY <1>1, <3>2
      <4>2. u \in Nat /\ u <= w /\ w < u + args.base /\ w \in Nat
        BY <1>6, <1>9, <1>11, <4>1
      <4> QED
        BY <4>1, <4>2 DEF Within
    <3> QED
      BY <2>5, <3>1, <3>2
  <2> QED
    BY <2>7, <2>8 DEF Stored, ar, Slot
<1> QED
  BY <1>10, <1>11

-----------------------------------------------------------------------------
(* Counting and walking *)

\* A function that takes no value twice has as many values as arguments.
LEMMA ImageCount ==
  ASSUME NEW S, IsFiniteSet(S), NEW f, \A x, y \in S : f[x] = f[y] => x = y
  PROVE  Cardinality({f[x] : x \in S}) = Cardinality(S) /\ IsFiniteSet({f[x] : x \in S})
<1> DEFINE T == {f[x] : x \in S}  g == [x \in S |-> f[x]]
<1>1. g \in Surjection(S, T) /\ g \in Injection(S, T)
  BY DEF Surjection, Injection, IsInjective
<1> HIDE DEF g, T
<1>2. IsFiniteSet(T) /\ Cardinality(T) = Cardinality(S)
  BY <1>1, FS_Surjection
<1> QED
  BY <1>2 DEF T

\* The first numbers are as many as they are.
LEMMA IntervalCount ==
  ASSUME NEW k \in Chase!Positive
  PROVE  /\ Cardinality(0..(k - 1)) = k /\ IsFiniteSet(0..(k - 1))
         /\ Cardinality(1..k) = k /\ IsFiniteSet(1..k)
<1>1. /\ k \in Nat /\ 0 \in Int /\ k - 1 \in Int /\ 1 \in Int /\ k \in Int
      /\ ~(0 > k - 1) /\ ~(1 > k) /\ (k - 1) - 0 + 1 = k /\ k - 1 + 1 = k
  BY DEF Chase!Positive
<1>2. /\ IsFiniteSet(0..(k - 1))
      /\ Cardinality(0..(k - 1)) = IF 0 > k - 1 THEN 0 ELSE (k - 1) - 0 + 1
  BY <1>1, FS_Interval
<1>3. /\ IsFiniteSet(1..k) /\ Cardinality(1..k) = IF 1 > k THEN 0 ELSE k - 1 + 1
  BY <1>1, FS_Interval
<1> QED
  BY <1>1, <1>2, <1>3

\* A lap visits as many slots as it has steps.
LEMMA LapCount ==
  ASSUME NEW a, NEW mx, Mixable(a, mx), NEW row, NEW iters, NEW perms,
         IsPlan(a, row, iters, perms)
  PROVE  /\ \A l, m \in Steps(a, iters) :
              LapAt(a, mx, row, perms, l) = LapAt(a, mx, row, perms, m) => l = m
         /\ Cardinality(LapSlots(a, mx, row, iters)) = LapLength(a, iters)
<1> DEFINE f == [m \in Steps(a, iters) |-> LapAt(a, mx, row, perms, m)]
           S == Steps(a, iters)
<1>1. \A m \in S : LapElem(a, perms, m) \in Elements(a) /\ LapRow(a, row, m) \in Rows(a)
  BY LapParts
<1>2. /\ \A l, m \in S : l # m => \/ LapElem(a, perms, l) # LapElem(a, perms, m)
                                   \/ LapRow(a, row, l) # LapRow(a, row, m)
      /\ {LapAt(a, mx, row, perms, m) : m \in S} = LapSlots(a, mx, row, iters)
  BY LapIsOnce
<1> HIDE DEF S
<1>3. \A l, m \in S : LapAt(a, mx, row, perms, l) = LapAt(a, mx, row, perms, m) => l = m
  <2> SUFFICES ASSUME NEW l \in S, NEW m \in S,
                      LapAt(a, mx, row, perms, l) = LapAt(a, mx, row, perms, m)
               PROVE  l = m
    OBVIOUS
  <2>1. SlotOf(a, mx, LapElem(a, perms, l), LapRow(a, row, l))
          = SlotOf(a, mx, LapElem(a, perms, m), LapRow(a, row, m))
    BY DEF LapAt
  <2>2. LapElem(a, perms, l) = LapElem(a, perms, m) /\ LapRow(a, row, l) = LapRow(a, row, m)
    BY <1>1, <2>1, SlotTells
  <2> QED
    BY <1>2, <2>2
<1>4. LapLength(a, iters) \in Chase!Positive
  BY LapParts
<1>5. IsFiniteSet(S) /\ Cardinality(S) = LapLength(a, iters)
  BY <1>4, IntervalCount DEF S, Steps
<1>6. /\ \A l \in S : f[l] = LapAt(a, mx, row, perms, l)
      /\ {f[m] : m \in S} = {LapAt(a, mx, row, perms, m) : m \in S}
  BY DEF S
<1> HIDE DEF f
<1>7. Cardinality({f[m] : m \in S}) = LapLength(a, iters)
  BY <1>3, <1>5, <1>6, ImageCount
<1> QED
  BY <1>2, <1>3, <1>6, <1>7 DEF S

\* A walk of len words is known when its recursion is.
WalkRec(links, p, len, w) == w = [k \in 0..len |-> IF k = 0 THEN p ELSE links[w[k - 1]]]

\* There is one such walk.
LEMMA WalkIs ==
  ASSUME NEW len \in Nat, NEW links, NEW p, NEW w, WalkRec(links, p, len, w)
  PROVE  Chase!Walk(links, p, len) = w
<1> DEFINE v == CHOOSE v : WalkRec(links, p, len, v)
<1>1. WalkRec(links, p, len, v)
  OBVIOUS
<1>2. Chase!Walk(links, p, len) = v
  BY Zenon DEF Chase!Walk, WalkRec
<1> HIDE DEF v
<1>3. \A k \in 0..len : /\ v[k] = IF k = 0 THEN p ELSE links[v[k - 1]]
                      /\ w[k] = IF k = 0 THEN p ELSE links[w[k - 1]]
  BY <1>1 DEF WalkRec
<1> DEFINE Bad == {k \in 0..len : v[k] # w[k]}
<1>4. Bad = {}
  <2> SUFFICES ASSUME Bad # {} PROVE FALSE
    OBVIOUS
  <2>1. PICK m \in Bad : \A l \in Bad : m <= l
    <3>1. Bad \in SUBSET Nat
      OBVIOUS
    <3> HIDE DEF Bad
    <3> QED
      BY <3>1, Least
  <2>2. m # 0
    BY <1>3, <2>1
  <2>3. m - 1 \in 0..len /\ m - 1 \notin Bad
    BY <2>1, <2>2
  <2> QED
    BY <1>3, <2>1, <2>2, <2>3
<1>5. v = [k \in 0..len |-> v[k]] /\ w = [k \in 0..len |-> w[k]]
  BY <1>1 DEF WalkRec
<1>6. \A k \in 0..len : v[k] = w[k]
  BY <1>4
<1> HIDE DEF Bad
<1> QED
  BY <1>2, <1>5, <1>6

\* The words of a lap in links that have not been rewritten.
LEMMA PlainWalk ==
  ASSUME NEW a, NEW mx, Mixable(a, mx), NEW row, NEW iters, NEW perms,
         IsPlan(a, row, iters, perms), NEW ar,
         \A m \in Steps(a, iters) :
           ar[LapAt(a, mx, row, perms, m)] = LapAt(a, mx, row, perms, NextStep(a, iters, m))
  PROVE  Chase!Walk(ar, SlotOf(a, mx, 0, row), LapLength(a, iters))
           = [k \in 0..LapLength(a, iters) |->
                LapAt(a, mx, row, perms, IF k = LapLength(a, iters) THEN 0 ELSE k)]
<1> DEFINE len == LapLength(a, iters)
           at(m) == LapAt(a, mx, row, perms, m)
           w == [k \in 0..len |-> at(IF k = len THEN 0 ELSE k)]
<1>1. len \in Nat /\ len > 0
  BY LapParts DEF Chase!Positive
<1>2. at(0) = SlotOf(a, mx, 0, row)
  BY LapIsOnce
<1>3. Steps(a, iters) = 0..(len - 1)
  BY DEF Steps
<1>4. \A m \in 0..(len - 1) : ar[at(m)] = at(IF m + 1 = len THEN 0 ELSE m + 1)
  BY <1>3 DEF NextStep
<1> HIDE DEF len, at
<1>5. \A k \in 0..len : w[k] = IF k = 0 THEN SlotOf(a, mx, 0, row) ELSE ar[w[k - 1]]
  <2> SUFFICES ASSUME NEW k \in 0..len
               PROVE  w[k] = IF k = 0 THEN SlotOf(a, mx, 0, row) ELSE ar[w[k - 1]]
    OBVIOUS
  <2>1. CASE k = 0
    BY <1>1, <1>2, <2>1
  <2>2. CASE k # 0
    <3>1. k - 1 \in 0..(len - 1) /\ k - 1 \in 0..len /\ k - 1 # len /\ (k - 1) + 1 = k
      BY <1>1, <2>2
    <3>2. w[k - 1] = at(k - 1)
      BY <3>1
    <3>3. ar[at(k - 1)] = at(IF k = len THEN 0 ELSE k)
      BY <1>4, <3>1
    <3> QED
      BY <2>2, <3>2, <3>3
  <2> QED
    BY <2>1, <2>2
<1>6. w = [k \in 0..len |-> w[k]]
  OBVIOUS
<1> HIDE DEF w
<1>7. WalkRec(ar, SlotOf(a, mx, 0, row), len, w)
  BY <1>5, <1>6 DEF WalkRec
<1>8. Chase!Walk(ar, SlotOf(a, mx, 0, row), len) = w
  BY <1>1, <1>7, WalkIs
<1> QED
  BY <1>8 DEF w, len, at

\* The elements of a chase at which branches return.
LEMMA ReturnsOf ==
  ASSUME NEW a, NEW mx, Mixable(a, mx), NEW row, NEW iters, NEW perms,
         IsPlan(a, row, iters, perms), NEW links,
         LapLinks(a, mx, row, iters, perms, links)
  PROVE  /\ Chase!Cardinality(DOMAIN links) = LapLength(a, iters)
         /\ Chase!Returns(links, SlotOf(a, mx, 0, row))
              = {LapAt(a, mx, row, perms, k - 1) : k \in Chase!Ends(LapLength(a, iters))}
<1> DEFINE len == LapLength(a, iters)
           at(m) == LapAt(a, mx, row, perms, m)
           p == SlotOf(a, mx, 0, row)
<1>1. Chase!Cardinality(DOMAIN links) = len
  <2>1. DOMAIN links = LapSlots(a, mx, row, iters)
    <3>1. {at(m) : m \in Steps(a, iters)} = LapSlots(a, mx, row, iters)
      BY LapIsOnce
    <3> QED
      BY <3>1 DEF LapLinks
  <2>2. Cardinality(LapSlots(a, mx, row, iters)) = len
    BY LapCount
  <2> QED
    BY <2>1, <2>2, SameCardinality
<1>2. Chase!Walk(links, p, len) = [k \in 0..len |-> at(IF k = len THEN 0 ELSE k)]
  BY PlainWalk DEF LapLinks
<1>3. len \in Nat
  BY LapParts DEF Chase!Positive
<1>4. Chase!Ends(len) \subseteq 1..len
  BY DEF Chase!Ends
<1>5. Chase!Returns(links, p) = {Chase!Walk(links, p, len)[k - 1] : k \in Chase!Ends(len)}
  BY <1>1 DEF Chase!Returns
<1> HIDE DEF len, at, p
<1>6. \A k \in Chase!Ends(len) : Chase!Walk(links, p, len)[k - 1] = at(k - 1)
  <2> SUFFICES ASSUME NEW k \in Chase!Ends(len) PROVE Chase!Walk(links, p, len)[k - 1] = at(k - 1)
    OBVIOUS
  <2>1. k - 1 \in 0..len /\ k - 1 # len
    BY <1>3, <1>4
  <2> QED
    BY <1>2, <2>1
<1> QED
  BY <1>1, <1>5, <1>6 DEF len, at, p

-----------------------------------------------------------------------------
(* The mixer *)

PowRec(len, pow) == pow = [k \in 0..len |-> IF k = 0 THEN 1 ELSE 2 * pow[k - 1]]

\* There are such powers.
LEMMA PowExists == ASSUME NEW len \in Nat PROVE \E pow : PowRec(len, pow)
<1> DEFINE Bad == {m \in Nat : ~\E pow : PowRec(m, pow)}
<1>1. SUFFICES ASSUME Bad # {} PROVE FALSE
  OBVIOUS
<1>2. PICK m \in Bad : \A l \in Bad : m <= l
  <2>1. Bad \in SUBSET Nat
    OBVIOUS
  <2> HIDE DEF Bad
  <2> QED
    BY <1>1, <2>1, Least
<1>3. CASE m = 0
  <2>1. PowRec(0, [k \in 0..0 |-> 1])
    BY DEF PowRec
  <2> QED
    BY <1>3, <2>1
<1>4. CASE m # 0
  <2>1. m - 1 \in Nat /\ m - 1 \notin Bad
    BY <1>2, <1>4
  <2>2. PICK pow : PowRec(m - 1, pow)
    BY <2>1
  <2> DEFINE t == [k \in 0..m |-> IF k = m THEN 2 * pow[m - 1] ELSE pow[k]]
  <2>3. \A k \in 0..m : t[k] = IF k = 0 THEN 1 ELSE 2 * t[k - 1]
    BY <1>4, <2>1, <2>2 DEF PowRec
  <2>4. t = [k \in 0..m |-> t[k]]
    OBVIOUS
  <2> HIDE DEF t
  <2>5. PowRec(m, t)
    BY <2>3, <2>4 DEF PowRec
  <2> QED
    BY <2>5
<1> QED
  BY <1>3, <1>4

\* They double, and outgrow their number.
LEMMA PowersAre ==
  ASSUME NEW len \in Nat
  PROVE  \E pow : /\ \A k \in 0..len : pow[k] \in Chase!Positive /\ pow[k] >= k + 1
                  /\ pow[0] = 1 /\ \A k \in 1..len : pow[k] = 2 * pow[k - 1]
                  /\ Chase!Powers(len) = {pow[k] : k \in 0..len}
<1> DEFINE pow == CHOOSE pow : PowRec(len, pow)
<1>1. PowRec(len, pow)
  BY PowExists
<1>2. Chase!Powers(len) = {pow[k] : k \in 0..len}
  BY Zenon DEF Chase!Powers, PowRec
<1> HIDE DEF pow
<1>3. pow[0] = 1 /\ \A k \in 1..len : pow[k] = 2 * pow[k - 1] /\ k - 1 \in 0..len
  BY <1>1 DEF PowRec
<1> DEFINE Bad == {k \in 0..len : ~(pow[k] \in Chase!Positive /\ pow[k] >= k + 1)}
<1>4. Bad = {}
  <2> SUFFICES ASSUME Bad # {} PROVE FALSE
    OBVIOUS
  <2>1. PICK m \in Bad : \A l \in Bad : m <= l
    <3>1. Bad \in SUBSET Nat
      OBVIOUS
    <3> HIDE DEF Bad
    <3> QED
      BY <3>1, Least
  <2>2. m # 0
    BY <1>3, <2>1 DEF Chase!Positive
  <2>3. m - 1 \in 0..len /\ m - 1 \notin Bad /\ m \in 1..len
    BY <2>1, <2>2
  <2>4. pow[m - 1] \in Nat /\ pow[m - 1] >= (m - 1) + 1 /\ pow[m] = 2 * pow[m - 1]
    BY <1>3, <2>3 DEF Chase!Positive
  <2> QED
    BY <2>1, <2>3, <2>4 DEF Chase!Positive
<1> QED
  BY <1>2, <1>3, <1>4

\* The number of mixers is a positive number.
LEMMA MixerCount ==
  ASSUME NEW k \in Chase!Positive, NEW raw \in Chase!CeilPow2(k)
  PROVE  raw \in Chase!Positive
<1>1. CASE k = 1
  BY <1>1 DEF Chase!CeilPow2, Chase!Positive
<1>2. CASE k # 1
  <2>1. k \in Nat /\ k > 1
    BY <1>2 DEF Chase!Positive
  <2>2. PICK pow : /\ \A l \in 0..k : pow[l] \in Chase!Positive /\ pow[l] >= l + 1
                   /\ pow[0] = 1 /\ \A l \in 1..k : pow[l] = 2 * pow[l - 1]
                   /\ Chase!Powers(k) = {pow[l] : l \in 0..k}
    BY <2>1, PowersAre
  <2> DEFINE T == {l \in 0..k : k <= pow[l]}
  <2>3. T \in SUBSET Nat /\ k \in T
    BY <2>1, <2>2 DEF Chase!Positive
  <2>4. PICK l \in T : \A j \in T : l <= j
    <3> HIDE DEF T
    <3> QED
      BY <2>3, Least
  <2>5. l # 0
    BY <2>1, <2>2, <2>4
  <2>6. l - 1 \in 0..k /\ l - 1 \notin T /\ l \in 1..k
    BY <2>1, <2>4, <2>5
  <2>7. pow[l] = 2 * pow[l - 1] /\ pow[l - 1] \in Nat /\ ~(k <= pow[l - 1]) /\ k <= pow[l]
    BY <2>2, <2>4, <2>6 DEF Chase!Positive
  <2>8. \E p \in Chase!Powers(k) : k <= p /\ p < 2 * k
    BY <2>1, <2>2, <2>6, <2>7
  <2>9. raw \in Chase!Powers(k)
    BY <1>2, <2>8 DEF Chase!CeilPow2
  <2> QED
    BY <2>2, <2>9
<1> QED
  BY <1>1, <1>2

\* The table of a permutation for each mixer.
LEMMA MixerOf ==
  ASSUME NEW k \in Chase!Positive, NEW nr \in Chase!Positive, NEW o,
         NEW t \in [0..(nr - 1) -> Chase!GenPermutation(k, 0, o)],
         NEW mx, mx = [j \in 0..(k - 1) |-> [c \in 0..(nr - 1) |-> t[c][j]]]
  PROVE  IsMixer(mx, k)
<1>1. \A c \in 0..(nr - 1) : IsPerm(t[c], k)
  BY PermutationsArePerms
<1>2. \A c \in 0..(nr - 1) : /\ \A x \in 0..(k - 1) : t[c][x] \in 0..(k - 1)
                             /\ \A x, y \in 0..(k - 1) : t[c][x] = t[c][y] => x = y
  BY <1>1 DEF IsPerm
<1>3. mx \in [0..(k - 1) -> [0..(nr - 1) -> 0..(k - 1)]]
  BY <1>2
<1>4. \A c \in 0..(nr - 1), r, s \in 0..(k - 1) : mx[r][c] = mx[s][c] => r = s
  BY <1>2
<1> QED
  BY <1>3, <1>4 DEF IsMixer

-----------------------------------------------------------------------------
(* The inductive invariant of the chases *)

\* The permutations of a chase.
ChaseIters(a) == IF a.long THEN Chase!NrIterations(a) ELSE 1
FirstRow(a, c) == Chase!Row(c, ChaseIters(a))

\* Chase c, which begins at f and has the slots o, as the arena ar and the returns st
\* have it.
MadeFrom(a, mx, ar, st, c, perms) ==
  /\ IsPlan(a, FirstRow(a, c), ChaseIters(a), perms)
  /\ Stored(a, mx, FirstRow(a, c), ChaseIters(a), perms, ar)
  /\ a.chase = "branch" => \A m \in Steps(a, ChaseIters(a)) :
       LapAt(a, mx, FirstRow(a, c), perms, m) \in st
         <=> m + 1 \in Chase!Ends(LapLength(a, ChaseIters(a)))
Made(a, mx, ar, st, c, f, o) ==
  /\ f = SlotOf(a, mx, 0, FirstRow(a, c))
  /\ o = LapSlots(a, mx, FirstRow(a, c), ChaseIters(a))
  /\ \E perms : MadeFrom(a, mx, ar, st, c, perms)

ChaseInv ==
  /\ gpc \in {"options", "mixer", "generate", "done", "exit", "overrun"}
  /\ Chase!IsRequest(args)
  /\ gpc \in {"options", "mixer"} => DOMAIN first = {}
  /\ gpc = "mixer" => Sized(args) /\ Chase!Fits(args)
  /\ gpc = "generate" \/ DOMAIN first # {} => Mixable(args, mixer) /\ Chase!Fits(args)
  /\ DOMAIN first \subseteq Chase!Chases /\ DOMAIN own = DOMAIN first
  /\ DOMAIN chunk = IF args.chase = "branch" THEN DOMAIN first ELSE {}
  /\ \A c \in DOMAIN first : Made(args, mixer, arena, stops, c, first[c], own[c])
  /\ \A c \in DOMAIN chunk : chunk[c] = Chase!ChunkSize(LapLength(args, ChaseIters(args)))
  /\ \A w \in DOMAIN arena : \E c \in DOMAIN first : w \in Within(args, own[c])
  /\ \A s \in stops : \E c \in DOMAIN first : s \in own[c]

\* A chase has a permutation at least, and a first row.
LEMMA PlanOf ==
  ASSUME NEW a, NEW mx, Mixable(a, mx), Chase!Fits(a), NEW c \in 0..(Chase!NrChases(a) - 1)
  PROVE  ChaseIters(a) \in Chase!Positive /\ FirstRow(a, c) \in Nat
<1>1. a.threads \in Chase!Positive /\ a.par \in Chase!Positive
  BY DEF Mixable, Chase!IsRequest
<1>2. Chase!NrChases(a) \in Chase!Positive /\ a.par <= Chase!NrChases(a)
  BY <1>1, ProductType DEF Chase!NrChases
<1>3. Chase!Indices(a) \in Nat /\ Chase!Indices(a) >= Chase!NrChases(a)
  BY Room DEF Mixable, Chase!Fits, Chase!Positive
<1>4. \A u \in Nat, v \in Chase!Positive : v <= u => u \div v \in Chase!Positive
  <2> SUFFICES ASSUME NEW u \in Nat, NEW v \in Chase!Positive, v <= u
               PROVE  u \div v \in Chase!Positive
    OBVIOUS
  <2>1. /\ u \div v \in Nat /\ (u % v) \in 0..(v - 1) /\ u = v * (u \div v) + (u % v)
    BY DivMod
  <2>2. u \div v # 0
    BY <2>1 DEF Chase!Positive
  <2> QED
    BY <2>1, <2>2 DEF Chase!Positive
<1>5. Chase!NrIterations(a) \in Chase!Positive
  <2>1. a.par <= Chase!Indices(a) /\ Chase!NrChases(a) <= Chase!Indices(a)
    BY <1>1, <1>2, <1>3 DEF Chase!Positive
  <2> QED
    BY <1>1, <1>2, <1>3, <1>4, <2>1 DEF Chase!NrIterations
<1>6. ChaseIters(a) \in Chase!Positive
  BY <1>5 DEF ChaseIters, Chase!Positive
<1>7. c \in Nat
  BY <1>2 DEF Chase!Positive
<1>8. \A u, v \in Nat : u * v \in Nat
  OBVIOUS
<1>9. FirstRow(a, c) \in Nat
  BY <1>6, <1>7, <1>8 DEF FirstRow, Chase!Row, Chase!Positive
<1> QED
  BY <1>6, <1>9

\* Two chases have no row in common.
LEMMA RowsApart ==
  ASSUME NEW a, ChaseIters(a) \in Chase!Positive, NEW c \in Nat, NEW d \in Nat,
         NEW j \in 0..(ChaseIters(a) - 1), NEW l \in 0..(ChaseIters(a) - 1),
         FirstRow(a, c) + j = FirstRow(a, d) + l
  PROVE  c = d
<1>1. c * ChaseIters(a) + j = d * ChaseIters(a) + l
  BY DEF FirstRow, Chase!Row
<1>2. (c * ChaseIters(a) + j) \div ChaseIters(a) = c
  BY DivOf
<1>3. (d * ChaseIters(a) + l) \div ChaseIters(a) = d
  BY DivOf
<1> QED
  BY <1>1, <1>2, <1>3

\* Nor have they a word in common.
LEMMA ChasesApart ==
  ASSUME NEW a, NEW mx, Mixable(a, mx), NEW c \in Nat, NEW d \in Nat, c # d,
         ChaseIters(a) \in Chase!Positive, FirstRow(a, c) \in Nat, FirstRow(a, d) \in Nat,
         FirstRow(a, c) + ChaseIters(a) <= Chase!Indices(a),
         FirstRow(a, d) + ChaseIters(a) <= Chase!Indices(a),
         NEW u \in LapSlots(a, mx, FirstRow(a, c), ChaseIters(a)),
         NEW v \in LapSlots(a, mx, FirstRow(a, d), ChaseIters(a))
  PROVE  u \in Nat /\ v \in Nat /\ Apart(u, v, a.base)
<1> DEFINE it == ChaseIters(a)  rc == FirstRow(a, c)  rd == FirstRow(a, d)
<1>1. PICK x \in Elements(a), j \in 0..(it - 1) : u = SlotOf(a, mx, x, rc + j)
  BY DEF LapSlots, RowSlots
<1>2. PICK y \in Elements(a), l \in 0..(it - 1) : v = SlotOf(a, mx, y, rd + l)
  BY DEF LapSlots, RowSlots
<1>3. rc + j # rd + l
  BY RowsApart
<1>4. Chase!Indices(a) \in Nat /\ it \in Nat
  BY Room DEF Mixable, Chase!Positive
<1> HIDE DEF it, rc, rd
<1>5. rc \in Nat /\ rd \in Nat /\ rc + it <= Chase!Indices(a) /\ rd + it <= Chase!Indices(a)
  BY DEF rc, rd, it
<1>6. rc + j \in Rows(a) /\ rd + l \in Rows(a)
  BY <1>4, <1>5 DEF Rows
<1> QED
  BY <1>1, <1>2, <1>3, <1>6, Slots

\* What a thread does to generate a chase.
Generated(c, perms, links) ==
  /\ IsPlan(args, FirstRow(args, c), ChaseIters(args), perms)
  /\ LapLinks(args, mixer, FirstRow(args, c), ChaseIters(args), perms, links)
  /\ arena' = Chase!Over(Chase!Critical(links), arena)
  /\ own' = Chase!With(own, c, DOMAIN links)
  /\ first' = Chase!With(first, c, SlotOf(args, mixer, 0, FirstRow(args, c)))
  /\ stops' = IF args.chase = "branch"
              THEN stops \union Chase!Returns(links, SlotOf(args, mixer, 0, FirstRow(args, c)))
              ELSE stops
  /\ chunk' = IF args.chase = "branch"
              THEN Chase!With(chunk, c, Chase!ChunkSize(Chase!Cardinality(DOMAIN links)))
              ELSE chunk
  /\ gpc' = "aborted" => DOMAIN links \cap DOMAIN arena # {}
  /\ gpc' \in {"aborted", "exit", "done", "generate"}

\* A thread either runs out of the rows or generates a chase.
LEMMA GenerateStep ==
  ASSUME ChaseInv, NEW c \in Chase!Chases, Chase!Generate(c)
  PROVE  /\ gpc = "generate" /\ c \notin DOMAIN first /\ args' = args /\ mixer' = mixer
         /\ \/ gpc' = "overrun" /\ UNCHANGED <<arena, own, first, stops, chunk>>
            \/ \E perms, links : Generated(c, perms, links)
<1> DEFINE iters == ChaseIters(args)
           row == FirstRow(args, c)
           branch == args.chase = "branch"
           Done(links) ==
           /\ arena' = Chase!Over(Chase!Critical(links), arena)
           /\ own' = Chase!With(own, c, DOMAIN links)
           /\ first' = Chase!With(first, c, Chase!Mixed(0, row))
           /\ stops' = IF branch THEN stops \union Chase!Returns(links, Chase!Mixed(0, row)) ELSE stops
           /\ chunk' = IF branch THEN Chase!With(chunk, c, Chase!ChunkSize(Chase!Cardinality(DOMAIN links)))
                       ELSE chunk
           /\ gpc' = IF args.long /\ DOMAIN links \cap DOMAIN arena # {} THEN "aborted"
                    ELSE IF branch /\ {at + 1 : at \in DOMAIN links} \cap
                                        (DOMAIN links \union DOMAIN arena) # {} THEN "exit"
                    ELSE IF Chase!Cardinality(DOMAIN first) + 1 = Chase!NrChases(args) THEN "done"
                    ELSE gpc
<1>1. gpc = "generate" /\ c \notin DOMAIN first /\ args' = args /\ mixer' = mixer
  BY DEF Chase!Generate
<1>2. IF row + iters > Chase!Indices(args)
      THEN gpc' = "overrun" /\ UNCHANGED <<arena, own, first, stops, chunk>>
      ELSE IF args.long
           THEN \E perms \in [0..(iters - 1) -> Chase!Grouped(args)] :
                  Done(Chase!LinkedLong(row, perms))
           ELSE \E perm \in Chase!Grouped(args) : Done(Chase!Linked(row, perm))
  BY Zenon DEF Chase!Generate, FirstRow, ChaseIters
<1>3. Mixable(args, mixer) /\ Chase!Fits(args) /\ c \in 0..(Chase!NrChases(args) - 1)
  BY <1>1 DEF ChaseInv, Chase!Chases
<1>4. iters \in Chase!Positive /\ row \in Nat
  BY <1>3, PlanOf
<1>5. Chase!Mixed(0, row) = SlotOf(args, mixer, 0, row)
  BY MixedIsSlot
<1>6. ASSUME NEW perms, NEW links, IsPlan(args, row, iters, perms),
             LapLinks(args, mixer, row, iters, perms, links), Done(links)
      PROVE  Generated(c, perms, links)
  <2>1. gpc' = "aborted" => DOMAIN links \cap DOMAIN arena # {}
    BY <1>1, <1>6
  <2>2. gpc' \in {"aborted", "exit", "done", "generate"}
    BY <1>1, <1>6
  <2> QED
    BY <1>5, <1>6, <2>1, <2>2 DEF Generated
<1>7. CASE row + iters > Chase!Indices(args)
  BY <1>1, <1>2, <1>7
<1>8. CASE ~(row + iters > Chase!Indices(args))
  <2>1. Chase!Indices(args) \in Nat
    BY <1>3, Room DEF Mixable, Chase!Positive
  <2>2. row + iters <= Chase!Indices(args)
    BY <1>4, <1>8, <2>1 DEF Chase!Positive
  <2>3. CASE args.long
    <3> HIDE DEF Done, iters, row
    <3>1. PICK perms \in [0..(iters - 1) -> Chase!Grouped(args)] :
            Done(Chase!LinkedLong(row, perms))
      BY <1>2, <1>8, <2>3
    <3>2. IsPlan(args, row, iters, perms)
      BY <1>4, <2>2 DEF IsPlan
    <3>3. LapLinks(args, mixer, row, iters, perms, Chase!LinkedLong(row, perms))
      BY <1>3, <3>2, LongChase
    <3>4. Generated(c, perms, Chase!LinkedLong(row, perms))
      BY <1>6, <3>1, <3>2, <3>3
    <3> QED
      BY <1>1, <3>4
  <2>4. CASE ~args.long
    <3>1. iters = 1
      BY <2>4 DEF ChaseIters
    <3> HIDE DEF Done, iters, row
    <3>2. PICK perm \in Chase!Grouped(args) : Done(Chase!Linked(row, perm))
      BY <1>2, <1>8, <2>4
    <3>3. row \in Rows(args)
      BY <1>4, <2>1, <2>2, <3>1 DEF Rows
    <3> DEFINE perms == [j \in 0..0 |-> perm]
    <3>4. /\ IsPlan(args, row, 1, perms)
          /\ LapLinks(args, mixer, row, 1, perms, Chase!Linked(row, perm))
      BY <1>3, <3>3, ShortChase
    <3> HIDE DEF perms
    <3>5. Generated(c, perms, Chase!Linked(row, perm))
      BY <1>6, <3>1, <3>2, <3>4
    <3> QED
      BY <1>1, <3>5
  <2> QED
    BY <2>3, <2>4
<1> QED
  BY <1>7, <1>8

\* The words of a slot that are written.
Offsets(a) == IF a.chase \in {"critword", "critword2"} THEN {0, a.offset} ELSE {0}

\* What is stored stays, if the words it is stored in do.
LEMMA StoredStays ==
  ASSUME NEW a, NEW mx, NEW row, NEW iters, NEW perms, NEW g, NEW h,
         Stored(a, mx, row, iters, perms, g),
         \A m \in Steps(a, iters) : LapAt(a, mx, row, perms, m) \in Nat,
         \A m \in Steps(a, iters), o \in Offsets(a) :
           LapAt(a, mx, row, perms, m) + o \in DOMAIN g =>
             /\ LapAt(a, mx, row, perms, m) + o \in DOMAIN h
             /\ h[LapAt(a, mx, row, perms, m) + o] = g[LapAt(a, mx, row, perms, m) + o]
  PROVE  Stored(a, mx, row, iters, perms, h)
<1> SUFFICES ASSUME NEW m \in Steps(a, iters)
             PROVE  StepStored(a, mx, row, iters, perms, h, m)
  BY DEF Stored
<1>1. StepStored(a, mx, row, iters, perms, g, m)
  BY DEF Stored
<1> DEFINE u == LapAt(a, mx, row, perms, m)
<1>2. \A o \in Offsets(a) : u + o \in DOMAIN g => u + o \in DOMAIN h /\ h[u + o] = g[u + o]
  OBVIOUS
<1>3. u \in Nat /\ 0 \in Offsets(a)
  BY DEF Offsets
<1>4. u \in DOMAIN g => u \in DOMAIN h /\ h[u] = g[u]
  <2> HIDE DEF u
  <2>1. u + 0 = u
    BY <1>3
  <2> QED
    BY <1>2, <1>3, <2>1
<1>5. a.chase \in {"critword", "critword2"} => a.offset \in Offsets(a)
  BY DEF Offsets
<1> QED
  BY <1>1, <1>2, <1>4, <1>5 DEF StepStored

\* A word of one slot is no word of another.
LEMMA WordsApart ==
  ASSUME NEW u \in Nat, NEW v \in Nat, NEW b \in Nat, Apart(u, v, b), NEW o \in Nat, o < b
  PROVE  ~(v <= u + o /\ u + o < v + b)
  BY DEF Apart

\* A chase generated leaves the ones before it as they were.
LEMMA GeneratedKeeps ==
  ASSUME ChaseInv, NEW c \in Chase!Chases, gpc = "generate", c \notin DOMAIN first,
         args' = args, mixer' = mixer, NEW perms, NEW links, Generated(c, perms, links)
  PROVE  ChaseInv'
<1> DEFINE it == ChaseIters(args)
           row(d) == FirstRow(args, d)
           S(d) == LapSlots(args, mixer, row(d), it)
           crit == Chase!Critical(links)
           branch == args.chase = "branch"
<1>1. Mixable(args, mixer) /\ Chase!Fits(args) /\ c \in 0..(Chase!NrChases(args) - 1)
  BY DEF ChaseInv, Chase!Chases
<1>2. /\ IsPlan(args, row(c), it, perms)
      /\ LapLinks(args, mixer, row(c), it, perms, links)
      /\ arena' = Chase!Over(crit, arena)
      /\ own' = Chase!With(own, c, DOMAIN links)
      /\ first' = Chase!With(first, c, SlotOf(args, mixer, 0, row(c)))
      /\ stops' = IF branch
                  THEN stops \union Chase!Returns(links, SlotOf(args, mixer, 0, row(c)))
                  ELSE stops
      /\ chunk' = IF branch
                  THEN Chase!With(chunk, c, Chase!ChunkSize(Chase!Cardinality(DOMAIN links)))
                  ELSE chunk
      /\ gpc' = "aborted" => DOMAIN links \cap DOMAIN arena # {}
      /\ gpc' \in {"aborted", "exit", "done", "generate"}
  BY DEF Generated
<1>3. DOMAIN links = S(c) /\ {LapAt(args, mixer, row(c), perms, m) : m \in Steps(args, it)} = S(c)
  <2>1. {LapAt(args, mixer, row(c), perms, m) : m \in Steps(args, it)} = S(c)
    BY <1>1, <1>2, LapIsOnce
  <2> QED
    BY <1>2, <2>1 DEF LapLinks
<1>4. Stored(args, mixer, row(c), it, perms, crit) /\ DOMAIN crit \subseteq Within(args, S(c))
  BY <1>1, <1>2, Rewritten
<1>5. \A f, d, e : /\ DOMAIN Chase!With(f, d, e) = DOMAIN f \union {d}
                   /\ Chase!With(f, d, e)[d] = e
                   /\ \A x \in DOMAIN f : x # d => Chase!With(f, d, e)[x] = f[x]
  BY DEF Chase!With, Chase!Over
<1>6. \A f, g : /\ DOMAIN Chase!Over(f, g) = DOMAIN f \union DOMAIN g
                /\ \A x \in DOMAIN f : Chase!Over(f, g)[x] = f[x]
                /\ \A x \in DOMAIN g : x \notin DOMAIN f => Chase!Over(f, g)[x] = g[x]
  BY DEF Chase!Over
<1>7. /\ DOMAIN first \subseteq Chase!Chases /\ DOMAIN own = DOMAIN first
      /\ DOMAIN chunk = IF branch THEN DOMAIN first ELSE {}
      /\ \A d \in DOMAIN first : Made(args, mixer, arena, stops, d, first[d], own[d])
      /\ \A d \in DOMAIN chunk : chunk[d] = Chase!ChunkSize(LapLength(args, it))
      /\ \A w \in DOMAIN arena : \E d \in DOMAIN first : w \in Within(args, own[d])
      /\ \A s \in stops : \E d \in DOMAIN first : s \in own[d]
  BY DEF ChaseInv
<1>8. /\ args.base \in Nat /\ args.base > 0 /\ args.offset \in Nat
      /\ args.chase \in {"critword", "critword2"} => args.offset < args.base
  BY <1>1 DEF Mixable, Chase!IsRequest, Chase!Positive
<1>9. it \in Chase!Positive /\ row(c) \in Nat /\ row(c) + it <= Chase!Indices(args) /\ c \in Nat
  <2>1. c \in Nat
    BY <1>1 DEF Chase!NrChases
  <2> QED
    BY <1>2, <2>1 DEF IsPlan
<1>10. \A d \in DOMAIN first :
         /\ own[d] = S(d) /\ d \in Nat /\ d # c
         /\ row(d) \in Nat /\ row(d) + it <= Chase!Indices(args)
  <2> SUFFICES ASSUME NEW d \in DOMAIN first
               PROVE  /\ own[d] = S(d) /\ d \in Nat /\ d # c
                      /\ row(d) \in Nat /\ row(d) + it <= Chase!Indices(args)
    OBVIOUS
  <2>1. Made(args, mixer, arena, stops, d, first[d], own[d]) /\ d \in Chase!Chases
    BY <1>7
  <2>2. d \in Nat
    BY <2>1 DEF Chase!Chases
  <2> QED
    BY <2>1, <2>2 DEF Made, MadeFrom, IsPlan
<1> HIDE DEF crit, S, row, it
<1>11. \A d \in DOMAIN first : \A u \in S(c), v \in S(d) :
         /\ u \in Nat /\ v \in Nat
         /\ Apart(u, v, args.base) /\ Apart(v, u, args.base)
  <2> SUFFICES ASSUME NEW d \in DOMAIN first, NEW u \in S(c), NEW v \in S(d)
               PROVE  /\ u \in Nat /\ v \in Nat
                      /\ Apart(u, v, args.base) /\ Apart(v, u, args.base)
    OBVIOUS
  <2>1. /\ d \in Nat /\ c \in Nat /\ c # d /\ it \in Chase!Positive
        /\ row(c) \in Nat /\ row(d) \in Nat
        /\ row(c) + it <= Chase!Indices(args) /\ row(d) + it <= Chase!Indices(args)
    BY <1>9, <1>10
  <2>2. u \in Nat /\ v \in Nat /\ Apart(u, v, args.base)
    BY <1>1, <2>1, ChasesApart DEF S, row, it
  <2> QED
    BY <2>2 DEF Apart
\* No word of an earlier chase is written.
<1>12. \A d \in DOMAIN first : \A v \in S(d), o \in Nat : o < args.base => v + o \notin DOMAIN crit
  <2> SUFFICES ASSUME NEW d \in DOMAIN first, NEW v \in S(d), NEW o \in Nat, o < args.base,
                      v + o \in DOMAIN crit
               PROVE  FALSE
    OBVIOUS
  <2>1. PICK u \in S(c) : u <= v + o /\ v + o < u + args.base
    BY <1>4 DEF Within
  <2>2. u \in Nat /\ v \in Nat /\ Apart(v, u, args.base)
    BY <1>11
  <2> QED
    BY <1>8, <2>1, <2>2, WordsApart
<1>13. ASSUME NEW d \in DOMAIN first, NEW ps,
              Stored(args, mixer, row(d), it, ps, arena),
              IsPlan(args, row(d), it, ps)
       PROVE  Stored(args, mixer, row(d), it, ps, arena')
  <2>1. \A m \in Steps(args, it) : LapAt(args, mixer, row(d), ps, m) \in S(d)
    <3>1. {LapAt(args, mixer, row(d), ps, m) : m \in Steps(args, it)} = S(d)
      BY <1>1, <1>13, LapIsOnce DEF S
    <3> QED
      BY <3>1
  <2>2. \E u : u \in S(c)
    BY <1>1, <1>2, LapIsOnce DEF S, row, it
  <2>3. \A m \in Steps(args, it) : LapAt(args, mixer, row(d), ps, m) \in Nat
    BY <1>11, <2>1, <2>2
  <2>4. \A o \in Offsets(args) : o \in Nat /\ o < args.base
    BY <1>8 DEF Offsets
  <2>5. \A m \in Steps(args, it), o \in Offsets(args) :
          LapAt(args, mixer, row(d), ps, m) + o \notin DOMAIN crit
    BY <1>12, <2>1, <2>4
  <2>6. \A m \in Steps(args, it), o \in Offsets(args) :
          LapAt(args, mixer, row(d), ps, m) + o \in DOMAIN arena =>
            /\ LapAt(args, mixer, row(d), ps, m) + o \in DOMAIN arena'
            /\ arena'[LapAt(args, mixer, row(d), ps, m) + o]
                 = arena[LapAt(args, mixer, row(d), ps, m) + o]
    <3>1. arena' = Chase!Over(crit, arena)
      BY <1>2
    <3>2. \A x \in DOMAIN arena : x \notin DOMAIN crit => x \in DOMAIN arena' /\ arena'[x] = arena[x]
      BY <3>1 DEF Chase!Over
    <3> QED
      BY <2>5, <3>2
  <2> QED
    BY <1>13, <2>3, <2>6, StoredStays
\* What the chase stores, and what returns.
<1>14. Stored(args, mixer, row(c), it, perms, arena')
  <2>1. \A m \in Steps(args, it) : LapAt(args, mixer, row(c), perms, m) \in Nat
    <3>1. \A m \in Steps(args, it) :
            LapElem(args, perms, m) \in Elements(args) /\ LapRow(args, row(c), m) \in Rows(args)
      BY <1>1, <1>2, LapParts DEF it, row
    <3> QED
      BY <1>1, <3>1, Slots DEF LapAt
  <2>2. \A m \in Steps(args, it), o \in Offsets(args) :
          LapAt(args, mixer, row(c), perms, m) + o \in DOMAIN crit =>
            /\ LapAt(args, mixer, row(c), perms, m) + o \in DOMAIN arena'
            /\ arena'[LapAt(args, mixer, row(c), perms, m) + o]
                 = crit[LapAt(args, mixer, row(c), perms, m) + o]
    BY <1>2, <1>6
  <2> QED
    BY <1>4, <2>1, <2>2, StoredStays
<1>15. /\ Chase!Cardinality(DOMAIN links) = LapLength(args, it)
       /\ Chase!Returns(links, SlotOf(args, mixer, 0, row(c)))
            = {LapAt(args, mixer, row(c), perms, k - 1) : k \in Chase!Ends(LapLength(args, it))}
  BY <1>1, <1>2, ReturnsOf DEF it, row
<1>16. LapLength(args, it) \in Nat /\ Steps(args, it) = 0..(LapLength(args, it) - 1)
       /\ Chase!Ends(LapLength(args, it)) \subseteq 1..LapLength(args, it)
  <2>1. LapLength(args, it) \in Nat
    BY <1>1, <1>2, LapParts DEF it, row, Chase!Positive
  <2>2. Chase!Ends(LapLength(args, it)) \subseteq 1..LapLength(args, it)
    BY DEF Chase!Ends
  <2> QED
    BY <2>1, <2>2 DEF Steps
<1>17. \A s \in Chase!Returns(links, SlotOf(args, mixer, 0, row(c))) : s \in S(c)
  <2> SUFFICES ASSUME NEW s \in Chase!Returns(links, SlotOf(args, mixer, 0, row(c))) PROVE s \in S(c)
    OBVIOUS
  <2>1. PICK k \in Chase!Ends(LapLength(args, it)) : s = LapAt(args, mixer, row(c), perms, k - 1)
    BY <1>15
  <2>2. k - 1 \in Steps(args, it)
    BY <1>16
  <2> QED
    BY <1>3, <2>1, <2>2
<1>18. \A d \in DOMAIN first : \A s \in S(c) : s \notin S(d)
  <2> SUFFICES ASSUME NEW d \in DOMAIN first, NEW s \in S(c), s \in S(d) PROVE FALSE
    OBVIOUS
  <2>1. s \in Nat /\ Apart(s, s, args.base)
    BY <1>11
  <2> QED
    BY <1>8, <2>1 DEF Apart
<1>19. ASSUME branch, NEW m \in Steps(args, it)
       PROVE  LapAt(args, mixer, row(c), perms, m) \in stops' <=> m + 1 \in Chase!Ends(LapLength(args, it))
  <2> DEFINE at(k) == LapAt(args, mixer, row(c), perms, k)
             E == Chase!Ends(LapLength(args, it))
  <2>1. stops' = stops \union {at(k - 1) : k \in E}
    BY <1>2, <1>15, <1>19
  <2>2. at(m) \in S(c)
    BY <1>3
  <2>3. at(m) \notin stops
    BY <1>7, <1>10, <1>18, <2>2
  <2>4. \A k, l \in Steps(args, it) : at(k) = at(l) => k = l
    BY <1>1, <1>2, LapCount DEF it, row
  <2>5. /\ \A k \in E : k \in Nat /\ k - 1 \in Steps(args, it)
        /\ m \in Nat
    BY <1>16
  <2> HIDE DEF at, E
  <2>6. ASSUME at(m) \in stops' PROVE m + 1 \in E
    <3>1. PICK k \in E : at(m) = at(k - 1)
      BY <2>1, <2>3, <2>6
    <3>2. m = k - 1
      BY <2>4, <2>5, <3>1
    <3>3. k = m + 1
      BY <2>5, <3>2
    <3> QED
      BY <3>3
  <2>7. ASSUME m + 1 \in E PROVE at(m) \in stops'
    <3>1. (m + 1) - 1 = m
      BY <2>5
    <3> QED
      BY <2>1, <2>7, <3>1
  <2> QED
    BY <2>6, <2>7 DEF at, E
<1>20. ASSUME NEW d \in DOMAIN first, NEW s \in S(d) PROVE s \in stops' <=> s \in stops
  <2>1. s \notin S(c)
    BY <1>18
  <2> QED
    BY <1>2, <1>17, <2>1
<1>21. /\ DOMAIN first' = DOMAIN first \union {c} /\ DOMAIN own' = DOMAIN first \union {c}
       /\ first'[c] = SlotOf(args, mixer, 0, row(c)) /\ own'[c] = S(c)
       /\ \A d \in DOMAIN first : first'[d] = first[d] /\ own'[d] = own[d]
  <2>1. own' = Chase!With(own, c, S(c)) /\ DOMAIN own = DOMAIN first
    BY <1>2, <1>3, <1>7
  <2>2. first' = Chase!With(first, c, SlotOf(args, mixer, 0, row(c)))
    BY <1>2
  <2>3. \A d \in DOMAIN first : d # c
    BY <1>10
  <2>4. DOMAIN own' = DOMAIN first \union {c} /\ own'[c] = S(c)
        /\ \A d \in DOMAIN first : own'[d] = own[d]
    BY <2>1, <2>3 DEF Chase!With, Chase!Over
  <2>5. /\ DOMAIN first' = DOMAIN first \union {c} /\ first'[c] = SlotOf(args, mixer, 0, row(c))
        /\ \A d \in DOMAIN first : first'[d] = first[d]
    BY <2>2, <2>3 DEF Chase!With, Chase!Over
  <2> QED
    BY <2>4, <2>5
<1>22. ASSUME NEW d \in DOMAIN first'
       PROVE  Made(args, mixer, arena', stops', d, first'[d], own'[d])
  <2>1. CASE d = c
    <3>1. MadeFrom(args, mixer, arena', stops', c, perms)
      BY <1>2, <1>14, <1>19 DEF MadeFrom, row, it
    <3>2. first'[c] = SlotOf(args, mixer, 0, FirstRow(args, c))
          /\ own'[c] = LapSlots(args, mixer, FirstRow(args, c), ChaseIters(args))
      BY <1>21 DEF row, it, S
    <3> QED
      BY <2>1, <3>1, <3>2 DEF Made
  <2>2. CASE d # c
    <3>1. d \in DOMAIN first
      BY <1>21, <2>2
    <3>2. Made(args, mixer, arena, stops, d, first[d], own[d])
      BY <1>7, <3>1
    <3>3. PICK ps : MadeFrom(args, mixer, arena, stops, d, ps)
      BY <3>2 DEF Made
    <3>4. IsPlan(args, row(d), it, ps) /\ Stored(args, mixer, row(d), it, ps, arena)
      BY <3>3 DEF MadeFrom, row, it
    <3>5. Stored(args, mixer, row(d), it, ps, arena')
      BY <1>13, <3>1, <3>4
    <3>6. \A m \in Steps(args, it) :
            LapAt(args, mixer, row(d), ps, m) \in stops' <=> LapAt(args, mixer, row(d), ps, m) \in stops
      <4>1. {LapAt(args, mixer, row(d), ps, m) : m \in Steps(args, it)} = S(d)
        BY <1>1, <3>4, LapIsOnce DEF S
      <4> QED
        BY <1>20, <3>1, <4>1
    <3>7. branch => \A m \in Steps(args, it) :
            LapAt(args, mixer, row(d), ps, m) \in stops <=> m + 1 \in Chase!Ends(LapLength(args, it))
      BY <3>3 DEF MadeFrom, row, it
    <3>8. branch => \A m \in Steps(args, it) :
            LapAt(args, mixer, row(d), ps, m) \in stops' <=> m + 1 \in Chase!Ends(LapLength(args, it))
      BY <3>6, <3>7
    <3>9. MadeFrom(args, mixer, arena', stops', d, ps)
      BY <3>4, <3>5, <3>8 DEF MadeFrom, row, it
    <3> QED
      BY <1>21, <3>1, <3>2, <3>9 DEF Made
  <2> QED
    BY <2>1, <2>2
<1>23. gpc' # "aborted"
  <2> SUFFICES ASSUME gpc' = "aborted" PROVE FALSE
    OBVIOUS
  <2>1. PICK w \in S(c) : w \in DOMAIN arena
    BY <1>2, <1>3
  <2>2. PICK d \in DOMAIN first : w \in Within(args, S(d))
    BY <1>7, <1>10, <2>1
  <2>3. PICK v \in S(d) : v <= w /\ w < v + args.base
    BY <2>2 DEF Within
  <2>4. w \in Nat /\ v \in Nat /\ Apart(w, v, args.base)
    BY <1>11
  <2> QED
    BY <1>8, <2>3, <2>4 DEF Apart
<1>24. DOMAIN chunk' = IF branch THEN DOMAIN first' ELSE {}
  <2>1. CASE branch
    <3>1. \E e : chunk' = Chase!With(chunk, c, e)
      BY <1>2, <2>1
    <3>2. DOMAIN chunk' = DOMAIN chunk \union {c}
      BY <1>5, <3>1
    <3> QED
      BY <1>7, <1>21, <2>1, <3>2
  <2>2. CASE ~branch
    BY <1>2, <1>7, <2>2
  <2> QED
    BY <2>1, <2>2
<1>25. ASSUME NEW d \in DOMAIN chunk' PROVE chunk'[d] = Chase!ChunkSize(LapLength(args, it))
  <2>1. branch
    BY <1>24
  <2>2. chunk' = Chase!With(chunk, c, Chase!ChunkSize(LapLength(args, it)))
    BY <1>2, <1>15, <2>1
  <2>3. CASE d = c
    <3>1. chunk'[c] = Chase!ChunkSize(LapLength(args, it))
      BY <1>5, <2>2
    <3> QED
      BY <2>3, <3>1
  <2>4. CASE d # c
    <3>1. DOMAIN chunk' = DOMAIN chunk \union {c}
          /\ \A x \in DOMAIN chunk : x # c => chunk'[x] = chunk[x]
      BY <2>2 DEF Chase!With, Chase!Over
    <3> QED
      BY <1>7, <2>4, <3>1
  <2> QED
    BY <2>3, <2>4
<1>26. ASSUME NEW w \in DOMAIN arena' PROVE \E d \in DOMAIN first' : w \in Within(args, own'[d])
  <2>1. CASE w \in DOMAIN crit
    BY <1>4, <1>21, <2>1
  <2>2. CASE w \notin DOMAIN crit
    <3>1. w \in DOMAIN arena
      BY <1>2, <1>6, <2>2
    <3>2. PICK d \in DOMAIN first : w \in Within(args, own[d])
      BY <1>7, <3>1
    <3> QED
      BY <1>21, <3>2
  <2> QED
    BY <2>1, <2>2
<1>27. ASSUME NEW s \in stops' PROVE \E d \in DOMAIN first' : s \in own'[d]
  <2>1. CASE s \in stops
    <3>1. PICK d \in DOMAIN first : s \in own[d]
      BY <1>7, <2>1
    <3> QED
      BY <1>21, <3>1
  <2>2. CASE s \notin stops
    BY <1>2, <1>17, <1>21, <2>2
  <2> QED
    BY <2>1, <2>2
<1>28. DOMAIN first' \subseteq 0..(Chase!NrChases(args) - 1)
  BY <1>1, <1>7, <1>21 DEF Chase!Chases
<1>29. gpc' \in {"options", "mixer", "generate", "done", "exit", "overrun"}
       /\ gpc' \notin {"options", "mixer"}
  BY <1>2, <1>23
<1>30. Chase!IsRequest(args)
  BY DEF ChaseInv
<1> HIDE DEF it
<1>31. \A d \in DOMAIN chunk' : chunk'[d] = Chase!ChunkSize(LapLength(args', ChaseIters(args')))
  BY <1>25 DEF it
<1>32. DOMAIN own' = DOMAIN first'
  BY <1>21
<1> QED
  BY <1>1, <1>22, <1>24, <1>26, <1>27, <1>28, <1>29, <1>30, <1>31, <1>32
     DEF ChaseInv, Chase!Chases

\* The invariant holds before main rounds the sizes,
LEMMA ChaseStart == Chase!Init => ChaseInv
<1> SUFFICES ASSUME Chase!Init PROVE ChaseInv
  OBVIOUS
<1>1. Chase!IsRequest(args)
  BY PartsAssumption DEF Chase!Init, Chase!Assumptions
<1>2. DOMAIN <<>> = {}
  OBVIOUS
<1> QED
  BY <1>1, <1>2 DEF Chase!Init, ChaseInv

\* rounding them keeps it,
LEMMA SanityKeeps == ChaseInv /\ Chase!Sanity => ChaseInv'
<1> SUFFICES ASSUME ChaseInv, Chase!Sanity PROVE ChaseInv'
  OBVIOUS
<1>1. /\ args' = Chase!Rounded(args) /\ Chase!IsRequest(args) /\ DOMAIN first = {}
      /\ gpc' = IF Chase!Fits(args') THEN "mixer" ELSE "exit"
      /\ UNCHANGED <<mixer, arena, first, own, stops, chunk>>
  BY DEF ChaseInv, Chase!Sanity
<1>2. Chase!IsRequest(args') /\ Sized(args')
  BY <1>1, RoundedSized
<1>3. /\ DOMAIN own = DOMAIN first /\ DOMAIN chunk = {}
      /\ \A w \in DOMAIN arena : \E c \in DOMAIN first : w \in Within(args, own[c])
      /\ \A s \in stops : \E c \in DOMAIN first : s \in own[c]
  BY <1>1 DEF ChaseInv
<1>4. DOMAIN arena = {} /\ stops = {}
  BY <1>1, <1>3
<1>5. /\ gpc' \in {"options", "mixer", "generate", "done", "exit", "overrun"}
      /\ gpc' # "generate" /\ (gpc' = "mixer" => Chase!Fits(args'))
  BY <1>1
<1>6. /\ DOMAIN first' = {} /\ DOMAIN own' = {} /\ DOMAIN chunk' = {} /\ DOMAIN arena' = {}
      /\ stops' = {}
  BY <1>1, <1>3, <1>4
<1> QED
  BY <1>2, <1>5, <1>6 DEF ChaseInv

\* and so does generating the mixer.
LEMMA MixerKeeps == ChaseInv /\ Chase!GenerateMixer => ChaseInv'
<1> SUFFICES ASSUME ChaseInv, Chase!GenerateMixer PROVE ChaseInv'
  OBVIOUS
<1>1. /\ gpc = "mixer" /\ DOMAIN first = {}
      /\ Chase!IsRequest(args) /\ Sized(args) /\ Chase!Fits(args)
      /\ UNCHANGED <<args, arena, first, own, stops, chunk>>
  BY DEF ChaseInv, Chase!GenerateMixer
<1>2. /\ DOMAIN own = DOMAIN first /\ DOMAIN chunk = {}
      /\ \A w \in DOMAIN arena : \E c \in DOMAIN first : w \in Within(args, own[c])
      /\ \A s \in stops : \E c \in DOMAIN first : s \in own[c]
  BY <1>1 DEF ChaseInv
<1>3. DOMAIN arena = {} /\ stops = {}
  BY <1>1, <1>2
<1>4. /\ DOMAIN first' = {} /\ DOMAIN own' = {} /\ DOMAIN chunk' = {} /\ DOMAIN arena' = {}
      /\ stops' = {} /\ args' = args
  BY <1>1, <1>2, <1>3
<1>5. Chase!NrChases(args) \in Chase!Positive
  BY <1>1, ProductType DEF Chase!IsRequest, Chase!NrChases
<1>6. Chase!Indices(args) \in Chase!Positive
  <2>1. args.stride \in Chase!Positive /\ args.base \in Chase!Positive
    BY <1>1 DEF Chase!IsRequest
  <2>2. args.stride \div args.base \in Nat
    BY <2>1, DivMod DEF Chase!Positive
  <2> QED
    BY <1>1, <1>5, <2>2 DEF Chase!Fits, Chase!Indices, Chase!Positive
<1>7. CASE gpc' = "exit"
  BY <1>1, <1>4, <1>7 DEF ChaseInv
<1>8. CASE gpc' = "generate"
  <2>1. PICK raw \in Chase!CeilPow2(Chase!NrChases(args)) :
          LET nr == IF raw < MinMixers THEN MinMixers ELSE raw IN
          \E t \in [0..(nr - 1) -> Chase!GenPermutation(Chase!Indices(args), 0, args.ordered)] :
            mixer' = [j \in 0..(Chase!Indices(args) - 1) |-> [c \in 0..(nr - 1) |-> t[c][j]]]
    BY <1>8, Zenon DEF Chase!GenerateMixer
  <2> DEFINE nr == IF raw < MinMixers THEN MinMixers ELSE raw
  <2>2. raw \in Chase!Positive
    BY <1>5, MixerCount
  <2>3. MinMixers \in Chase!Positive
    <3>1. MinMixers \in Chase!Powers(6)
      BY PartsAssumption DEF Chase!Assumptions
    <3>2. \A p \in Chase!Powers(6) : p \in Chase!Positive
      <4>1. 6 \in Nat
        OBVIOUS
      <4>2. \E pow : /\ \A k \in 0..6 : pow[k] \in Chase!Positive /\ pow[k] >= k + 1
                     /\ pow[0] = 1 /\ \A k \in 1..6 : pow[k] = 2 * pow[k - 1]
                     /\ Chase!Powers(6) = {pow[k] : k \in 0..6}
        BY <4>1, PowersAre
      <4> QED
        BY <4>2
    <3> QED
      BY <3>1, <3>2
  <2>4. nr \in Chase!Positive
    BY <2>2, <2>3
  <2> HIDE DEF nr
  <2>5. PICK t \in [0..(nr - 1) -> Chase!GenPermutation(Chase!Indices(args), 0, args.ordered)] :
            mixer' = [j \in 0..(Chase!Indices(args) - 1) |-> [c \in 0..(nr - 1) |-> t[c][j]]]
    BY <2>1 DEF nr
  <2>6. IsMixer(mixer', Chase!Indices(args))
    BY <1>6, <2>4, <2>5, MixerOf
  <2>7. Mixable(args, mixer')
    BY <1>1, <1>6, <2>6 DEF Mixable, Chase!Positive
  <2> QED
    BY <1>1, <1>4, <1>8, <2>7 DEF ChaseInv
<1> QED
  BY <1>7, <1>8 DEF Chase!GenerateMixer

\* So each step keeps it.
LEMMA ChaseStep == ChaseInv /\ [Chase!Next]_(Chase!chaseVars) => ChaseInv'
<1> SUFFICES ASSUME ChaseInv, [Chase!Next]_(Chase!chaseVars) PROVE ChaseInv'
  OBVIOUS
<1>1. CASE Chase!Sanity
  BY <1>1, SanityKeeps
<1>2. CASE Chase!GenerateMixer
  BY <1>2, MixerKeeps
<1>3. ASSUME NEW c \in Chase!Chases, Chase!Generate(c) PROVE ChaseInv'
  <2>1. /\ gpc = "generate" /\ c \notin DOMAIN first /\ args' = args /\ mixer' = mixer
        /\ \/ gpc' = "overrun" /\ UNCHANGED <<arena, own, first, stops, chunk>>
           \/ \E perms, links : Generated(c, perms, links)
    BY <1>3, GenerateStep
  <2>2. CASE gpc' = "overrun" /\ UNCHANGED <<arena, own, first, stops, chunk>>
    BY <2>1, <2>2 DEF ChaseInv, Chase!Chases
  <2>3. CASE \E perms, links : Generated(c, perms, links)
    BY <2>1, <2>3, GeneratedKeeps
  <2> QED
    BY <2>1, <2>2, <2>3
<1>4. CASE UNCHANGED Chase!chaseVars
  BY <1>4 DEF ChaseInv, Chase!chaseVars, Chase!Chases
<1> QED
  BY <1>1, <1>2, <1>3, <1>4 DEF Chase!Next

\* What each thread has written, in the words of its own slots only (multichase.c:432-513).
THEOREM ChaseInvariance == Chase!Spec => []ChaseInv
<1> QED
  BY ChaseStart, ChaseStep, PTL DEF Chase!Spec

\* The slots of two chases, and of two elements of one.
LEMMA ApartSlots == ChaseInv => Chase!SlotsDisjoint
<1> SUFFICES ASSUME ChaseInv, NEW c \in DOMAIN first, NEW d \in DOMAIN first,
                    NEW u \in own[c], NEW v \in own[d]
             PROVE  /\ u + args.base <= args.mem
                    /\ c # d \/ u # v => u + args.base <= v \/ v + args.base <= u
  BY DEF Chase!SlotsDisjoint
<1> DEFINE it == ChaseIters(args)
<1>1. Mixable(args, mixer)
  BY DEF ChaseInv
<1>2. \A e \in DOMAIN first :
        /\ e \in Nat /\ own[e] = LapSlots(args, mixer, FirstRow(args, e), it)
        /\ it \in Chase!Positive /\ FirstRow(args, e) \in Nat
        /\ FirstRow(args, e) + it <= Chase!Indices(args)
  BY DEF ChaseInv, Chase!Chases, Made, MadeFrom, IsPlan
<1>3. PICK x \in Elements(args), j \in 0..(it - 1) : u = SlotOf(args, mixer, x, FirstRow(args, c) + j)
  BY <1>2 DEF LapSlots, RowSlots
<1>4. PICK y \in Elements(args), l \in 0..(it - 1) : v = SlotOf(args, mixer, y, FirstRow(args, d) + l)
  BY <1>2 DEF LapSlots, RowSlots
<1>5. Chase!Indices(args) \in Nat
  BY <1>1, Room DEF Mixable, Chase!Positive
<1>6. FirstRow(args, c) + j \in Rows(args) /\ FirstRow(args, d) + l \in Rows(args)
  <2> DEFINE rc == FirstRow(args, c)  rd == FirstRow(args, d)
  <2>1. /\ it \in Nat /\ rc \in Nat /\ rd \in Nat
        /\ rc + it <= Chase!Indices(args) /\ rd + it <= Chase!Indices(args)
    BY <1>2 DEF Chase!Positive
  <2> HIDE DEF it, rc, rd
  <2>2. rc + j \in Rows(args) /\ rd + l \in Rows(args)
    BY <1>5, <2>1 DEF Rows
  <2> QED
    BY <2>2 DEF rc, rd
<1>7. u + args.base <= args.mem
  BY <1>1, <1>3, <1>6, Slots
<1>8. ASSUME c # d \/ u # v PROVE Apart(u, v, args.base)
  <2>1. CASE c # d
    BY <1>1, <1>2, <2>1, ChasesApart
  <2>2. CASE u # v
    <3>1. x # y \/ FirstRow(args, c) + j # FirstRow(args, d) + l
      BY <1>3, <1>4, <2>2
    <3> QED
      BY <1>1, <1>3, <1>4, <1>6, <3>1, Slots
  <2> QED
    BY <1>8, <2>1, <2>2
<1> QED
  BY <1>7, <1>8 DEF Apart

\* What the invariant says of chase c and the permutations it was generated from.
LEMMA ChaseOf ==
  ASSUME ChaseInv, NEW c \in DOMAIN first
  PROVE  /\ Mixable(args, mixer) /\ c \in Chase!Chases
         /\ first[c] = SlotOf(args, mixer, 0, FirstRow(args, c))
         /\ own[c] = LapSlots(args, mixer, FirstRow(args, c), ChaseIters(args))
         /\ \E perms : MadeFrom(args, mixer, arena, stops, c, perms)
  BY DEF ChaseInv, Made

\* The addresses written and the elements that return are inside the arena.
LEMMA ChaseTypes == ChaseInv => Chase!TypeOK
<1> SUFFICES ASSUME ChaseInv PROVE Chase!TypeOK
  OBVIOUS
<1>1. DOMAIN arena \subseteq 0..(args.mem - 1)
  <2> SUFFICES ASSUME NEW w \in DOMAIN arena PROVE w \in 0..(args.mem - 1)
    OBVIOUS
  <2>1. PICK c \in DOMAIN first : w \in Within(args, own[c])
    BY DEF ChaseInv
  <2>2. PICK u \in own[c] : u <= w /\ w < u + args.base
    BY <2>1 DEF Within
  <2>3. PICK perms : MadeFrom(args, mixer, arena, stops, c, perms)
    BY ChaseOf
  <2>4. PICK x \in Elements(args), j \in 0..(ChaseIters(args) - 1) :
          u = SlotOf(args, mixer, x, FirstRow(args, c) + j)
    BY <2>2, ChaseOf DEF LapSlots, RowSlots
  <2>5. Mixable(args, mixer) /\ FirstRow(args, c) + j \in Rows(args)
    BY <2>3, ChaseOf, LapParts DEF MadeFrom
  <2>6. u \in Nat /\ u + args.base <= args.mem
    BY <2>4, <2>5, Slots
  <2>7. w \in Nat /\ args.base \in Nat /\ args.mem \in Nat
    BY <2>1, <2>5 DEF Within, Mixable, Chase!IsRequest, Chase!Positive
  <2> QED
    BY <2>2, <2>6, <2>7
<1>2. stops \subseteq DOMAIN arena
  <2> SUFFICES ASSUME NEW s \in stops PROVE s \in DOMAIN arena
    OBVIOUS
  <2>1. PICK c \in DOMAIN first : s \in own[c]
    BY DEF ChaseInv
  <2>2. PICK perms : MadeFrom(args, mixer, arena, stops, c, perms)
    BY ChaseOf
  <2>3. Mixable(args, mixer) /\ IsPlan(args, FirstRow(args, c), ChaseIters(args), perms)
        /\ Stored(args, mixer, FirstRow(args, c), ChaseIters(args), perms, arena)
    BY <2>2, ChaseOf DEF MadeFrom
  <2>4. own[c] = {LapAt(args, mixer, FirstRow(args, c), perms, m) : m \in Steps(args, ChaseIters(args))}
    BY <2>3, ChaseOf, LapIsOnce
  <2>5. PICK m \in Steps(args, ChaseIters(args)) : s = LapAt(args, mixer, FirstRow(args, c), perms, m)
    BY <2>1, <2>4
  <2> QED
    BY <2>3, <2>5 DEF Stored, StepStored
<1>3. /\ gpc \in {"options", "mixer", "generate", "done", "exit", "overrun", "aborted"}
      /\ Chase!IsRequest(args)
      /\ DOMAIN first \subseteq Chase!Chases /\ DOMAIN own = DOMAIN first
      /\ DOMAIN chunk = IF args.chase = "branch" THEN DOMAIN first ELSE {}
  BY DEF ChaseInv
<1> QED
  BY <1>1, <1>2, <1>3 DEF Chase!TypeOK

-----------------------------------------------------------------------------
(* One cycle *)

\* ring holds the k different words of a cycle that ar links.
IsRing(ar, ring, k) ==
  /\ DOMAIN ring = 0..(k - 1)
  /\ \A l, m \in 0..(k - 1) : ring[l] = ring[m] => l = m
  /\ \A m \in 0..(k - 1) : ar[ring[m]] = ring[IF m + 1 = k THEN 0 ELSE m + 1]

\* A walk along a ring visits it once and comes back.
LEMMA RingWalk ==
  ASSUME NEW k \in Chase!Positive, NEW ar, NEW ring, IsRing(ar, ring, k)
  PROVE  /\ \A m \in 0..(k - 1) : Chase!Walk(ar, ring[0], k)[m] = ring[m]
         /\ Chase!Walk(ar, ring[0], k)[k] = ring[0]
         /\ Cardinality({Chase!Walk(ar, ring[0], k)[m] : m \in 1..k}) = k
<1> DEFINE w == [m \in 0..k |-> ring[IF m = k THEN 0 ELSE m]]
<1>1. k \in Nat /\ k > 0
  BY DEF Chase!Positive
<1>2. /\ \A l, m \in 0..(k - 1) : ring[l] = ring[m] => l = m
      /\ \A m \in 0..(k - 1) : ar[ring[m]] = ring[IF m + 1 = k THEN 0 ELSE m + 1]
  BY DEF IsRing
<1>3. \A m \in 0..k : w[m] = IF m = 0 THEN ring[0] ELSE ar[w[m - 1]]
  <2> SUFFICES ASSUME NEW m \in 0..k PROVE w[m] = IF m = 0 THEN ring[0] ELSE ar[w[m - 1]]
    OBVIOUS
  <2>1. CASE m = 0
    BY <1>1, <2>1
  <2>2. CASE m # 0
    <3>1. m - 1 \in 0..(k - 1) /\ m - 1 \in 0..k /\ m - 1 # k /\ (m - 1) + 1 = m
      BY <1>1, <2>2
    <3>2. w[m - 1] = ring[m - 1]
      BY <3>1
    <3>3. ar[ring[m - 1]] = ring[IF m = k THEN 0 ELSE m]
      BY <1>2, <3>1
    <3> QED
      BY <2>2, <3>2, <3>3
  <2> QED
    BY <2>1, <2>2
<1>4. w = [m \in 0..k |-> w[m]]
  OBVIOUS
<1>5. \A m \in 0..k : w[m] = ring[IF m = k THEN 0 ELSE m]
  OBVIOUS
<1> HIDE DEF w
<1>6. WalkRec(ar, ring[0], k, w)
  BY <1>3, <1>4 DEF WalkRec
<1>7. Chase!Walk(ar, ring[0], k) = w
  BY <1>1, <1>6, WalkIs
<1>8. \A l, m \in 1..k : w[l] = w[m] => l = m
  <2> SUFFICES ASSUME NEW l \in 1..k, NEW m \in 1..k, w[l] = w[m] PROVE l = m
    OBVIOUS
  <2>1. l \in 0..k /\ m \in 0..k
    BY <1>1
  <2>2. ring[IF l = k THEN 0 ELSE l] = ring[IF m = k THEN 0 ELSE m]
    BY <1>5, <2>1
  <2>3. (IF l = k THEN 0 ELSE l) \in 0..(k - 1) /\ (IF m = k THEN 0 ELSE m) \in 0..(k - 1)
    BY <1>1
  <2>4. (IF l = k THEN 0 ELSE l) = (IF m = k THEN 0 ELSE m)
    BY <1>2, <2>2, <2>3
  <2> QED
    BY <1>1, <2>4
<1>9. Cardinality({w[m] : m \in 1..k}) = k
  <2>1. IsFiniteSet(1..k) /\ Cardinality(1..k) = k
    BY IntervalCount
  <2> DEFINE S == 1..k
  <2>2. IsFiniteSet(S) /\ Cardinality(S) = k /\ \A l, m \in S : w[l] = w[m] => l = m
    BY <1>8, <2>1
  <2> HIDE DEF S
  <2>3. Cardinality({w[m] : m \in S}) = k
    BY <2>2, ImageCount
  <2> QED
    BY <2>3 DEF S
<1>10. w[k] = ring[0] /\ \A m \in 0..(k - 1) : w[m] = ring[m]
  BY <1>1, <1>5
<1> QED
  BY <1>7, <1>9, <1>10

\* The words of a lap are addresses, and no second word is a first.
LEMMA LapWords ==
  ASSUME NEW a, NEW mx, Mixable(a, mx), NEW row, NEW iters, NEW perms,
         IsPlan(a, row, iters, perms)
  PROVE  /\ \A m \in Steps(a, iters) :
              /\ LapAt(a, mx, row, perms, m) \in Nat /\ NextStep(a, iters, m) \in Steps(a, iters)
              /\ LapElem(a, perms, m) \in Elements(a) /\ LapRow(a, row, m) \in Rows(a)
         /\ a.chase \in {"critword", "critword2"} =>
              /\ a.offset \in Nat /\ a.offset < a.base
              /\ \A l, m \in Steps(a, iters) :
                   LapAt(a, mx, row, perms, l) + a.offset # LapAt(a, mx, row, perms, m)
<1>1. \A m \in Steps(a, iters) :
        LapElem(a, perms, m) \in Elements(a) /\ LapRow(a, row, m) \in Rows(a)
  BY LapParts
<1>2. \A m \in Steps(a, iters) : LapAt(a, mx, row, perms, m) \in Nat
  BY <1>1, Slots DEF LapAt
<1>3. \A m \in Steps(a, iters) : NextStep(a, iters, m) \in Steps(a, iters)
  <2>1. LapLength(a, iters) \in Chase!Positive
    BY LapParts
  <2> QED
    BY <2>1 DEF Steps, NextStep, Chase!Positive
<1>4. ASSUME a.chase \in {"critword", "critword2"}
      PROVE  /\ a.offset \in Nat /\ a.offset < a.base
             /\ \A l, m \in Steps(a, iters) :
                  LapAt(a, mx, row, perms, l) + a.offset # LapAt(a, mx, row, perms, m)
  <2>1. a.offset \in Nat /\ a.offset < a.base
    BY <1>4 DEF Mixable, Chase!IsRequest, Chase!Positive
  <2> QED
    BY <1>1, <1>4, <2>1, SecondWords DEF LapAt
<1> QED
  BY <1>1, <1>2, <1>3, <1>4

\* The first words of the slots are a ring, and the second ones of critword2 another.
LEMMA ShiftedRing ==
  ASSUME NEW a, NEW mx, Mixable(a, mx), NEW row, NEW iters, NEW perms,
         IsPlan(a, row, iters, perms), NEW ar, Stored(a, mx, row, iters, perms, ar),
         a.chase # "critword", NEW o \in Offsets(a)
  PROVE  IsRing(ar, [m \in Steps(a, iters) |-> LapAt(a, mx, row, perms, m) + o],
                LapLength(a, iters))
<1> DEFINE at(m) == LapAt(a, mx, row, perms, m)
           ring == [m \in Steps(a, iters) |-> at(m) + o]
           k == LapLength(a, iters)
<1>1. \A m \in Steps(a, iters) : at(m) \in Nat /\ NextStep(a, iters, m) \in Steps(a, iters)
  BY LapWords
<1>2. \A l, m \in Steps(a, iters) : at(l) = at(m) => l = m
  BY LapCount
<1>3. Steps(a, iters) = 0..(k - 1) /\ \A m : NextStep(a, iters, m) = IF m + 1 = k THEN 0 ELSE m + 1
  BY DEF Steps, NextStep
<1>4. o \in Nat /\ \A u \in Nat : u + 0 = u
  BY DEF Offsets, Mixable, Chase!IsRequest
<1>5. ASSUME NEW m \in Steps(a, iters)
      PROVE  ar[at(m) + o] = at(NextStep(a, iters, m)) + o
  <2>1. StepStored(a, mx, row, iters, perms, ar, m)
    BY DEF Stored
  <2>2. ar[at(m)] = at(NextStep(a, iters, m))
    BY <2>1 DEF StepStored
  <2>3. CASE o = 0
    BY <1>1, <1>4, <2>2, <2>3
  <2>4. CASE o # 0
    <3>1. a.chase = "critword2" /\ o = a.offset
      BY <2>4 DEF Offsets
    <3> QED
      BY <2>1, <3>1 DEF StepStored
  <2> QED
    BY <2>3, <2>4
<1> HIDE DEF at, k
<1>6. DOMAIN ring = 0..(k - 1) /\ \A m \in 0..(k - 1) : ring[m] = at(m) + o
  BY <1>3
<1> HIDE DEF ring
<1>7. \A l, m \in 0..(k - 1) : ring[l] = ring[m] => l = m
  <2> SUFFICES ASSUME NEW l \in 0..(k - 1), NEW m \in 0..(k - 1), ring[l] = ring[m] PROVE l = m
    OBVIOUS
  <2>1. at(l) + o = at(m) + o /\ at(l) \in Nat /\ at(m) \in Nat
    BY <1>1, <1>3, <1>6
  <2>2. at(l) = at(m)
    <3>1. \A u, v, w \in Nat : u + w = v + w => u = v
      OBVIOUS
    <3> QED
      BY <1>4, <2>1, <3>1, Zenon
  <2> QED
    BY <1>2, <1>3, <2>2
<1>8. \A m \in 0..(k - 1) : ar[ring[m]] = ring[IF m + 1 = k THEN 0 ELSE m + 1]
  <2> SUFFICES ASSUME NEW m \in 0..(k - 1)
               PROVE  ar[ring[m]] = ring[IF m + 1 = k THEN 0 ELSE m + 1]
    OBVIOUS
  <2> DEFINE nx == NextStep(a, iters, m)
  <2>1. nx \in 0..(k - 1) /\ nx = IF m + 1 = k THEN 0 ELSE m + 1
    BY <1>1, <1>3
  <2>2. ar[ring[m]] = at(nx) + o
    BY <1>3, <1>5, <1>6
  <2> HIDE DEF nx
  <2> QED
    BY <1>6, <2>1, <2>2
<1>9. IsRing(ar, ring, k)
  BY <1>6, <1>7, <1>8 DEF IsRing
<1> QED
  BY <1>9 DEF ring, k, at

\* The words of a critword chase are one ring.
LEMMA DoubleRing ==
  ASSUME NEW a, NEW mx, Mixable(a, mx), NEW row, NEW iters, NEW perms,
         IsPlan(a, row, iters, perms), NEW ar, Stored(a, mx, row, iters, perms, ar),
         a.chase = "critword"
  PROVE  IsRing(ar, [l \in 0..(LapLength(a, iters) * 2 - 1) |->
                       LapAt(a, mx, row, perms, l \div 2) + IF (l % 2) = 0 THEN 0 ELSE a.offset],
                LapLength(a, iters) * 2)
<1> DEFINE at(m) == LapAt(a, mx, row, perms, m)
           k == LapLength(a, iters)
           off == a.offset
           ring == [l \in 0..(k * 2 - 1) |-> at(l \div 2) + IF (l % 2) = 0 THEN 0 ELSE off]
<1>1. /\ \A m \in Steps(a, iters) : at(m) \in Nat
      /\ off \in Nat /\ \A l, m \in Steps(a, iters) : at(l) + off # at(m)
  BY LapWords
<1>2. \A l, m \in Steps(a, iters) : at(l) = at(m) => l = m
  BY LapCount
<1>3. Steps(a, iters) = 0..(k - 1) /\ \A m : NextStep(a, iters, m) = IF m + 1 = k THEN 0 ELSE m + 1
  BY DEF Steps, NextStep
<1>4. \A m \in 0..(k - 1) : /\ ar[at(m)] = at(m) + off
                            /\ ar[at(m) + off] = at(IF m + 1 = k THEN 0 ELSE m + 1)
  BY <1>3 DEF Stored, StepStored
<1>5. k \in Nat /\ k > 0
  BY LapParts DEF Chase!Positive
<1> HIDE DEF at, k, off
<1>6. \A l \in 0..(k * 2 - 1) :
        /\ l \div 2 \in 0..(k - 1) /\ l \in Nat
        /\ (l % 2) = 0 => l = 2 * (l \div 2)
        /\ (l % 2) # 0 => l = 2 * (l \div 2) + 1
  BY <1>5
<1>7. \A l \in 0..(k * 2 - 1) :
        /\ (l % 2) = 0 => ring[l] = at(l \div 2)
        /\ (l % 2) # 0 => ring[l] = at(l \div 2) + off
  <2>1. \A l \in 0..(k * 2 - 1) : at(l \div 2) + 0 = at(l \div 2)
    BY <1>1, <1>3, <1>6
  <2> QED
    BY <2>1
<1>8. DOMAIN ring = 0..(k * 2 - 1)
  OBVIOUS
<1> HIDE DEF ring
<1>9. \A l, m \in 0..(k * 2 - 1) : ring[l] = ring[m] => l = m
  <2> SUFFICES ASSUME NEW l \in 0..(k * 2 - 1), NEW m \in 0..(k * 2 - 1), ring[l] = ring[m]
               PROVE  l = m
    OBVIOUS
  <2> DEFINE x == l \div 2  y == m \div 2
  <2>1. x \in 0..(k - 1) /\ y \in 0..(k - 1)
    BY <1>6
  <2>2. at(x) \in Nat /\ at(y) \in Nat /\ at(x) + off # at(y) /\ at(y) + off # at(x)
        /\ (at(x) = at(y) => x = y)
    BY <1>1, <1>2, <1>3, <2>1
  <2>3. /\ (l % 2) = 0 => ring[l] = at(x) /\ l = 2 * x
        /\ (l % 2) # 0 => ring[l] = at(x) + off /\ l = 2 * x + 1
        /\ (m % 2) = 0 => ring[m] = at(y) /\ m = 2 * y
        /\ (m % 2) # 0 => ring[m] = at(y) + off /\ m = 2 * y + 1
    BY <1>6, <1>7
  <2> HIDE DEF x, y
  <2>4. CASE (l % 2) = 0
    BY <2>2, <2>3, <2>4
  <2>5. CASE (l % 2) # 0
    <3>1. (m % 2) # 0
      BY <2>2, <2>3, <2>5
    <3>2. at(x) + off = at(y) + off
      BY <2>3, <2>5, <3>1
    <3>3. at(x) = at(y)
      BY <1>1, <2>2, <3>2
    <3> QED
      BY <2>2, <2>3, <2>5, <3>1, <3>3
  <2> QED
    BY <2>4, <2>5
<1>10. \A l \in 0..(k * 2 - 1) : ar[ring[l]] = ring[IF l + 1 = k * 2 THEN 0 ELSE l + 1]
  <2> SUFFICES ASSUME NEW l \in 0..(k * 2 - 1)
               PROVE  ar[ring[l]] = ring[IF l + 1 = k * 2 THEN 0 ELSE l + 1]
    OBVIOUS
  <2>1. l \in Nat
    BY <1>6
  <2> DEFINE x == l \div 2
  <2>2. x \in 0..(k - 1) /\ x \in Nat
    BY <1>5, <1>6
  <2>3. CASE (l % 2) = 0
    <3>1. l + 1 \in 0..(k * 2 - 1) /\ l + 1 # k * 2 /\ ((l + 1) % 2) # 0 /\ (l + 1) \div 2 = x
      BY <1>5, <2>1, <2>3
    <3>2. ring[l] = at(x) /\ ring[l + 1] = at(x) + off
      BY <1>7, <2>3, <3>1
    <3> HIDE DEF x
    <3> QED
      BY <1>4, <2>2, <3>1, <3>2
  <2>4. CASE (l % 2) # 0
    <3>1. ring[l] = at(x) + off /\ l = 2 * x + 1
      BY <1>6, <1>7, <2>4
    <3>2. ar[ring[l]] = at(IF x + 1 = k THEN 0 ELSE x + 1)
      BY <1>4, <2>2, <3>1
    <3>3. CASE x + 1 = k
      <4>1. l + 1 = k * 2 /\ 0 \in 0..(k * 2 - 1) /\ (0 % 2) = 0 /\ 0 \div 2 = 0
        BY <1>5, <2>2, <3>1, <3>3
      <4>2. ring[0] = at(0)
        BY <1>7, <4>1
      <4> QED
        BY <3>2, <3>3, <4>1, <4>2
    <3>4. CASE x + 1 # k
      <4>1. /\ l + 1 \in 0..(k * 2 - 1) /\ l + 1 # k * 2 /\ ((l + 1) % 2) = 0
            /\ (l + 1) \div 2 = x + 1
        BY <1>5, <2>2, <3>1, <3>4
      <4>2. ring[l + 1] = at(x + 1)
        BY <1>7, <4>1
      <4> QED
        BY <3>2, <3>4, <4>1, <4>2
    <3> QED
      BY <3>3, <3>4
  <2> QED
    BY <2>3, <2>4
<1>11. IsRing(ar, ring, k * 2)
  BY <1>8, <1>9, <1>10 DEF IsRing
<1> QED
  BY <1>11 DEF ring, k, at, off

\* The elements of a lap from p come in the order of the permutations.
InOrder(c, perms, p) ==
  \E o \in 0..(args.base - 1) : \A m \in Steps(args, ChaseIters(args)) :
    Chase!Walk(arena, p, Chase!Lap(c))[m * Chase!Words]
      = LapAt(args, mixer, FirstRow(args, c), perms, m) + o

\* What a lap of chase c is, from the pointer p at which it is started: the words at are
\* those of the elements, in the order of the permutations.
LEMMA Lapped ==
  ASSUME ChaseInv, NEW c \in DOMAIN first, NEW perms,
         MadeFrom(args, mixer, arena, stops, c, perms), NEW p \in Chase!Starts(c)
  PROVE  /\ Chase!Lap(c) = LapLength(args, ChaseIters(args)) * Chase!Words
         /\ Chase!Walk(arena, p, Chase!Lap(c))[Chase!Lap(c)] = p
         /\ Cardinality({Chase!Walk(arena, p, Chase!Lap(c))[m] : m \in 1..Chase!Lap(c)})
              = Chase!Lap(c)
         /\ InOrder(c, perms, p)
<1> DEFINE it == ChaseIters(args)
           row == FirstRow(args, c)
           len == LapLength(args, it)
           k == Chase!Lap(c)
           w == Chase!Walk(arena, p, k)
           at(m) == LapAt(args, mixer, row, perms, m)
<1>1. /\ Mixable(args, mixer) /\ IsPlan(args, row, it, perms)
      /\ Stored(args, mixer, row, it, perms, arena)
      /\ first[c] = at(0) /\ own[c] = LapSlots(args, mixer, row, it)
  <2>1. /\ Mixable(args, mixer) /\ IsPlan(args, row, it, perms)
        /\ Stored(args, mixer, row, it, perms, arena)
        /\ first[c] = SlotOf(args, mixer, 0, row) /\ own[c] = LapSlots(args, mixer, row, it)
    BY ChaseOf DEF MadeFrom
  <2> QED
    BY <2>1, LapIsOnce
<1>2. Chase!Cardinality(own[c]) = len
  BY <1>1, LapCount, SameCardinality
<1>3. len \in Chase!Positive /\ Steps(args, it) = 0..(len - 1) /\ len \in Nat /\ 0 \in Steps(args, it)
  <2>1. len \in Chase!Positive
    BY <1>1, LapParts
  <2> QED
    BY <2>1 DEF Steps, Chase!Positive
<1>4. \A m \in Steps(args, it) : at(m) \in Nat
  BY <1>1, LapWords
<1>5. k = len * Chase!Words
  BY <1>2 DEF Chase!Lap
<1>6. args.base \in Nat /\ args.base > 0 /\ 0 \in 0..(args.base - 1)
      /\ (args.chase = "critword2" => args.offset \in 0..(args.base - 1))
  BY <1>1 DEF Mixable, Chase!IsRequest, Chase!Positive
<1>7. p \in {at(0) + o : o \in Offsets(args)} /\ (args.chase = "critword" => p = at(0))
  <2>1. at(0) + 0 = at(0)
    BY <1>3, <1>4
  <2> HIDE DEF at
  <2> QED
    BY <1>1, <2>1 DEF Chase!Starts, Offsets
<1> HIDE DEF at, len, it, row, k
<1>8. CASE args.chase # "critword"
  <2>1. PICK o \in Offsets(args) : p = at(0) + o
    BY <1>7
  <2> DEFINE ring == [m \in Steps(args, it) |-> at(m) + o]
  <2>2. IsRing(arena, ring, len)
    BY <1>1, <1>8, ShiftedRing DEF at, len
  <2>3. Chase!Words = 1 /\ k = len
    <3>1. Chase!Words = 1
      BY <1>8 DEF Chase!Words
    <3> QED
      BY <1>3, <1>5, <3>1
  <2>4. ring[0] = p /\ \A m \in 0..(len - 1) : ring[m] = at(m) + o
    BY <1>3, <2>1
  <2> HIDE DEF ring
  <2>5. /\ \A m \in 0..(len - 1) : Chase!Walk(arena, p, len)[m] = ring[m]
        /\ Chase!Walk(arena, p, len)[len] = p
        /\ Cardinality({Chase!Walk(arena, p, len)[m] : m \in 1..len}) = len
    <3>1. /\ \A m \in 0..(len - 1) : Chase!Walk(arena, ring[0], len)[m] = ring[m]
          /\ Chase!Walk(arena, ring[0], len)[len] = ring[0]
          /\ Cardinality({Chase!Walk(arena, ring[0], len)[m] : m \in 1..len}) = len
      <4>1. len \in Chase!Positive /\ IsRing(arena, ring, len)
        BY <1>3, <2>2
      <4> QED
        BY ONLY <4>1, RingWalk, SMTT(30)
    <3>2. ring[0] = p
      BY <2>4
    <3> QED
      BY <3>1, <3>2, Zenon
  <2>6. o \in 0..(args.base - 1)
    BY <1>6, <1>8 DEF Offsets
  <2>7. \A m \in Steps(args, it) : w[m * Chase!Words] = at(m) + o
    <3>1. \A m \in Steps(args, it) : m * Chase!Words = m
      BY <1>3, <2>3
    <3> QED
      BY <1>3, <2>3, <2>4, <2>5, <3>1
  <2>8. w[k] = p /\ Cardinality({w[m] : m \in 1..k}) = k
    BY <2>3, <2>5, Zenon
  <2> QED
    BY <1>5, <2>6, <2>7, <2>8 DEF at, len, k, it, row, InOrder
<1>9. CASE args.chase = "critword"
  <2> DEFINE ring == [l \in 0..(len * 2 - 1) |->
                       at(l \div 2) + IF (l % 2) = 0 THEN 0 ELSE args.offset]
  <2>1. IsRing(arena, ring, len * 2)
    BY <1>1, <1>9, DoubleRing DEF at, len
  <2>2. Chase!Words = 2 /\ k = len * 2 /\ len * 2 \in Chase!Positive
    <3>1. Chase!Words = 2
      BY <1>9 DEF Chase!Words
    <3> QED
      BY <1>3, <1>5, <3>1 DEF Chase!Positive
  <2>3. \A m \in 0..(len - 1) : m * 2 \in 0..(len * 2 - 1) /\ ring[m * 2] = at(m) + 0
    <3> SUFFICES ASSUME NEW m \in 0..(len - 1)
                 PROVE  m * 2 \in 0..(len * 2 - 1) /\ ring[m * 2] = at(m) + 0
      OBVIOUS
    <3>1. m * 2 \in 0..(len * 2 - 1) /\ ((m * 2) % 2) = 0 /\ (m * 2) \div 2 = m
      BY <1>3
    <3> QED
      BY <3>1
  <2>4. ring[0] = p
    <3>1. 0 \in 0..(len - 1) /\ 0 * 2 = 0 /\ at(0) + 0 = at(0)
      BY <1>3, <1>4
    <3> HIDE DEF ring
    <3>2. ring[0 * 2] = at(0) + 0
      BY <2>3, <3>1
    <3> QED
      BY <1>7, <1>9, <3>1, <3>2
  <2> HIDE DEF ring
  <2>5. /\ \A m \in 0..(len * 2 - 1) : Chase!Walk(arena, p, len * 2)[m] = ring[m]
        /\ Chase!Walk(arena, p, len * 2)[len * 2] = p
        /\ Cardinality({Chase!Walk(arena, p, len * 2)[m] : m \in 1..(len * 2)}) = len * 2
    <3> DEFINE K == len * 2
    <3> HIDE DEF K
    <3>1. K \in Chase!Positive /\ IsRing(arena, ring, K)
      BY <2>1, <2>2 DEF K
    <3>2. /\ \A m \in 0..(K - 1) : Chase!Walk(arena, ring[0], K)[m] = ring[m]
          /\ Chase!Walk(arena, ring[0], K)[K] = ring[0]
          /\ Cardinality({Chase!Walk(arena, ring[0], K)[m] : m \in 1..K}) = K
      BY ONLY <3>1, RingWalk, SMTT(30)
    <3> QED
      BY <2>4, <3>2, Zenon DEF K
  <2>6. \A m \in Steps(args, it) : w[m * Chase!Words] = at(m) + 0
    BY <1>3, <2>2, <2>3, <2>5
  <2>7. w[k] = p /\ Cardinality({w[m] : m \in 1..k}) = k
    BY <2>2, <2>5, Zenon
  <2> QED
    BY <1>5, <1>6, <2>6, <2>7 DEF at, len, k, it, row, InOrder
<1> QED
  BY <1>8, <1>9

\* Each chase is one cycle, of every element and, in a long one, once a permutation.
LEMMA CycleIsOne == ChaseInv => Chase!OneCycle
<1> SUFFICES ASSUME ChaseInv, NEW c \in DOMAIN first
             PROVE  /\ Chase!Cardinality(own[c]) = Chase!NrElts(args) * Chase!Iterations
                    /\ \A p \in Chase!Starts(c) :
                         LET w == Chase!Walk(arena, p, Chase!Lap(c)) IN
                         /\ w[Chase!Lap(c)] = p
                         /\ Chase!Cardinality({w[k] : k \in 1..Chase!Lap(c)}) = Chase!Lap(c)
                         /\ args.long => \A j \in 0..(Chase!Iterations - 1) :
                              {w[(j * Chase!NrElts(args) + k) * Chase!Words] \div args.stride :
                                 k \in 0..(Chase!NrElts(args) - 1)}
                                = 0..(Chase!NrElts(args) - 1)
  BY Zenon DEF Chase!OneCycle
<1> DEFINE it == ChaseIters(args)
           row == FirstRow(args, c)
           nr == Chase!NrElts(args)
<1>1. PICK perms : MadeFrom(args, mixer, arena, stops, c, perms)
  BY ChaseOf
<1>2. Mixable(args, mixer) /\ IsPlan(args, row, it, perms)
      /\ own[c] = LapSlots(args, mixer, row, it)
  BY <1>1, ChaseOf DEF MadeFrom
<1>3. Chase!Iterations = it
  BY DEF Chase!Iterations, ChaseIters
<1>4. nr \in Chase!Positive /\ it \in Nat /\ nr \in Nat
  BY <1>2, LapParts DEF Chase!Positive
<1>5. Chase!Cardinality(own[c]) = nr * it
  <2>1. Chase!Cardinality(own[c]) = it * nr
    BY <1>2, LapCount, SameCardinality DEF LapLength
  <2>2. \A u, v \in Nat : u * v = v * u
    OBVIOUS
  <2> QED
    BY <1>4, <2>1, <2>2
<1>6. ASSUME NEW p \in Chase!Starts(c), NEW j \in 0..(it - 1)
      PROVE  {Chase!Walk(arena, p, Chase!Lap(c))[(j * nr + k) * Chase!Words] \div args.stride :
                k \in 0..(nr - 1)} = 0..(nr - 1)
  <2> DEFINE w == Chase!Walk(arena, p, Chase!Lap(c))
             el(k) == w[(j * nr + k) * Chase!Words] \div args.stride
  <2>0. InOrder(c, perms, p)
    BY <1>1, Lapped
  <2>1. PICK o \in 0..(args.base - 1) : \A m \in Steps(args, it) :
          w[m * Chase!Words] = LapAt(args, mixer, row, perms, m) + o
    BY <2>0, Zenon DEF InOrder
  <2>2. \A k \in 0..(nr - 1) :
          /\ j * nr + k \in Steps(args, it)
          /\ (j * nr + k) \div nr = j /\ ((j * nr + k) % nr) = k
    BY <1>4, Quotients DEF Steps, LapLength
  <2>3. IsPerm(perms[j], nr)
    BY <1>2, LapParts
  <2>4. /\ \A k \in 0..(nr - 1) : ElemAt(perms[j], nr, k) \in 0..(nr - 1)
        /\ \A y \in 0..(nr - 1) : \E k \in 0..(nr - 1) : ElemAt(perms[j], nr, k) = y
    BY <1>4, <2>3, Turned
  <2> HIDE DEF w
  <2>5. ASSUME NEW k \in 0..(nr - 1) PROVE el(k) = ElemAt(perms[j], nr, k)
    <3> DEFINE m == j * nr + k
    <3>1. m \in Steps(args, it) /\ m \div nr = j /\ (m % nr) = k
      BY <2>2
    <3> HIDE DEF m
    <3>2. w[m * Chase!Words] = LapAt(args, mixer, row, perms, m) + o
      BY <2>1, <3>1
    <3>3. LapElem(args, perms, m) \in Elements(args) /\ LapRow(args, row, m) \in Rows(args)
      BY <1>2, <3>1, LapParts
    <3>4. (LapAt(args, mixer, row, perms, m) + o) \div args.stride = LapElem(args, perms, m)
      BY <1>2, <3>3, SlotWords DEF LapAt
    <3>5. LapElem(args, perms, m) = ElemAt(perms[j], nr, k)
      BY <3>1 DEF LapElem
    <3> QED
      BY <3>2, <3>4, <3>5 DEF m
  <2> HIDE DEF el
  <2>6. {el(k) : k \in 0..(nr - 1)} = 0..(nr - 1)
    <3> HIDE DEF nr
    <3> QED
      BY <2>4, <2>5
  <2> QED
    BY <2>6 DEF el, w
<1>7. ASSUME NEW p \in Chase!Starts(c)
      PROVE  LET w == Chase!Walk(arena, p, Chase!Lap(c)) IN
             /\ w[Chase!Lap(c)] = p
             /\ Chase!Cardinality({w[k] : k \in 1..Chase!Lap(c)}) = Chase!Lap(c)
  BY <1>1, Lapped, SameCardinality
<1> QED
  BY <1>3, <1>5, <1>6, <1>7

-----------------------------------------------------------------------------
(* The chunks of a branch chase *)

\* The size of the chunks is what a power of two, at most len, of them leave.
LEMMA ChunkSizeOf ==
  ASSUME NEW len \in Chase!Positive
  PROVE  \E p \in Chase!Positive : p <= len /\ Chase!ChunkSize(len) = len \div p
<1>1. len \in Nat /\ len > 0 /\ BranchChunk \in Nat /\ BranchChunk >= 2
  BY PartsAssumption DEF Chase!Positive, Chase!Assumptions
<1>2. CASE len < BranchChunk
  <2>1. Chase!ChunkSize(len) = len
    BY <1>2 DEF Chase!ChunkSize
  <2>2. len \div 1 = len /\ 1 \in Chase!Positive /\ 1 <= len
    BY <1>1 DEF Chase!Positive
  <2> QED
    BY <2>1, <2>2
<1>3. CASE ~(len < BranchChunk)
  <2> DEFINE Sq(m) == m * m
             Near(p) == /\ Sq(p * BranchChunk) <= 2 * Sq(len)
                        /\ Sq(len) < 2 * Sq(p * BranchChunk)
             q == CHOOSE p \in Chase!Powers(len) : Near(p)
  <2>1. Chase!ChunkSize(len) = len \div q
    BY <1>3 DEF Chase!ChunkSize
  <2>2. PICK pow : /\ \A k \in 0..len : pow[k] \in Chase!Positive /\ pow[k] >= k + 1
                   /\ pow[0] = 1 /\ \A k \in 1..len : pow[k] = 2 * pow[k - 1]
                   /\ Chase!Powers(len) = {pow[k] : k \in 0..len}
    BY <1>1, PowersAre
  <2> DEFINE T == {k \in 0..len : Sq(len) < 2 * Sq(pow[k] * BranchChunk)}
  <2>3. \A x, y \in Nat : x <= y => x * x \in Nat /\ y * y \in Nat /\ x * x <= y * y
    <3>1. \A x, y, u \in Nat : x <= y => x * u \in Nat /\ x * u <= y * u /\ u * x <= u * y
      OBVIOUS
    <3> QED
      BY <3>1
  <2>4. \A x \in Nat, y \in Nat : y >= 2 => x * y \in Nat /\ x <= x * y
    OBVIOUS
  <2>5. len \in T
    <3>1. pow[len] \in Nat /\ len < pow[len] /\ len \in 0..len
      BY <1>1, <2>2 DEF Chase!Positive
    <3>2. pow[len] * BranchChunk \in Nat /\ len <= pow[len] * BranchChunk
      BY <1>1, <2>4, <3>1
    <3>3. /\ Sq(len) \in Nat /\ Sq(pow[len] * BranchChunk) \in Nat
          /\ Sq(len) <= Sq(pow[len] * BranchChunk) /\ 0 < Sq(len)
      <4>1. /\ Sq(len) \in Nat /\ Sq(pow[len] * BranchChunk) \in Nat
            /\ Sq(len) <= Sq(pow[len] * BranchChunk)
        BY <1>1, <2>3, <3>2
      <4>2. 0 < Sq(len)
        BY <1>1
      <4> QED
        BY <4>1, <4>2
    <3> HIDE DEF Sq
    <3>4. Sq(len) < 2 * Sq(pow[len] * BranchChunk)
      BY <3>3
    <3> QED
      BY <3>1, <3>4
  <2>6. PICK k \in T : \A l \in T : k <= l
    <3>1. T \in SUBSET Nat /\ T # {}
      BY <2>5
    <3> HIDE DEF T
    <3> QED
      BY <3>1, Least
  <2>7. pow[k] \in Chase!Powers(len) /\ Sq(len) < 2 * Sq(pow[k] * BranchChunk)
    BY <2>2, <2>6
  <2>8. Sq(pow[k] * BranchChunk) <= 2 * Sq(len)
    <3>1. CASE k = 0
      <4>1. pow[k] * BranchChunk = BranchChunk /\ BranchChunk <= len
        BY <1>1, <1>3, <2>2, <3>1
      <4>2. Sq(BranchChunk) \in Nat /\ Sq(len) \in Nat /\ Sq(BranchChunk) <= Sq(len)
        BY <1>1, <2>3, <4>1
      <4> HIDE DEF Sq
      <4> QED
        BY <4>1, <4>2
    <3>2. CASE k # 0
      <4>1. k \in 1..len /\ k - 1 \in 0..len /\ k - 1 \notin T
        BY <1>1, <2>6, <3>2
      <4> DEFINE x == pow[k - 1] * BranchChunk
      <4>2. pow[k] = 2 * pow[k - 1] /\ pow[k - 1] \in Nat
        BY <2>2, <4>1 DEF Chase!Positive
      <4>3. pow[k] * BranchChunk = 2 * x /\ x \in Nat
        <5>1. \A u, v \in Nat : (2 * u) * v = 2 * (u * v) /\ u * v \in Nat
          OBVIOUS
        <5> QED
          BY <1>1, <4>2, <5>1
      <4>4. ~(Sq(len) < 2 * Sq(x))
        BY <4>1
      <4> HIDE DEF x
      <4>5. Sq(2 * x) = 4 * Sq(x) /\ Sq(x) \in Nat /\ Sq(len) \in Nat
        BY <1>1, <4>3
      <4> HIDE DEF Sq
      <4>6. Sq(2 * x) <= 2 * Sq(len)
        BY <4>4, <4>5
      <4> QED
        BY <4>3, <4>6
    <3> QED
      BY <3>1, <3>2
  <2>9. q \in Chase!Powers(len) /\ Near(q)
    BY <2>7, <2>8
  <2>10. q \in Chase!Positive
    BY <2>2, <2>9
  <2>11. q <= len
    <3> SUFFICES ASSUME ~(q <= len) PROVE FALSE
      OBVIOUS
    <3>1. q \in Nat /\ len + 1 <= q
      BY <1>1, <2>10 DEF Chase!Positive
    <3> HIDE DEF q
    <3>2. \A x, y, z \in Nat : x <= y => x * z \in Nat /\ x * z <= y * z /\ z * x <= z * y
      OBVIOUS
    <3>3. q * BranchChunk \in Nat /\ (len + 1) * 2 <= q * BranchChunk
      <4>1. (len + 1) * 2 <= q * 2
        BY <1>1, <3>1
      <4>2. q * 2 <= q * BranchChunk /\ q * BranchChunk \in Nat
        BY <1>1, <3>1, <3>2
      <4> QED
        BY <1>1, <3>1, <4>1, <4>2
    <3> DEFINE y == q * BranchChunk
    <3>4. Sq(y) <= 2 * Sq(len)
      BY <2>9
    <3> HIDE DEF y
    <3>5. Sq((len + 1) * 2) <= Sq(y)
      BY <1>1, <2>3, <3>3 DEF y
    <3>6. Sq((len + 1) * 2) > 2 * Sq(len)
      BY <1>1
    <3>7. Sq((len + 1) * 2) \in Nat /\ Sq(y) \in Nat /\ Sq(len) \in Nat
      BY <1>1, <3>3 DEF y
    <3> HIDE DEF Sq
    <3> QED
      BY <3>4, <3>5, <3>6, <3>7
  <2> QED
    BY <2>1, <2>10, <2>11
<1> QED
  BY <1>2, <1>3

\* So they are as many as they may be short of, or more.
LEMMA ChunkSizeIs ==
  ASSUME NEW len \in Chase!Positive
  PROVE  /\ Chase!ChunkSize(len) \in Chase!Positive
         /\ len \div Chase!ChunkSize(len) \in Nat
         /\ (len \div Chase!ChunkSize(len)) * Chase!ChunkSize(len) <= len
         /\ len <= (len \div Chase!ChunkSize(len)) * Chase!ChunkSize(len)
                     + len \div Chase!ChunkSize(len)
<1>1. PICK p \in Chase!Positive : p <= len /\ Chase!ChunkSize(len) = len \div p
  BY ChunkSizeOf
<1> DEFINE z == Chase!ChunkSize(len)
           b == len \div z
<1>2. len \in Nat /\ len > 0 /\ p \in Nat /\ p > 0
  BY DEF Chase!Positive
<1>3. z \in Nat /\ (len % p) \in 0..(p - 1) /\ len = p * z + (len % p)
  BY <1>1, <1>2, DivMod
<1>4. z # 0
  <2> HIDE DEF z
  <2>1. p * 0 = 0
    BY <1>2
  <2> QED
    BY <1>1, <1>2, <1>3, <2>1
<1>5. z \in Chase!Positive
  BY <1>3, <1>4 DEF Chase!Positive
<1>6. b \in Nat /\ (len % z) \in 0..(z - 1) /\ len = z * b + (len % z)
  BY <1>2, <1>5, DivMod
<1> HIDE DEF z, b
<1>7. z * b = b * z /\ b * z \in Nat /\ z * p = p * z /\ p * z \in Nat
  BY <1>2, <1>3, <1>6
<1>8. p <= b
  <2> SUFFICES ASSUME b + 1 <= p PROVE FALSE
    BY <1>2, <1>6
  <2>1. \A u, v, w \in Nat : u + 1 <= v => u * w + w <= v * w
    OBVIOUS
  <2>2. b * z + z <= p * z
    BY <1>2, <1>3, <1>6, <2>1
  <2> QED
    BY <1>2, <1>3, <1>6, <1>7, <2>2
<1>9. p * z <= b * z
  BY <1>2, <1>3, <1>6, <1>8
<1>10. b \in Nat /\ b * z <= len /\ len <= b * z + b
  BY <1>2, <1>3, <1>6, <1>7, <1>8, <1>9
<1> QED
  BY <1>5, <1>10 DEF z, b

\* The chunks left and the branches left of the chunk, after each of len branches.
NextOf(len, s, k) ==
  LET c == IF s.count = 0 THEN Chase!NextChunk(len - k + 1, s.chunks, Chase!ChunkSize(len))
           ELSE s.count
  IN [chunks |-> IF c = 1 THEN s.chunks - 1 ELSE s.chunks, count |-> c - 1]
FirstOf(len) == [chunks |-> len \div Chase!ChunkSize(len), count |-> 0]
ChunkRec(len, st) ==
  st = [k \in 0..len |-> IF k = 0 THEN FirstOf(len) ELSE NextOf(len, st[k - 1], k)]

\* The counts of the loop are a function.
LEMMA ChunksExist == ASSUME NEW len \in Nat PROVE \E st : ChunkRec(len, st)
<1> DEFINE Upto(m, st) ==
             st = [k \in 0..m |-> IF k = 0 THEN FirstOf(len) ELSE NextOf(len, st[k - 1], k)]
           Bad == {m \in Nat : ~\E st : Upto(m, st)}
<1>1. Bad = {}
  <2> SUFFICES ASSUME Bad # {} PROVE FALSE
    OBVIOUS
  <2>1. PICK m \in Bad : \A l \in Bad : m <= l
    <3>1. Bad \in SUBSET Nat
      OBVIOUS
    <3> HIDE DEF Bad
    <3> QED
      BY <3>1, Least
  <2>2. CASE m = 0
    <3>1. Upto(0, [k \in 0..0 |-> FirstOf(len)])
      OBVIOUS
    <3> QED
      BY <2>1, <2>2, <3>1
  <2>3. CASE m # 0
    <3>1. m - 1 \in Nat /\ m - 1 \notin Bad /\ m \in Nat
      <4> HIDE DEF Upto
      <4> QED
        BY <2>1, <2>3
    <3>2. PICK st : Upto(m - 1, st)
      BY <3>1
    <3> DEFINE t == [k \in 0..m |-> IF k = m THEN NextOf(len, st[m - 1], m) ELSE st[k]]
    <3>3. \A k \in 0..m : t[k] = IF k = 0 THEN FirstOf(len) ELSE NextOf(len, t[k - 1], k)
      BY <2>3, <3>1, <3>2
    <3>4. t = [k \in 0..m |-> t[k]]
      OBVIOUS
    <3> HIDE DEF t
    <3>5. Upto(m, t)
      BY <3>3, <3>4
    <3> QED
      BY <2>1, <3>5
  <2> QED
    BY <2>2, <2>3
<1>2. len \notin Bad
  BY <1>1
<1> QED
  BY <1>2 DEF ChunkRec

\* The ends of the chunks are where that function counts to zero.
LEMMA EndsAre ==
  ASSUME NEW len \in Nat
  PROVE  \E st : ChunkRec(len, st) /\ Chase!Ends(len) = {k \in 1..len : st[k].count = 0}
<1> DEFINE st == CHOOSE st : ChunkRec(len, st)
<1>1. ChunkRec(len, st)
  BY ChunksExist
<1>2. Chase!Ends(len) = {k \in 1..len : st[k].count = 0}
  BY Zenon DEF Chase!Ends, ChunkRec, NextOf, FirstOf
<1> QED
  BY <1>1, <1>2

\* Of q branches, in b chunks of z or z + 1, the next chunk leaves some in b - 1.
LEMMA NextChunkIs ==
  ASSUME NEW z \in Chase!Positive, NEW b \in Nat, NEW q \in Nat, q > 0,
         b * z <= q, q <= b * z + b
  PROVE  /\ b > 0 /\ q \div b \in {z, z + 1}
         /\ (b - 1) * z + q \div b <= q
         /\ q <= (b - 1) * z + (b - 1) + q \div b
<1> DEFINE c == q \div b
<1>1. z \in Nat /\ z > 0
  BY DEF Chase!Positive
<1>2. b > 0
  <2> SUFFICES ASSUME b = 0 PROVE FALSE
    OBVIOUS
  <2>1. b * z = 0
    BY <1>1
  <2> QED
    BY <2>1
<1>3. c \in Nat /\ (q % b) \in 0..(b - 1) /\ q = b * c + (q % b)
  BY <1>2, DivMod DEF Chase!Positive
<1> HIDE DEF c
<1>4. \A u, v, w \in Nat : /\ u * v \in Nat /\ u * (v + 1) = u * v + u
                           /\ v <= w => u * v <= u * w
  OBVIOUS
<1>5. /\ b * z \in Nat /\ b * c \in Nat /\ b * (c + 1) = b * c + b
      /\ b * (z + 1) = b * z + b /\ b * ((z + 1) + 1) = b * (z + 1) + b
  BY <1>1, <1>3, <1>4
<1>6. z <= c
  <2> SUFFICES ASSUME c + 1 <= z PROVE FALSE
    BY <1>1, <1>3
  <2>1. b * (c + 1) <= b * z
    BY <1>1, <1>3, <1>4
  <2> QED
    BY <1>2, <1>3, <1>5, <2>1
<1>7. c <= z + 1
  <2> SUFFICES ASSUME (z + 1) + 1 <= c PROVE FALSE
    BY <1>1, <1>3
  <2>1. b * ((z + 1) + 1) <= b * c
    BY <1>1, <1>3, <1>4
  <2> QED
    BY <1>2, <1>3, <1>5, <2>1
<1>8. (b - 1) * z = b * z - z
  BY <1>1, <1>2
<1>9. CASE c = z
  BY <1>1, <1>2, <1>3, <1>5, <1>8, <1>9 DEF c
<1>10. CASE c = z + 1
  BY <1>1, <1>2, <1>3, <1>5, <1>8, <1>10 DEF c
<1> QED
  BY <1>1, <1>3, <1>6, <1>7, <1>9, <1>10

\* What is left after k branches is that many chunks of z or z + 1 and the rest of one.
Left(s, z, q) ==
  LET b == IF s.count = 0 THEN s.chunks ELSE s.chunks - 1 IN
  /\ s.count \in Nat /\ s.chunks \in Nat /\ b \in Nat
  /\ b * z + s.count <= q /\ q <= b * z + b + s.count

\* A branch more keeps it so.
LEMMA NextLeft ==
  ASSUME NEW len \in Chase!Positive, NEW k \in 1..len, NEW s, NEW z, z = Chase!ChunkSize(len),
         Left(s, z, len - (k - 1))
  PROVE  /\ Left(NextOf(len, s, k), z, len - k)
         /\ IF s.count = 0 THEN NextOf(len, s, k).count + 1 \in {z, z + 1}
            ELSE NextOf(len, s, k).count + 1 = s.count
<1> DEFINE q == len - (k - 1)
           c == IF s.count = 0 THEN q \div s.chunks ELSE s.count
           t == NextOf(len, s, k)
           b == IF s.count = 0 THEN s.chunks ELSE s.chunks - 1
<1>1. z \in Chase!Positive /\ z \in Nat /\ len \in Nat /\ k \in Nat
  BY ChunkSizeIs DEF Chase!Positive
<1>2. q \in Nat /\ q > 0 /\ len - k + 1 = q /\ len - k = q - 1
  BY <1>1
<1>3. /\ t.count = c - 1
      /\ t.chunks = IF c = 1 THEN s.chunks - 1 ELSE s.chunks
  BY <1>2, Zenon DEF NextOf, Chase!NextChunk
<1>4. /\ s.count \in Nat /\ s.chunks \in Nat /\ b \in Nat
      /\ b * z + s.count <= q /\ q <= b * z + b + s.count
  BY Zenon DEF Left
<1> HIDE DEF q, t
<1>5. CASE s.count = 0
  <2>1. /\ s.chunks > 0 /\ c \in {z, z + 1}
        /\ (s.chunks - 1) * z + c <= q /\ q <= (s.chunks - 1) * z + (s.chunks - 1) + c
    <3>1. s.chunks * z <= q /\ q <= s.chunks * z + s.chunks
      <4>1. s.chunks * z \in Nat
        BY <1>1, <1>4
      <4> QED
        BY <1>2, <1>4, <1>5, <4>1
    <3> QED
      BY <1>1, <1>2, <1>4, <1>5, <3>1, NextChunkIs
  <2> HIDE DEF c
  <2>2. c \in Nat /\ c > 0
    BY <1>1, <2>1 DEF Chase!Positive
  <2> DEFINE d == s.chunks - 1
             p == d * z
  <2>3. d \in Nat /\ p \in Nat /\ p + c <= q /\ q <= p + d + c
    BY <1>1, <1>4, <2>1
  <2>4. (IF t.count = 0 THEN t.chunks ELSE t.chunks - 1) = d
    BY <1>3, <1>4, <2>2
  <2>5. t.count \in Nat /\ t.chunks \in Nat
    <3>1. t.count = c - 1 /\ t.chunks = IF c = 1 THEN d ELSE s.chunks
      BY <1>3
    <3> HIDE DEF d, p
    <3> QED
      BY <1>4, <2>2, <2>3, <3>1
  <2>6. t.count + 1 = c
    BY <1>3, <2>2
  <2>7. p + t.count <= q - 1 /\ q - 1 <= p + d + t.count
    <3> HIDE DEF p, d
    <3> QED
      BY <1>2, <2>2, <2>3, <2>5, <2>6
  <2>8. Left(t, z, q - 1)
    <3> HIDE DEF d
    <3> QED
      BY <2>3, <2>4, <2>5, <2>7 DEF Left
  <2> QED
    BY <1>2, <1>5, <2>1, <2>6, <2>8 DEF t
<1>6. CASE s.count # 0
  <2>1. c = s.count /\ c \in Nat /\ c > 0 /\ b = s.chunks - 1
    BY <1>4, <1>6
  <2> HIDE DEF c
  <2> DEFINE p == b * z
  <2>2. p \in Nat /\ p + c <= q /\ q <= p + b + c
    BY <1>1, <1>4, <2>1
  <2>3. (IF t.count = 0 THEN t.chunks ELSE t.chunks - 1) = b
    BY <1>3, <1>4, <2>1
  <2>4. t.count \in Nat /\ t.chunks \in Nat
    BY <1>3, <1>4, <2>1
  <2>5. t.count + 1 = c
    BY <1>3, <2>1
  <2>6. p + t.count <= q - 1 /\ q - 1 <= p + b + t.count
    <3> HIDE DEF p, b
    <3> QED
      BY <1>2, <1>4, <2>1, <2>2, <2>4, <2>5
  <2>7. Left(t, z, q - 1)
    <3> HIDE DEF b
    <3> QED
      BY <1>4, <2>3, <2>4, <2>6 DEF Left
  <2> QED
    BY <1>2, <1>6, <2>1, <2>5, <2>7 DEF t
<1> QED
  BY <1>5, <1>6

\* The last chunk ends with the last branch, and from the end of each chunk back to the
\* one before, or to the beginning, there are z or z + 1 branches.
LEMMA ChunkEnds ==
  ASSUME NEW len \in Chase!Positive, NEW z, z = Chase!ChunkSize(len),
         NEW ends, ends = Chase!Ends(len)
  PROVE  /\ len \in ends /\ ends \subseteq 1..len
         /\ \A k \in ends : \E l \in ends \union {0} :
              /\ k - l \in {z, z + 1}
              /\ \A m \in ends : ~(l < m /\ m < k)
<1>1. len \in Nat /\ len > 0 /\ z \in Chase!Positive /\ z \in Nat
  BY ChunkSizeIs DEF Chase!Positive
<1>2. PICK st : ChunkRec(len, st) /\ ends = {k \in 1..len : st[k].count = 0}
  BY <1>1, EndsAre
<1>3. st[0] = FirstOf(len) /\ \A k \in 1..len : st[k] = NextOf(len, st[k - 1], k)
  BY <1>1, <1>2 DEF ChunkRec
<1> DEFINE Since(k, l) ==
             /\ l = 0 \/ st[l].count = 0
             /\ (k - l) + st[k].count \in {z, z + 1}
             /\ \A m \in (l + 1)..(k - 1) : st[m].count # 0
           Good(k) == /\ Left(st[k], z, len - k)
                      /\ k # 0 => \E l \in 0..(k - 1) : Since(k, l)
           Bad == {k \in 0..len : ~Good(k)}
<1>4. Good(0)
  <2>1. /\ FirstOf(len).chunks = len \div z /\ FirstOf(len).count = 0
    BY DEF FirstOf
  <2> DEFINE b == len \div z
  <2>2. b \in Nat /\ b * z <= len /\ len <= b * z + b /\ b * z \in Nat
    <3>1. b \in Nat /\ b * z <= len /\ len <= b * z + b
      BY ChunkSizeIs
    <3> HIDE DEF b
    <3>2. b * z \in Nat
      BY <1>1, <3>1
    <3> QED
      BY <3>1, <3>2
  <2> HIDE DEF b
  <2> DEFINE s == FirstOf(len)
  <2>3. s.count = 0 /\ s.chunks = b
    BY <2>1 DEF b
  <2> HIDE DEF s
  <2>4. Left(s, z, len)
    BY <2>2, <2>3 DEF Left
  <2>5. len - 0 = len
    BY <1>1
  <2> QED
    BY <1>3, <2>4, <2>5 DEF s
<1>5. Bad = {}
  <2> SUFFICES ASSUME Bad # {} PROVE FALSE
    OBVIOUS
  <2>1. PICK m \in Bad : \A l \in Bad : m <= l
    <3>1. Bad \in SUBSET Nat
      OBVIOUS
    <3> HIDE DEF Bad
    <3> QED
      BY <3>1, Least
  <2>2. m # 0 /\ m \in 0..len
    BY <1>4, <2>1, Zenon
  <2>3. m \in 1..len /\ m - 1 \in 0..len /\ m \in Nat /\ m - 1 < m
    BY <1>1, <2>2
  <2>4. Good(m - 1)
    <3>1. m - 1 \notin Bad
      <4> HIDE DEF Bad
      <4> QED
        BY <2>1, <2>3
    <3> HIDE DEF Good
    <3> QED
      BY <2>3, <3>1
  <2> DEFINE s == st[m - 1]
  <2>5. /\ Left(st[m], z, len - m)
        /\ IF s.count = 0 THEN st[m].count + 1 \in {z, z + 1} ELSE st[m].count + 1 = s.count
    <3>1. Left(s, z, len - (m - 1))
      BY <2>4
    <3>2. st[m] = NextOf(len, s, m)
      BY <1>3, <2>3
    <3> HIDE DEF s
    <3>3. /\ Left(NextOf(len, s, m), z, len - m)
          /\ IF s.count = 0 THEN NextOf(len, s, m).count + 1 \in {z, z + 1}
             ELSE NextOf(len, s, m).count + 1 = s.count
      BY <2>3, <3>1, NextLeft
    <3> QED
      BY <3>2, <3>3
  <2>6. st[m].count \in Nat /\ s.count \in Nat
    BY <2>4, <2>5 DEF Left
  <2>7. CASE s.count = 0
    <3>1. Since(m, m - 1)
      <4>1. st[m].count + 1 \in {z, z + 1} /\ m - (m - 1) = 1
        BY <2>3, <2>5, <2>7
      <4>2. (m - (m - 1)) + st[m].count \in {z, z + 1}
        BY <2>6, <4>1
      <4>3. \A x \in ((m - 1) + 1)..(m - 1) : FALSE
        BY <2>3
      <4> QED
        BY <2>7, <4>2, <4>3
    <3>2. m - 1 \in 0..(m - 1)
      BY <2>3
    <3>3. Good(m)
      <4> HIDE DEF Since
      <4> QED
        BY <2>5, <3>1, <3>2
    <3> HIDE DEF Good
    <3> QED
      BY <2>1, <3>3
  <2>8. CASE s.count # 0
    <3>1. m - 1 # 0
      <4>1. st[0].count = 0
        BY <1>3 DEF FirstOf
      <4> QED
        BY <2>8, <4>1
    <3>2. PICK l \in 0..((m - 1) - 1) : Since(m - 1, l)
      <4> HIDE DEF Since
      <4> QED
        BY <2>4, <3>1
    <3>3. l \in 0..(m - 1) /\ l \in Nat
      BY <2>3
    <3>4. st[m].count + 1 = s.count
      BY <2>5, <2>8
    <3>5. Since(m, l)
      <4>1. (m - l) + st[m].count = ((m - 1) - l) + s.count
        BY <2>3, <2>6, <3>3, <3>4
      <4>2. \A x \in (l + 1)..(m - 1) : x = m - 1 \/ x \in (l + 1)..((m - 1) - 1)
        BY <2>3, <3>3
      <4>3. \A x \in (l + 1)..(m - 1) : st[x].count # 0
        BY <2>8, <3>2, <4>2
      <4> QED
        BY <3>2, <4>1, <4>3
    <3>6. Good(m)
      <4> HIDE DEF Since
      <4> QED
        BY <2>5, <3>3, <3>5
    <3> HIDE DEF Good
    <3> QED
      BY <2>1, <3>6
  <2> QED
    BY <2>7, <2>8
<1>6. \A k \in 0..len : Good(k)
  <2> HIDE DEF Good
  <2> QED
    BY <1>5
<1>7. len \in ends
  <2>1. Left(st[len], z, len - len) /\ len - len = 0
    BY <1>1, <1>6
  <2> DEFINE s == st[len]
             b == IF s.count = 0 THEN s.chunks ELSE s.chunks - 1
  <2>2. b \in Nat /\ s.count \in Nat /\ b * z + s.count <= 0
    BY <2>1, Zenon DEF Left
  <2> HIDE DEF b
  <2>3. b * z \in Nat
    BY <1>1, <2>2
  <2>4. s.count = 0
    BY <2>2, <2>3
  <2> QED
    BY <1>1, <1>2, <2>4
<1>8. ASSUME NEW k \in ends
      PROVE  \E l \in ends \union {0} :
               /\ k - l \in {z, z + 1}
               /\ \A m \in ends : ~(l < m /\ m < k)
  <2>1. k \in 1..len /\ st[k].count = 0
    BY <1>2
  <2>2. PICK l \in 0..(k - 1) : Since(k, l)
    <3>1. k \in 0..len /\ k # 0
      BY <2>1
    <3> HIDE DEF Since
    <3> QED
      BY <1>6, <3>1
  <2>3. l \in ends \union {0}
    BY <1>1, <1>2, <2>1, <2>2
  <2>4. k - l \in {z, z + 1}
    BY <1>1, <2>1, <2>2
  <2>5. \A m \in ends : ~(l < m /\ m < k)
    <3> SUFFICES ASSUME NEW m \in ends, l < m, m < k PROVE FALSE
      OBVIOUS
    <3>1. m \in (l + 1)..(k - 1) /\ st[m].count = 0
      BY <1>2, <2>1
    <3> QED
      BY <2>2, <3>1
  <2> QED
    BY <2>3, <2>4, <2>5
<1> QED
  BY <1>2, <1>7, <1>8

\* A lap of a chase that is not rewritten, from the pointer its thread gets.
LEMMA PlainLap ==
  ASSUME ChaseInv, NEW c \in DOMAIN first, args.chase \notin {"critword", "critword2"},
         NEW perms, MadeFrom(args, mixer, arena, stops, c, perms)
  PROVE  /\ Chase!Lap(c) = LapLength(args, ChaseIters(args))
         /\ \A k \in 0..LapLength(args, ChaseIters(args)) :
              Chase!Walk(arena, first[c], Chase!Lap(c))[k]
                = LapAt(args, mixer, FirstRow(args, c), perms,
                        IF k = LapLength(args, ChaseIters(args)) THEN 0 ELSE k)
<1> DEFINE it == ChaseIters(args)
           row == FirstRow(args, c)
           len == LapLength(args, it)
<1>1. /\ Mixable(args, mixer) /\ IsPlan(args, row, it, perms)
      /\ Stored(args, mixer, row, it, perms, arena)
      /\ first[c] = SlotOf(args, mixer, 0, row) /\ own[c] = LapSlots(args, mixer, row, it)
  BY ChaseOf DEF MadeFrom
<1>2. len \in Chase!Positive
  BY <1>1, LapParts
<1>3. Chase!Lap(c) = len
  <2>1. Chase!Cardinality(own[c]) = len
    BY <1>1, LapCount, SameCardinality
  <2>2. Chase!Words = 1
    BY DEF Chase!Words
  <2> HIDE DEF len
  <2>3. len * 1 = len
    BY <1>2 DEF Chase!Positive
  <2> QED
    BY <2>1, <2>2, <2>3 DEF Chase!Lap
<1>4. \A m \in Steps(args, it) :
        arena[LapAt(args, mixer, row, perms, m)]
          = LapAt(args, mixer, row, perms, NextStep(args, it, m))
  BY <1>1 DEF Stored, StepStored
<1>5. Chase!Walk(arena, SlotOf(args, mixer, 0, row), len)
        = [k \in 0..len |-> LapAt(args, mixer, row, perms, IF k = len THEN 0 ELSE k)]
  BY <1>1, <1>4, PlainWalk
<1> QED
  BY <1>1, <1>3, <1>5

\* The chunks of the branch chases are even.
LEMMA EvenChunks == ChaseInv => Chase!ChunksAreEven
<1> SUFFICES ASSUME ChaseInv, NEW c \in DOMAIN chunk,
                    NEW ends, ends = {k \in 1..Chase!Lap(c) :
                                Chase!Walk(arena, first[c], Chase!Lap(c))[k - 1] \in stops}
             PROVE  /\ Chase!Lap(c) \in ends
                    /\ \A k \in ends : \E l \in ends \union {0} :
                         /\ k - l \in {chunk[c], chunk[c] + 1}
                         /\ \A m \in ends : ~(l < m /\ m < k)
  BY Zenon DEF Chase!ChunksAreEven
<1> DEFINE it == ChaseIters(args)
           row == FirstRow(args, c)
           len == LapLength(args, it)
<1>1. /\ c \in DOMAIN first /\ args.chase = "branch"
      /\ chunk[c] = Chase!ChunkSize(len)
  BY DEF ChaseInv
<1>2. PICK perms : MadeFrom(args, mixer, arena, stops, c, perms)
  BY <1>1, ChaseOf
<1>3. Mixable(args, mixer) /\ IsPlan(args, row, it, perms)
  BY <1>1, <1>2, ChaseOf DEF MadeFrom
<1>4. len \in Chase!Positive
  BY <1>3, LapParts
<1>5. /\ Chase!Lap(c) = len
      /\ \A k \in 0..len : Chase!Walk(arena, first[c], Chase!Lap(c))[k]
                             = LapAt(args, mixer, row, perms, IF k = len THEN 0 ELSE k)
  BY <1>1, <1>2, PlainLap
<1>6. \A m \in Steps(args, it) :
        LapAt(args, mixer, row, perms, m) \in stops <=> m + 1 \in Chase!Ends(len)
  BY <1>1, <1>2 DEF MadeFrom
<1> DEFINE w == Chase!Walk(arena, first[c], Chase!Lap(c))
<1>7. \A k \in 1..len : k - 1 \in 0..len /\ k - 1 \in Steps(args, it) /\ k - 1 # len
                        /\ (k - 1) + 1 = k
  <2>1. Steps(args, it) = 0..(len - 1)
    BY DEF Steps
  <2> HIDE DEF len
  <2> QED
    BY <1>4, <2>1 DEF Chase!Positive
<1> HIDE DEF len, it, row
<1>8. \A k \in 1..len : w[k - 1] \in stops <=> k \in Chase!Ends(len)
  <2> SUFFICES ASSUME NEW k \in 1..len PROVE w[k - 1] \in stops <=> k \in Chase!Ends(len)
    OBVIOUS
  <2>1. w[k - 1] = LapAt(args, mixer, row, perms, k - 1)
    BY <1>5, <1>7
  <2> HIDE DEF w
  <2>2. LapAt(args, mixer, row, perms, k - 1) \in stops <=> (k - 1) + 1 \in Chase!Ends(len)
    BY <1>6, <1>7
  <2> QED
    BY <1>7, <2>1, <2>2
<1>9. Chase!Ends(len) \subseteq 1..len
  BY <1>4, ChunkEnds
<1>10. ends = Chase!Ends(len)
  <2>1. ends = {k \in 1..len : w[k - 1] \in stops}
    BY <1>5
  <2> HIDE DEF w
  <2> QED
    BY <1>8, <1>9, <2>1
<1>11. chunk[c] = Chase!ChunkSize(len)
  BY <1>1 DEF len, it
<1> QED
  BY <1>4, <1>5, <1>10, <1>11, ChunkEnds

-----------------------------------------------------------------------------
(* The TLB groups of a lap *)

\* Dividing by a product.
LEMMA DivTwice ==
  ASSUME NEW x \in Nat, NEW y \in Chase!Positive, NEW z \in Chase!Positive
  PROVE  x \div (y * z) = (x \div z) \div y
<1> DEFINE q == x \div z
           b == q \div y
<1>1. q \in Nat /\ (x % z) \in 0..(z - 1) /\ x = z * q + (x % z)
  BY DivMod
<1>2. b \in Nat /\ (q % y) \in 0..(y - 1) /\ q = y * b + (q % y)
  BY <1>1, DivMod
<1> DEFINE r == x % z
           s == q % y
           o == z * s + r
<1>3. /\ y * z \in Chase!Positive /\ y \in Nat /\ z \in Nat /\ z > 0
      /\ s \in Nat /\ s + 1 <= y /\ r \in Nat /\ r + 1 <= z
  BY <1>1, <1>2, ProductType DEF Chase!Positive
<1> HIDE DEF b, q, r, s
<1>4. z * q = b * (y * z) + z * s
  <2>1. \A u, v, w, t \in Nat : w * (u * v + t) = v * (u * w) + w * t
    <3>1. \A w, u, v \in Nat : w * (u + v) = w * u + w * v
      OBVIOUS
    <3>2. \A u, v, w \in Nat : w * (u * v) = v * (u * w) /\ u * v \in Nat
      <4>1. \A u, v \in Nat : u * v = v * u /\ u * v \in Nat
        OBVIOUS
      <4>2. \A u, v, w \in Nat : u * (v * w) = (u * v) * w
        OBVIOUS
      <4> SUFFICES ASSUME NEW u \in Nat, NEW v \in Nat, NEW w \in Nat
                   PROVE  w * (u * v) = v * (u * w)
        BY <4>1
      <4>3. w * (u * v) = (u * v) * w /\ (u * v) * w = (v * u) * w
        BY <4>1
      <4>4. (v * u) * w = v * (u * w)
        BY <4>2
      <4> QED
        BY <4>3, <4>4
    <3> QED
      BY <3>1, <3>2
  <2>2. q = y * b + s
    BY <1>2 DEF s
  <2> QED
    BY <1>2, <1>3, <2>1, <2>2
<1>5. o \in 0..(y * z - 1)
  <2>1. \A u, v, w \in Nat : u + 1 <= v => w * u \in Nat /\ w * u + w <= v * w
    OBVIOUS
  <2>2. z * s \in Nat /\ z * s + z <= y * z
    BY <1>3, <2>1
  <2> DEFINE p == y * z
             v == z * s
  <2>3. p \in Nat /\ v \in Nat /\ v + z <= p
    BY <1>3, <2>2 DEF Chase!Positive
  <2> HIDE DEF p, v
  <2>4. v + r \in 0..(p - 1)
    BY <1>3, <2>3
  <2> QED
    BY <2>4 DEF p, v
<1>6. x = b * (y * z) + o
  <2>1. x = z * q + r
    BY <1>1 DEF r
  <2>2. b * (y * z) \in Nat /\ z * s \in Nat
    <3>1. \A u, v \in Nat : u * v \in Nat
      OBVIOUS
    <3> QED
      BY <1>2, <1>3, <3>1
  <2> QED
    BY <1>3, <1>4, <2>1, <2>2
<1> HIDE DEF o
<1>7. (b * (y * z) + o) \div (y * z) = b
  BY <1>2, <1>3, <1>5, DivOf
<1> QED
  BY <1>6, <1>7 DEF b, q

\* The place r after s in a cycle of nr, and how far x is from s.
Turn(s, nr, r) == IF s + r < nr THEN s + r ELSE (s + r) - nr
Away(s, nr, x) == IF x > s THEN x - s ELSE x + nr - s

\* Turning and measuring undo each other.
LEMMA TurnIs ==
  ASSUME NEW nr \in Chase!Positive, NEW s \in 0..(nr - 1)
  PROVE  /\ \A r \in 0..nr : Turn(s, nr, r) \in 0..(nr - 1)
         /\ Turn(s, nr, 0) = s /\ Turn(s, nr, nr) = s
         /\ \A r \in 1..nr : /\ Turn(s, nr, r) = Chase!NextIndex(Turn(s, nr, r - 1), nr)
                             /\ Away(s, nr, Turn(s, nr, r)) = r
         /\ \A x \in 0..(nr - 1) : /\ Away(s, nr, x) \in 1..nr
                                   /\ Turn(s, nr, Away(s, nr, x)) = x
<1>1. nr \in Nat /\ nr > 0 /\ s \in Nat /\ s < nr
  BY DEF Chase!Positive
<1>2. \A r \in 0..nr : Turn(s, nr, r) \in 0..(nr - 1)
  BY <1>1 DEF Turn
<1>3. Turn(s, nr, 0) = s /\ Turn(s, nr, nr) = s
  BY <1>1 DEF Turn
<1>4. \A r \in 1..nr : Turn(s, nr, r) = Chase!NextIndex(Turn(s, nr, r - 1), nr)
  BY <1>1 DEF Turn, Chase!NextIndex
<1>5. \A r \in 1..nr : Away(s, nr, Turn(s, nr, r)) = r
  BY <1>1 DEF Turn, Away
<1>6. \A x \in 0..(nr - 1) : Away(s, nr, x) \in 1..nr /\ Turn(s, nr, Away(s, nr, x)) = x
  BY <1>1 DEF Turn, Away
<1> QED
  BY <1>2, <1>3, <1>4, <1>5, <1>6

\* The block changes where the next place begins one.
LEMMA BlockChanges ==
  ASSUME NEW g \in Nat, g > 1, NEW e \in Chase!Positive, NEW nr, nr = g * e,
         NEW x \in 0..(nr - 1)
  PROVE  x \div e # Chase!NextIndex(x, nr) \div e <=> (Chase!NextIndex(x, nr) % e) = 0
<1>1. e \in Nat /\ e > 0 /\ nr \in Nat /\ nr > 0
  BY ProductType DEF Chase!Positive
<1> DEFINE q == x \div e
           r == x % e
<1>2. x \in Nat /\ q \in 0..(g - 1) /\ r \in 0..(e - 1) /\ x = q * e + r
  BY Quotients
<1> HIDE DEF q, r
<1>3. \A b \in Nat, v \in 0..(e - 1) : (b * e + v) \div e = b /\ ((b * e + v) % e) = v
  BY DivOf
<1>4. \A b \in Nat : b * e \in Nat /\ (b + 1) * e = b * e + e
  BY <1>1
<1>5. CASE x + 1 # nr /\ r + 1 # e
  <2>1. Chase!NextIndex(x, nr) = q * e + (r + 1) /\ r + 1 \in 0..(e - 1)
    BY <1>1, <1>2, <1>4, <1>5 DEF Chase!NextIndex
  <2>2. (q * e + (r + 1)) \div e = q /\ ((q * e + (r + 1)) % e) = r + 1
    BY <1>2, <1>3, <2>1
  <2>3. r + 1 # 0
    BY <1>1, <1>2
  <2> QED
    BY <2>1, <2>2, <2>3 DEF q
<1>6. CASE x + 1 # nr /\ r + 1 = e
  <2>1. Chase!NextIndex(x, nr) = (q + 1) * e + 0 /\ 0 \in 0..(e - 1) /\ q + 1 \in Nat
    BY <1>1, <1>2, <1>4, <1>6 DEF Chase!NextIndex
  <2>2. ((q + 1) * e + 0) \div e = q + 1 /\ (((q + 1) * e + 0) % e) = 0
    BY <1>3, <2>1
  <2>3. q # q + 1
    BY <1>2
  <2> QED
    BY <2>1, <2>2, <2>3 DEF q
<1>7. CASE x + 1 = nr
  <2>1. Chase!NextIndex(x, nr) = 0 * e + 0 /\ 0 \in 0..(e - 1)
    BY <1>1, <1>7 DEF Chase!NextIndex
  <2>2. (0 * e + 0) \div e = 0 /\ ((0 * e + 0) % e) = 0
    BY <1>3, <2>1
  <2>3. q # 0
    <3> SUFFICES ASSUME q = 0 PROVE FALSE
      OBVIOUS
    <3>1. x = r
      BY <1>1, <1>2, <1>4
    <3>2. nr >= e + e
      <4>1. \A u \in Nat : u > 1 => u * e >= e + e
        BY <1>1
      <4> QED
        BY <4>1
    <3> QED
      BY <1>1, <1>2, <1>7, <3>1, <3>2
  <2> QED
    BY <2>1, <2>2, <2>3 DEF q
<1> QED
  BY <1>5, <1>6, <1>7

\* In k cycles of nr places, each begun at another place, as many blocks begin as there are.
LEMMA BlocksBegun ==
  ASSUME NEW k \in Chase!Positive, NEW g \in Nat, g > 0, NEW e \in Chase!Positive,
         NEW nr, nr = g * e, NEW starts, \A j \in 0..(k - 1) : starts[j] \in 0..(nr - 1),
         NEW begun,
         begun = {m \in 1..(k * nr) :
                    (Turn(starts[(m - 1) \div nr], nr, ((m - 1) % nr) + 1) % e) = 0}
  PROVE  Cardinality(begun) = k * g
<1> DEFINE T == 0..(k * g - 1)
           at(j, y) == Away(starts[j], nr, y * e)
           f == [t \in T |-> (t \div g) * nr + at(t \div g, t % g)]
<1>1. /\ k \in Nat /\ k > 0 /\ e \in Nat /\ e > 0
      /\ nr \in Chase!Positive /\ nr \in Nat /\ nr > 0
      /\ k * nr \in Chase!Positive /\ k * nr \in Nat
      /\ k * g \in Chase!Positive /\ g \in Chase!Positive
  <2>1. k \in Nat /\ k > 0 /\ e \in Nat /\ e > 0 /\ g \in Chase!Positive
    BY DEF Chase!Positive
  <2>2. nr \in Chase!Positive /\ k * g \in Chase!Positive
    BY <2>1, ProductType
  <2>3. k * nr \in Chase!Positive
    BY <2>2, ProductType
  <2> QED
    BY <2>1, <2>2, <2>3 DEF Chase!Positive
<1>2. \A t \in T : /\ t \div g \in 0..(k - 1) /\ (t % g) \in 0..(g - 1)
                   /\ t = (t \div g) * g + (t % g)
  BY <1>1, Quotients
<1>3. \A j \in 0..(k - 1), y \in 0..(g - 1) :
        /\ at(j, y) \in 1..nr /\ Turn(starts[j], nr, at(j, y)) = y * e
        /\ y * e \in 0..(nr - 1) /\ (y * e) \div e = y /\ ((y * e) % e) = 0
  <2> SUFFICES ASSUME NEW j \in 0..(k - 1), NEW y \in 0..(g - 1)
               PROVE  /\ at(j, y) \in 1..nr /\ Turn(starts[j], nr, at(j, y)) = y * e
                      /\ y * e \in 0..(nr - 1) /\ (y * e) \div e = y /\ ((y * e) % e) = 0
    OBVIOUS
  <2>1. y * e + 0 = y * e /\ 0 \in 0..(e - 1)
    <3>1. y * e \in Nat
      BY <1>1
    <3> QED
      BY <1>1, <3>1
  <2>2. /\ y * e + 0 \in 0..(g * e - 1)
        /\ (y * e + 0) \div e = y /\ ((y * e + 0) % e) = 0
    BY <2>1, Quotients
  <2>3. y * e \in 0..(nr - 1)
    BY <2>1, <2>2, Zenon
  <2>4. at(j, y) \in 1..nr /\ Turn(starts[j], nr, at(j, y)) = y * e
    <3> DEFINE x == y * e
               s == starts[j]
    <3>1. x \in 0..(nr - 1) /\ s \in 0..(nr - 1)
      BY <2>3
    <3> HIDE DEF x, s
    <3>2. Away(s, nr, x) \in 1..nr /\ Turn(s, nr, Away(s, nr, x)) = x
      BY <1>1, <3>1, TurnIs
    <3> QED
      BY <3>2 DEF x, s
  <2> QED
    BY <2>1, <2>2, <2>3, <2>4, Zenon
<1>4. \A j \in 0..(k - 1), r \in 1..nr :
        /\ j * nr + r \in 1..(k * nr)
        /\ ((j * nr + r) - 1) \div nr = j /\ ((((j * nr + r) - 1) % nr) + 1) = r
  <2> SUFFICES ASSUME NEW j \in 0..(k - 1), NEW r \in 1..nr
               PROVE  /\ j * nr + r \in 1..(k * nr)
                      /\ ((j * nr + r) - 1) \div nr = j
                      /\ ((((j * nr + r) - 1) % nr) + 1) = r
    OBVIOUS
  <2> DEFINE p == j * nr
             z == k * nr
  <2>1. r - 1 \in 0..(nr - 1) /\ p \in Nat /\ r \in Nat /\ z \in Nat
    BY <1>1
  <2>2. p + (r - 1) \in 0..(z - 1) /\ (p + (r - 1)) \div nr = j /\ ((p + (r - 1)) % nr) = r - 1
    <3>1. \A q \in 0..(k - 1), o \in 0..(nr - 1) :
            /\ q * nr + o \in 0..(k * nr - 1)
            /\ (q * nr + o) \div nr = q /\ ((q * nr + o) % nr) = o
      BY <1>1, Quotients
    <3> QED
      BY <2>1, <3>1, Zenon
  <2> HIDE DEF p, z
  <2>3. (p + r) - 1 = p + (r - 1) /\ p + r \in 1..z
    BY <1>1, <2>1, <2>2
  <2>4. (((p + r) - 1) \div nr) = j /\ ((((p + r) - 1) % nr) + 1) = r
    <3>1. (r - 1) + 1 = r
      BY <2>1
    <3> QED
      BY <2>2, <2>3, <3>1, Zenon
  <2> QED
    BY <2>3, <2>4 DEF p, z
<1>4a. \A j \in 0..(k - 1), r \in 1..nr : \A m : m = j * nr + r =>
         m \in 1..(k * nr) /\ (m - 1) \div nr = j /\ (((m - 1) % nr) + 1) = r
  BY <1>4
<1>5. \A t \in T : f[t] = (t \div g) * nr + at(t \div g, t % g)
  OBVIOUS
<1> HIDE DEF T, at, f
<1>6. \A t \in T : f[t] \in begun
  <2> SUFFICES ASSUME NEW t \in T PROVE f[t] \in begun
    OBVIOUS
  <2> DEFINE j == t \div g
             y == t % g
             r == at(j, y)
  <2>1. j \in 0..(k - 1) /\ y \in 0..(g - 1) /\ f[t] = j * nr + r
    BY <1>2, <1>5
  <2> HIDE DEF j, y
  <2>2. /\ r \in 1..nr /\ Turn(starts[j], nr, r) = y * e /\ ((y * e) % e) = 0
    BY <1>3, <2>1
  <2> HIDE DEF r
  <2>3. /\ f[t] \in 1..(k * nr) /\ (f[t] - 1) \div nr = j /\ (((f[t] - 1) % nr) + 1) = r
    BY <1>4, <2>1, <2>2
  <2> QED
    BY <2>2, <2>3
<1>7. \A t, u \in T : f[t] = f[u] => t = u
  <2> SUFFICES ASSUME NEW t \in T, NEW u \in T, f[t] = f[u] PROVE t = u
    OBVIOUS
  <2> DEFINE j == t \div g
             y == t % g
             l == u \div g
             v == u % g
             r == at(j, y)
             q == at(l, v)
  <2>1. /\ j \in 0..(k - 1) /\ y \in 0..(g - 1) /\ f[t] = j * nr + r /\ t = j * g + y
        /\ l \in 0..(k - 1) /\ v \in 0..(g - 1) /\ f[u] = l * nr + q /\ u = l * g + v
    BY <1>2, <1>5
  <2> HIDE DEF j, y, l, v
  <2>2. /\ r \in 1..nr /\ Turn(starts[j], nr, r) = y * e /\ (y * e) \div e = y
        /\ q \in 1..nr /\ Turn(starts[l], nr, q) = v * e /\ (v * e) \div e = v
    BY <1>3, <2>1
  <2> HIDE DEF r, q
  <2>3. /\ (f[t] - 1) \div nr = j /\ (((f[t] - 1) % nr) + 1) = r
        /\ (f[u] - 1) \div nr = l /\ (((f[u] - 1) % nr) + 1) = q
    <3>1. (f[t] - 1) \div nr = j /\ (((f[t] - 1) % nr) + 1) = r
      <4>1. j \in 0..(k - 1) /\ r \in 1..nr /\ f[t] = j * nr + r
        BY <2>1, <2>2
      <4> QED
        BY <1>4a, <4>1
    <3>2. (f[u] - 1) \div nr = l /\ (((f[u] - 1) % nr) + 1) = q
      BY <1>4a, <2>1, <2>2, Zenon
    <3> QED
      BY <3>1, <3>2
  <2>4. j = l /\ r = q
    BY <2>3
  <2>5. y = v
    BY <2>2, <2>4
  <2> QED
    BY <2>1, <2>4, <2>5
<1>8. \A m \in begun : \E t \in T : f[t] = m
  <2> SUFFICES ASSUME NEW m \in begun PROVE \E t \in T : f[t] = m
    OBVIOUS
  <2> DEFINE j == (m - 1) \div nr
             r == ((m - 1) % nr) + 1
             x == Turn(starts[j], nr, r)
             y == x \div e
             t == j * g + y
  <2>1. m \in 1..(k * nr) /\ (x % e) = 0
    OBVIOUS
  <2>2. m - 1 \in 0..(k * nr - 1)
    <3> DEFINE z == k * nr
    <3>1. z \in Nat /\ m \in 1..z
      BY <1>1, <2>1
    <3> HIDE DEF z
    <3>2. m - 1 \in 0..(z - 1)
      BY <3>1
    <3> QED
      BY <3>2 DEF z
  <2>3. /\ j \in 0..(k - 1) /\ ((m - 1) % nr) \in 0..(nr - 1)
        /\ m - 1 = j * nr + ((m - 1) % nr)
    <3>1. \A o \in 0..(k * nr - 1) :
            /\ o \in Nat /\ o \div nr \in 0..(k - 1) /\ (o % nr) \in 0..(nr - 1)
            /\ o = (o \div nr) * nr + (o % nr)
      <4>1. k \in Nat /\ nr \in Chase!Positive
        BY <1>1
      <4> QED
        BY <4>1, Quotients, Zenon
    <3> QED
      BY <2>2, <3>1, Zenon
  <2>4. r \in 1..nr /\ m = j * nr + r
    <3> DEFINE p == j * nr
               o == (m - 1) % nr
    <3>1. p \in Nat
      BY <1>1, <2>3
    <3> HIDE DEF p, j
    <3>2. o \in 0..(nr - 1) /\ m - 1 = p + o /\ r = o + 1
      BY <2>3 DEF p
    <3> HIDE DEF o, r
    <3>3. r \in 1..nr /\ m = p + r
      BY <1>1, <2>1, <3>1, <3>2
    <3> QED
      BY <3>3 DEF p, r
  <2> HIDE DEF j, r
  <2>5. x \in 0..(nr - 1) /\ Away(starts[j], nr, x) = r
    <3>1. starts[j] \in 0..(nr - 1)
      BY <2>3
    <3>2. r \in 0..nr
      BY <1>1, <2>4
    <3> DEFINE s == starts[j]
    <3> HIDE DEF s
    <3>3. Turn(s, nr, r) \in 0..(nr - 1) /\ Away(s, nr, Turn(s, nr, r)) = r
      <4>1. s \in 0..(nr - 1)
        BY <3>1 DEF s
      <4> QED
        <5>1. nr \in Chase!Positive /\ r \in 1..nr
          BY <1>1, <2>4
        <5>2. /\ \A q \in 0..nr : Turn(s, nr, q) \in 0..(nr - 1)
              /\ \A q \in 1..nr : Away(s, nr, Turn(s, nr, q)) = q
          BY ONLY <4>1, <5>1, TurnIs
        <5> QED
          BY <3>2, <5>1, <5>2, Zenon
    <3> QED
      BY <3>3 DEF s
  <2> HIDE DEF x
  <2>6. y \in 0..(g - 1) /\ x = y * e + (x % e)
    BY <2>5, Quotients
  <2> HIDE DEF y
  <2>7. x = y * e
    <3>1. y * e \in Nat
      BY <1>1, <2>6
    <3> QED
      BY <2>1, <2>6, <3>1
  <2>8. t \in T /\ t \div g = j /\ (t % g) = y
    <3>1. \A l \in 0..(k - 1), o \in 0..(g - 1) :
            /\ l * g + o \in 0..(k * g - 1)
            /\ (l * g + o) \div g = l /\ ((l * g + o) % g) = o
      <4>1. k \in Nat /\ g \in Chase!Positive
        BY <1>1
      <4> QED
        BY <4>1, Quotients, Zenon
    <3> QED
      BY <2>3, <2>6, <3>1, Zenon DEF T
  <2>9. at(j, y) = r
    BY <2>5, <2>7 DEF at
  <2>10. f[t] = m
    <3> HIDE DEF t
    <3> QED
      BY <1>5, <2>4, <2>8, <2>9
  <2> QED
    BY <2>8, <2>10
<1>9. begun = {f[t] : t \in T}
  BY <1>6, <1>8
<1>10. IsFiniteSet(T) /\ Cardinality(T) = k * g
  BY <1>1, IntervalCount DEF T
<1>11. Cardinality({f[t] : t \in T}) = Cardinality(T)
  BY <1>7, <1>10, ImageCount
<1> QED
  BY <1>9, <1>10, <1>11

\* A permutation has element 0 somewhere.
LEMMA StartIs ==
  ASSUME NEW nr \in Chase!Positive, NEW p, IsPerm(p, nr)
  PROVE  Start(p) \in 0..(nr - 1) /\ p[Start(p)] = 0
<1>1. DOMAIN p = 0..(nr - 1) /\ \E x \in DOMAIN p : p[x] = 0
  <2>1. 0 \in 0..(nr - 1)
    BY DEF Chase!Positive
  <2> QED
    BY <2>1 DEF IsPerm
<1> QED
  BY <1>1 DEF Start

\* The elements of a turned permutation, by their places.
LEMMA ElemIs ==
  ASSUME NEW nr \in Chase!Positive, NEW p, IsPerm(p, nr), NEW q \in 0..(nr - 1)
  PROVE  ElemAt(p, nr, q) = p[Turn(Start(p), nr, q)]
<1>1. Start(p) \in 0..(nr - 1)
  BY StartIs
<1> DEFINE s == Start(p)
<1> HIDE DEF s
<1>2. ((s + q) % nr) = IF s + q < nr THEN s + q ELSE (s + q) - nr
  BY <1>1, Remainders DEF s
<1>3. ((Start(p) + q) % nr) = Turn(Start(p), nr, q)
  BY <1>2, Zenon DEF Turn, s
<1> QED
  BY <1>3, Zenon DEF ElemAt

\* The elements of a step of a lap and of the next are neighbours in a permutation.
LEMMA StepElems ==
  ASSUME NEW a, NEW mx, Mixable(a, mx), NEW row, NEW iters, NEW perms,
         IsPlan(a, row, iters, perms), NEW k \in 1..LapLength(a, iters),
         NEW nr, nr = Chase!NrElts(a),
         NEW j, j = (k - 1) \div nr, NEW q, q = (k - 1) % nr
  PROVE  /\ j \in 0..(iters - 1) /\ q \in 0..(nr - 1) /\ k - 1 \in Steps(a, iters)
         /\ LapElem(a, perms, k - 1) = perms[j][Turn(Start(perms[j]), nr, q)]
         /\ (IF k = LapLength(a, iters) THEN 0 ELSE k) \in Steps(a, iters)
         /\ LapElem(a, perms, IF k = LapLength(a, iters) THEN 0 ELSE k)
              = perms[j][Turn(Start(perms[j]), nr, q + 1)]
<1> DEFINE len == LapLength(a, iters)
           next == IF k = len THEN 0 ELSE k
<1>1. /\ nr \in Chase!Positive /\ iters \in Nat /\ len \in Chase!Positive
      /\ \A l \in 0..(iters - 1) : IsPerm(perms[l], nr)
  BY LapParts
<1>2. len = iters * nr /\ Steps(a, iters) = 0..(len - 1)
  BY DEF LapLength, Steps
<1> HIDE DEF len
<1>3. k - 1 \in 0..(len - 1) /\ next \in 0..(len - 1) /\ k \in Nat /\ len \in Nat /\ nr \in Nat
  BY <1>1 DEF Chase!Positive, len
<1>4. /\ \A l \in 0..(iters - 1), o \in 0..(nr - 1) :
           /\ l * nr + o \in 0..(len - 1)
           /\ (l * nr + o) \div nr = l /\ ((l * nr + o) % nr) = o
      /\ \A x \in 0..(len - 1) : /\ x \in Nat /\ x \div nr \in 0..(iters - 1)
                                 /\ (x % nr) \in 0..(nr - 1)
                                 /\ x = (x \div nr) * nr + (x % nr)
  <2>1. iters \in Nat /\ nr \in Chase!Positive
    BY <1>1
  <2>2. /\ \A l \in 0..(iters - 1), o \in 0..(nr - 1) :
             /\ l * nr + o \in 0..(iters * nr - 1)
             /\ (l * nr + o) \div nr = l /\ ((l * nr + o) % nr) = o
        /\ \A x \in 0..(iters * nr - 1) :
             /\ x \in Nat /\ x \div nr \in 0..(iters - 1)
             /\ (x % nr) \in 0..(nr - 1) /\ x = (x \div nr) * nr + (x % nr)
    BY ONLY <2>1, Quotients
  <2> QED
    BY <1>2, <2>2, Zenon
<1>5. j \in 0..(iters - 1) /\ q \in 0..(nr - 1) /\ k - 1 = j * nr + q
  BY <1>3, <1>4
<1> DEFINE p == perms[j]
<1>6. IsPerm(p, nr)
  BY <1>1, <1>5
<1>7. LapElem(a, perms, k - 1) = p[Turn(Start(p), nr, q)]
  <2>1. LapElem(a, perms, k - 1) = ElemAt(p, nr, q)
    BY DEF LapElem
  <2> HIDE DEF p
  <2> QED
    BY <1>1, <1>5, <1>6, <2>1, ElemIs
<1>8. ASSUME NEW l \in 0..(iters - 1), NEW o \in 0..(nr - 1), next = l * nr + o
      PROVE  LapElem(a, perms, next) = ElemAt(perms[l], nr, o)
  <2> HIDE DEF next
  <2>1. next \div nr = l /\ (next % nr) = o
    BY <1>4, <1>8
  <2> QED
    BY <2>1 DEF LapElem
<1>9. LapElem(a, perms, next) = p[Turn(Start(p), nr, q + 1)]
  <2>1. CASE q + 1 # nr
    <3>1. q + 1 \in 0..(nr - 1) /\ j * nr \in Nat
      BY ONLY <1>3, <1>5, <2>1
    <3>2. k = j * nr + (q + 1)
      BY ONLY <1>3, <1>5, <3>1
    <3>3. j * nr + (q + 1) \in 0..(len - 1)
      BY <1>4, <1>5, <3>1
    <3>4. next = j * nr + (q + 1)
      BY <1>3, <3>2, <3>3
    <3>5. LapElem(a, perms, next) = ElemAt(p, nr, q + 1)
      <4> HIDE DEF next
      <4> QED
        BY <1>5, <1>8, <3>1, <3>4
    <3> HIDE DEF p, next
    <3> QED
      BY <1>1, <1>6, <3>1, <3>5, ElemIs
  <2>2. CASE q + 1 = nr
    <3>1. p[Turn(Start(p), nr, q + 1)] = 0
      <4> HIDE DEF p
      <4>1. Start(p) \in 0..(nr - 1) /\ p[Start(p)] = 0
        BY <1>1, <1>6, StartIs
      <4>2. Turn(Start(p), nr, nr) = Start(p)
        BY <1>1, <4>1, TurnIs
      <4> QED
        BY <2>2, <4>1, <4>2
    <3>2. \E l \in 0..(iters - 1) : next = l * nr + 0
      <4>1. \A u, v \in Nat : (u + 1) * v = u * v + v /\ 0 * v = 0 /\ u * v \in Nat
        OBVIOUS
      <4>2. j \in Nat /\ j * nr \in Nat /\ (j + 1) * nr = j * nr + nr /\ 0 * nr = 0
        BY ONLY <1>3, <1>5, <4>1
      <4>3. k = (j + 1) * nr
        BY ONLY <1>3, <1>5, <2>2, <4>2
      <4>4. CASE j + 1 = iters
        <5>1. k = len
          BY <1>2, <4>3, <4>4
        <5>2. next = 0 * nr + 0 /\ 0 \in 0..(iters - 1)
          BY ONLY <1>1, <1>5, <4>2, <5>1 DEF next
        <5> QED
          BY <5>2
      <4>5. CASE j + 1 # iters
        <5>1. j + 1 \in 0..(iters - 1) /\ 0 \in 0..(nr - 1)
          BY ONLY <1>1, <1>3, <1>5, <4>5
        <5>2. (j + 1) * nr + 0 \in 0..(len - 1)
          BY <1>4, <5>1
        <5>3. (j + 1) * nr \in Nat
          BY <1>3, <4>2
        <5>4. next = (j + 1) * nr + 0
          BY <1>3, <4>3, <5>2, <5>3
        <5> QED
          BY <5>1, <5>4
      <4> QED
        BY <4>4, <4>5
    <3>3. PICK l \in 0..(iters - 1) : next = l * nr + 0
      BY <3>2
    <3>4. 0 \in 0..(nr - 1)
      BY ONLY <1>1 DEF Chase!Positive
    <3>5. LapElem(a, perms, next) = ElemAt(perms[l], nr, 0)
      <4> HIDE DEF next
      <4> QED
        BY <1>8, <3>3, <3>4
    <3>6. ElemAt(perms[l], nr, 0) = 0
      <4> DEFINE z == perms[l]
      <4>1. IsPerm(z, nr)
        BY <1>1
      <4> HIDE DEF z
      <4>2. ElemAt(z, nr, 0) = 0
        BY <1>1, <4>1, Turned
      <4> QED
        BY <4>2 DEF z
    <3> QED
      BY <3>1, <3>5, <3>6, Zenon
  <2> QED
    BY <2>1, <2>2
<1> QED
  BY <1>2, <1>3, <1>5, <1>7, <1>9, Zenon DEF len

\* A step of a lap enters a group where a place of its permutation begins one.
LEMMA GroupEntries ==
  ASSUME NEW a, NEW mx, Mixable(a, mx), NEW row, NEW iters, NEW perms,
         IsPlan(a, row, iters, perms), NEW g, g = Chase!NrGroups(a), g > 1,
         NEW e, e = Chase!PerGroup(a), NEW nr, nr = Chase!NrElts(a),
         NEW k \in 1..LapLength(a, iters),
         NEW j, j = (k - 1) \div nr, NEW q, q = (k - 1) % nr
  PROVE  /\ j \in 0..(iters - 1)
         /\ LapElem(a, perms, IF k = LapLength(a, iters) THEN 0 ELSE k) \div e
              # LapElem(a, perms, k - 1) \div e
              <=> (Turn(Start(perms[j]), nr, q + 1) % e) = 0
<1> DEFINE p == perms[j]
           next == IF k = LapLength(a, iters) THEN 0 ELSE k
           s == Start(p)
           x == Turn(s, nr, q)
           y == Turn(s, nr, q + 1)
<1>1. /\ j \in 0..(iters - 1) /\ q \in 0..(nr - 1)
      /\ LapElem(a, perms, k - 1) = p[x] /\ LapElem(a, perms, next) = p[y]
  BY StepElems
<1>2. /\ nr \in Chase!Positive /\ g \in Nat /\ e \in Chase!Positive /\ nr = g * e
      /\ Chase!IsRequest(a) /\ Sized(a)
  BY Sizes DEF Mixable, Chase!Positive
<1>3. IsPerm(p, nr) /\ p \in Chase!Grouped(a)
  BY <1>1, LapParts DEF IsPlan
<1> HIDE DEF p, next
<1>4. s \in 0..(nr - 1)
  BY <1>2, <1>3, StartIs
<1>5. q \in 0..nr /\ q + 1 \in 0..nr /\ q + 1 \in 1..nr /\ (q + 1) - 1 = q
  BY ONLY <1>1, <1>2 DEF Chase!Positive
<1> HIDE DEF s
<1>6. x \in 0..(nr - 1) /\ y \in 0..(nr - 1) /\ y = Chase!NextIndex(x, nr)
  <2>1. /\ \A r \in 0..nr : Turn(s, nr, r) \in 0..(nr - 1)
        /\ \A r \in 1..nr : Turn(s, nr, r) = Chase!NextIndex(Turn(s, nr, r - 1), nr)
    <3>1. nr \in Chase!Positive
      BY <1>2
    <3> QED
      BY ONLY <1>4, <3>1, TurnIs
  <2>2. y = Chase!NextIndex(Turn(s, nr, (q + 1) - 1), nr)
    BY <1>5, <2>1, Zenon
  <2> QED
    BY <1>5, <2>1, <2>2, Zenon
<1> HIDE DEF x, y
<1>7. x \div e # y \div e <=> (y % e) = 0
  <2>1. x \div e # Chase!NextIndex(x, nr) \div e <=> (Chase!NextIndex(x, nr) % e) = 0
    BY <1>2, <1>6, BlockChanges
  <2> QED
    BY <1>6, <2>1, Zenon
<1>8. x \div e = y \div e <=> p[x] \div e = p[y] \div e
  <2>1. \A u, v \in 0..(Chase!NrElts(a) - 1) :
          u \div Chase!PerGroup(a) = v \div Chase!PerGroup(a)
            <=> p[u] \div Chase!PerGroup(a) = p[v] \div Chase!PerGroup(a)
    BY <1>2, <1>3, GroupedPerms
  <2> QED
    BY <1>6, <2>1, Zenon
<1> QED
  BY <1>1, <1>7, <1>8, Zenon DEF next, p, s, y

\* Each group is entered once a permutation.
LEMMA GroupsOnce == ChaseInv => Chase!GroupsVisitedOnce
<1> SUFFICES ASSUME ChaseInv, args.chase = "plain", NEW c \in DOMAIN first,
                    NEW w, w = Chase!Walk(arena, first[c], Chase!Lap(c)),
                    NEW begun, begun = {k \in 1..Chase!Lap(c) :
                                          w[k] \div args.tlb # w[k - 1] \div args.tlb}
             PROVE  Chase!Cardinality(begun)
                      = Chase!Iterations * (IF Chase!NrGroups(args) = 1 THEN 0
                                            ELSE Chase!NrGroups(args))
  BY Zenon DEF Chase!GroupsVisitedOnce
<1> DEFINE it == ChaseIters(args)
           row == FirstRow(args, c)
           len == LapLength(args, it)
           g == Chase!NrGroups(args)
           e == Chase!PerGroup(args)
           nr == Chase!NrElts(args)
<1>1. PICK perms : MadeFrom(args, mixer, arena, stops, c, perms)
  BY ChaseOf
<1>2. Mixable(args, mixer) /\ IsPlan(args, row, it, perms)
  BY <1>1, ChaseOf DEF MadeFrom
<1> DEFINE elem(k) == LapElem(args, perms, k)
           next(k) == IF k = len THEN 0 ELSE k
<1>3. /\ Chase!Lap(c) = len
      /\ \A k \in 0..len : w[k] = LapAt(args, mixer, row, perms, next(k))
  BY <1>1, PlainLap
<1>4. /\ len \in Chase!Positive /\ it \in Chase!Positive /\ len = it * nr
      /\ Steps(args, it) = 0..(len - 1)
      /\ nr \in Chase!Positive /\ g \in Chase!Positive /\ e \in Chase!Positive /\ nr = g * e
      /\ \A j \in 0..(it - 1) : IsPerm(perms[j], nr)
      /\ \A m \in Steps(args, it) : elem(m) \in 0..(nr - 1)
  BY <1>2, LapParts, Sizes DEF Mixable, IsPlan, LapLength, Steps, Elements
<1>5. \A m \in Steps(args, it) :
        LapAt(args, mixer, row, perms, m) \div args.tlb = elem(m) \div e
  <2> SUFFICES ASSUME NEW m \in Steps(args, it)
               PROVE  LapAt(args, mixer, row, perms, m) \div args.tlb = elem(m) \div e
    OBVIOUS
  <2> DEFINE u == LapAt(args, mixer, row, perms, m)
             z == args.stride
  <2>1. LapElem(args, perms, m) \in Elements(args) /\ LapRow(args, row, m) \in Rows(args)
    BY <1>2, LapParts
  <2>2. u \in Nat
    BY <1>2, <2>1, Slots DEF LapAt
  <2>3. 0 \in 0..(args.base - 1) /\ z \in Chase!Positive
    BY <1>2 DEF Mixable, Chase!IsRequest, Chase!Positive
  <2>4. (u + 0) \div z = elem(m)
    BY <1>2, <2>1, <2>3, SlotWords DEF LapAt
  <2>5. args.tlb = e * z
    BY <1>2, Sizes DEF Mixable
  <2> HIDE DEF u, z, e, elem
  <2>6. u + 0 = u
    BY <2>2
  <2>7. u \div (e * z) = (u \div z) \div e
    BY <1>4, <2>2, <2>3, DivTwice
  <2> QED
    BY <2>4, <2>5, <2>6, <2>7, Zenon DEF u
<1> HIDE DEF len, elem
<1>6. \A k \in 1..len : /\ k \in 0..len /\ k - 1 \in 0..len /\ next(k - 1) = k - 1
                        /\ k - 1 \in Steps(args, it) /\ next(k) \in Steps(args, it)
  BY <1>4 DEF Chase!Positive
<1>7. \A k \in 1..len : /\ w[k] \div args.tlb = elem(next(k)) \div e
                        /\ w[k - 1] \div args.tlb = elem(k - 1) \div e
  <2> SUFFICES ASSUME NEW k \in 1..len
               PROVE  /\ w[k] \div args.tlb = elem(next(k)) \div e
                      /\ w[k - 1] \div args.tlb = elem(k - 1) \div e
    OBVIOUS
  <2>1. /\ k \in 0..len /\ k - 1 \in 0..len /\ next(k - 1) = k - 1
        /\ k - 1 \in Steps(args, it) /\ next(k) \in Steps(args, it)
    BY <1>6
  <2> HIDE DEF next
  <2>2. w[k] = LapAt(args, mixer, row, perms, next(k))
        /\ w[k - 1] = LapAt(args, mixer, row, perms, k - 1)
    BY <1>3, <2>1
  <2> QED
    BY <1>5, <2>1, <2>2, Zenon
<1>8. begun = {k \in 1..len : elem(next(k)) \div e # elem(k - 1) \div e}
  <2>1. begun = {k \in 1..len : w[k] \div args.tlb # w[k - 1] \div args.tlb}
    BY <1>3
  <2> HIDE DEF next
  <2> QED
    BY <1>7, <2>1
<1>9. Chase!Iterations = it
  BY DEF Chase!Iterations, ChaseIters
<1>10. CASE g = 1
  <2>1. nr = e
    <3>1. \A u \in Nat : 1 * u = u
      OBVIOUS
    <3> QED
      BY <1>4, <1>10, <3>1 DEF Chase!Positive
  <2>2. \A x \in 0..(e - 1) : x \div e = 0
    <3> HIDE DEF e
    <3> SUFFICES ASSUME NEW x \in 0..(e - 1) PROVE x \div e = 0
      OBVIOUS
    <3>1. (0 * e + x) \div e = 0
      BY <1>4, DivOf
    <3>2. 0 * e + x = x
      BY <1>4 DEF Chase!Positive
    <3> QED
      BY <3>1, <3>2
  <2>3. \A m \in Steps(args, it) : elem(m) \div e = 0
    BY <1>4, <2>1, <2>2
  <2>4. begun = {}
    <3> HIDE DEF next
    <3> QED
      BY <1>6, <1>8, <2>3
  <2>5. Cardinality({}) = 0
    BY FS_EmptySet
  <2>6. it * 0 = 0
    BY <1>4 DEF Chase!Positive
  <2> QED
    BY <1>9, <1>10, <2>4, <2>5, <2>6, SameCardinality, Zenon
<1>11. CASE g # 1
  <2> DEFINE starts == [j \in 0..(it - 1) |-> Start(perms[j])]
  <2>1. g \in Nat /\ g > 1 /\ g > 0
    BY <1>4, <1>11 DEF Chase!Positive
  <2>2. \A j \in 0..(it - 1) : starts[j] = Start(perms[j]) /\ starts[j] \in 0..(nr - 1)
    <3> SUFFICES ASSUME NEW j \in 0..(it - 1)
                 PROVE  starts[j] = Start(perms[j]) /\ starts[j] \in 0..(nr - 1)
      OBVIOUS
    <3>1. IsPerm(perms[j], nr) /\ nr \in Chase!Positive
      BY <1>4
    <3>2. Start(perms[j]) \in 0..(nr - 1)
      BY <3>1, StartIs
    <3> QED
      BY <3>2
  <2> HIDE DEF starts
  <2>3. ASSUME NEW k \in 1..len
        PROVE  elem(next(k)) \div e # elem(k - 1) \div e
                 <=> (Turn(starts[(k - 1) \div nr], nr, ((k - 1) % nr) + 1) % e) = 0
    <3>1. /\ (k - 1) \div nr \in 0..(it - 1)
          /\ elem(next(k)) \div e # elem(k - 1) \div e
               <=> (Turn(Start(perms[(k - 1) \div nr]), nr, ((k - 1) % nr) + 1) % e) = 0
      BY <1>2, <2>1, GroupEntries DEF elem, len
    <3> QED
      BY <2>2, <3>1, Zenon
  <2> HIDE DEF next, g, e, nr, it
  <2>4. begun = {k \in 1..(it * nr) :
                   (Turn(starts[(k - 1) \div nr], nr, ((k - 1) % nr) + 1) % e) = 0}
    BY <1>4, <1>8, <2>3
  <2>5. Cardinality(begun) = it * g
    <3>1. /\ it \in Chase!Positive /\ g \in Nat /\ g > 0 /\ e \in Chase!Positive
          /\ nr = g * e /\ \A j \in 0..(it - 1) : starts[j] \in 0..(nr - 1)
      BY <1>4, <2>1, <2>2
    <3> QED
      BY ONLY <2>4, <3>1, BlocksBegun
  <2> QED
    BY <1>9, <1>11, <2>5, SameCardinality, Zenon DEF g
<1> QED
  BY <1>10, <1>11

-----------------------------------------------------------------------------
(* The rows of the mixer *)

\* The rows of a chase are in the table, but for the long chases of multiload.
LEMMA RowsFit ==
  ASSUME NEW a, NEW mx, Mixable(a, mx), Chase!Fits(a), NEW c \in 0..(Chase!NrChases(a) - 1),
         ~(a.long /\ a.program = "multiload")
  PROVE  FirstRow(a, c) + ChaseIters(a) <= Chase!Indices(a)
<1> DEFINE nr == Chase!NrChases(a)
           it == ChaseIters(a)
<1>1. it \in Chase!Positive /\ it \in Nat
  BY PlanOf DEF Chase!Positive
<1>2. Chase!Indices(a) \in Nat /\ nr <= Chase!Indices(a) /\ nr \in Chase!Positive
  <2>1. nr \in Chase!Positive
    BY ProductType DEF Chase!NrChases, Mixable, Chase!IsRequest
  <2> QED
    BY <2>1, Room DEF Mixable, Chase!Fits, Chase!Positive
<1>3. nr * it <= Chase!Indices(a)
  <2>1. CASE ~a.long
    <3>1. it = 1
      BY <2>1 DEF ChaseIters
    <3> HIDE DEF nr
    <3>2. nr * 1 = nr
      BY <1>2 DEF Chase!Positive
    <3> QED
      BY <1>2, <3>1, <3>2
  <2>2. CASE a.long
    <3>1. it = Chase!Indices(a) \div nr
      <4>1. a.program = "multichase"
        BY <2>2 DEF Mixable, Chase!IsRequest
      <4> QED
        BY <2>2, <4>1 DEF ChaseIters, Chase!NrIterations
    <3> HIDE DEF nr, it
    <3> DEFINE x == Chase!Indices(a)
    <3>2. x \in Nat
      BY <1>2
    <3> HIDE DEF x
    <3>3. x \div nr \in Nat /\ (x % nr) \in 0..(nr - 1) /\ x = nr * (x \div nr) + (x % nr)
      BY <1>2, <3>2, DivMod
    <3>4. it = x \div nr
      BY <3>1 DEF x
    <3>5. nr * it \in Nat
      BY <1>1, <1>2 DEF Chase!Positive
    <3>6. x = nr * it + (x % nr)
      BY <3>3, <3>4
    <3>7. nr * it <= x
      BY <3>2, <3>3, <3>5, <3>6
    <3> QED
      BY <3>7 DEF x
  <2> QED
    BY <2>1, <2>2
<1>4. (c + 1) * it <= nr * it /\ (c + 1) * it = c * it + it /\ c * it \in Nat
  <2> HIDE DEF nr, it
  <2>1. c \in Nat /\ c + 1 <= nr /\ nr \in Nat
    <3>1. c \in 0..(nr - 1)
      BY DEF nr
    <3> QED
      BY <1>2, <3>1 DEF Chase!Positive
  <2>2. \A u, v, w \in Nat : (u <= v => u * w <= v * w) /\ (u + 1) * w = u * w + w /\ u * w \in Nat
    OBVIOUS
  <2> QED
    BY <1>1, <2>1, <2>2
<1> HIDE DEF it, nr
<1>5. c * it + it <= Chase!Indices(a)
  <2> DEFINE p == c * it
             z == nr * it
  <2>1. z \in Nat
    BY <1>1, <1>2 DEF Chase!Positive
  <2>2. p \in Nat /\ p + it <= z /\ z <= Chase!Indices(a)
    BY <1>3, <1>4
  <2> HIDE DEF p, z
  <2>3. p + it <= Chase!Indices(a)
    BY <1>1, <1>2, <2>1, <2>2
  <2> QED
    BY <2>3 DEF p
<1> QED
  BY <1>5 DEF FirstRow, Chase!Row, it

\* A thread runs out of the table in a long chase of multiload only.
RowsInv == gpc = "overrun" => args.long /\ args.program = "multiload"

\* No other step leaves the table.
LEMMA RowsStep == ChaseInv /\ RowsInv /\ [Chase!Next]_(Chase!chaseVars) => RowsInv'
<1> SUFFICES ASSUME ChaseInv, RowsInv, [Chase!Next]_(Chase!chaseVars), gpc' = "overrun"
             PROVE  args'.long /\ args'.program = "multiload"
  BY DEF RowsInv
<1>1. CASE Chase!Sanity
  BY <1>1 DEF Chase!Sanity
<1>2. CASE Chase!GenerateMixer
  BY <1>2 DEF Chase!GenerateMixer
<1>3. ASSUME NEW c \in Chase!Chases, Chase!Generate(c)
      PROVE  args'.long /\ args'.program = "multiload"
  <2>1. gpc = "generate" /\ args' = args /\ c \notin DOMAIN first
    BY <1>3 DEF Chase!Generate
  <2>2. Mixable(args, mixer) /\ Chase!Fits(args) /\ c \in 0..(Chase!NrChases(args) - 1)
    BY <2>1 DEF ChaseInv, Chase!Chases
  <2>3. FirstRow(args, c) + ChaseIters(args) > Chase!Indices(args)
    <3> SUFFICES ASSUME ~(FirstRow(args, c) + ChaseIters(args) > Chase!Indices(args))
                 PROVE  FALSE
      OBVIOUS
    <3>1. \E links : gpc' = IF args.long /\ DOMAIN links \cap DOMAIN arena # {} THEN "aborted"
                    ELSE IF args.chase = "branch" /\ {at + 1 : at \in DOMAIN links} \cap
                                        (DOMAIN links \union DOMAIN arena) # {} THEN "exit"
                    ELSE IF Chase!Cardinality(DOMAIN first) + 1 = Chase!NrChases(args) THEN "done"
                    ELSE gpc
      BY <1>3, Zenon DEF Chase!Generate, FirstRow, ChaseIters
    <3> QED
      BY <2>1, <3>1
  <2>4. FirstRow(args, c) + ChaseIters(args) \in Nat /\ Chase!Indices(args) \in Nat
    BY <2>2, PlanOf, Room DEF Mixable, Chase!Positive
  <2>5. args.long /\ args.program = "multiload"
    <3> SUFFICES ASSUME ~(args.long /\ args.program = "multiload") PROVE FALSE
      OBVIOUS
    <3>1. FirstRow(args, c) + ChaseIters(args) <= Chase!Indices(args)
      BY <2>2, RowsFit
    <3> DEFINE z == FirstRow(args, c) + ChaseIters(args)
    <3> HIDE DEF z
    <3> QED
      BY <2>3, <2>4, <3>1 DEF z
  <2> QED
    BY <2>1, <2>5
<1>4. CASE UNCHANGED Chase!chaseVars
  BY <1>4 DEF Chase!chaseVars, RowsInv
<1> QED
  BY <1>1, <1>2, <1>3, <1>4 DEF Chase!Next

\* What is asserted when a chase is generated holds, but for the long chases of multiload.
THEOREM RowsInvariance ==
  Chase!Spec => [](Chase!RowsInTable \/ (args.long /\ args.program = "multiload"))
<1>1. Chase!Init => RowsInv
  BY DEF Chase!Init, RowsInv
<1>2. ChaseInv /\ RowsInv => Chase!RowsInTable \/ (args.long /\ args.program = "multiload")
  BY DEF ChaseInv, RowsInv, Chase!RowsInTable
<1> QED
  BY <1>1, <1>2, RowsStep, ChaseInvariance, PTL DEF Chase!Spec

-----------------------------------------------------------------------------
(* The run *)

\* A run of multichase is a behaviour of its barrier and one of its sampling, whose
\* steps wait for the barrier (multichase.c:904-909, 928).
THEOREM RunImplementsParts == RunSpec => Spec /\ Sampling!Spec
<1>1. RunInit => Init /\ Sampling!Init
  BY DEF RunInit
<1>2. [RunNext]_runVars => [Next]_vars
  BY DEF RunNext, runVars, BarrierStep, MainSamples, Chasing
<1>3. [RunNext]_runVars => [Sampling!Next]_(Sampling!chaseVars)
  BY DEF RunNext, runVars, chaseVars, Sampling!chaseVars, BarrierStep, MainSamples, Chasing,
         Sampling!Next, Threads, Sampling!Threads
<1>4. RunSpec => Spec
  BY <1>1, <1>2, PTL DEF RunSpec, Spec
<1>5. RunSpec => Sampling!Spec
  BY <1>1, <1>3, PTL DEF RunSpec, Sampling!Spec
<1> QED
  BY <1>4, <1>5

\* The run of MCMultichase is one of multichase or one of generating chases.
LEMMA EachPart == MCSpec => RunSpec /\ Chase!Spec
<1>1. MCInit => RunInit /\ Chase!Init
  BY DEF MCInit
<1>2. [MCNext]_allVars => [RunNext]_runVars
  BY DEF MCNext, allVars
<1>3. [MCNext]_allVars => [Chase!Next]_(Chase!chaseVars)
  BY DEF MCNext, allVars, genVars, Chase!chaseVars
<1>4. MCSpec => RunSpec
  BY <1>1, <1>2, PTL DEF MCSpec, RunSpec
<1>5. MCSpec => Chase!Spec
  BY <1>1, <1>3, PTL DEF MCSpec, Chase!Spec
<1> QED
  BY <1>4, <1>5

\* Every dereference a thread makes is in one sample, whenever main exchanges its
\* counter and however many threads, rounds and samples there are
\* (multichase.c:928-932, 951).
THEOREM DereferencesOfTheRun == MCSpec => []DereferencesCountedOnce
<1>1. SamplingInv => DereferencesCountedOnce
  BY DEF SamplingInv, DereferencesCountedOnce
<1> QED
  BY <1>1, SamplingInvariance, RunImplementsParts, EachPart, PTL

\* Without spurious wakeups nobody chases or samples before every thread has generated
\* its chases and a branch chase is executable (multichase.c:528-545, 904-909).
THEOREM StartOfTheRun == ~Spurious => (MCSpec => []NoEarlyStart)
<1> SUFFICES ASSUME ~Spurious PROVE MCSpec => []NoEarlyStart
  OBVIOUS
<1>1. Spec => []NoEarlyStart
  BY StartsTogether
<1> QED
  BY <1>1, RunImplementsParts, EachPart, PTL

\* Nobody sleeps at the barrier of the run once its counter is zero
\* (multichase.c:537-541).
THEOREM WakeupsOfTheRun == MCSpec => []NoLostWakeup
  BY WakeupsKept, RunImplementsParts, EachPart, PTL

\* Two chases, or two elements of one, never share a slot, for every size, stride, number
\* of threads, parallelism and chase, and whatever the mixer and the permutations
\* (permutation.h:28-46, permutation.c:136-307).
THEOREM SlotsOfTheRun == MCSpec => []SlotsDisjoint
<1>1. ChaseInv => SlotsDisjoint
  BY ApartSlots DEF SlotsDisjoint
<1> QED
  BY <1>1, ChaseInvariance, EachPart, PTL

\* A lap of any chase visits each of its words once and ends where it began; each
\* permutation of a long chase is visited to its end before the next
\* (permutation.c:181-187, 195-197, 279-301, multichase.c:432-513).
THEOREM CyclesOfTheRun == MCSpec => []OneCycle
<1>1. ChaseInv => OneCycle
  BY CycleIsOne DEF OneCycle
<1> QED
  BY <1>1, ChaseInvariance, EachPart, PTL

\* Each permutation of a lap enters each TLB group once, wherever the lap begins
\* (permutation.h:50-51, permutation.c:88-133).
THEOREM GroupsOfTheRun == MCSpec => []GroupsVisitedOnce
<1>1. ChaseInv => GroupsVisitedOnce
  BY GroupsOnce DEF GroupsVisitedOnce
<1> QED
  BY <1>1, ChaseInvariance, EachPart, PTL

\* The chunks of a branch chase, of any length and for any chunk size asked of it, are
\* of the size main counts with or one longer, and the last ends the lap
\* (br_asm.c:44-46, 109-140, multichase.c:202).
THEOREM ChunksOfTheRun == MCSpec => []ChunksAreEven
<1>1. ChaseInv => ChunksAreEven
  BY EvenChunks DEF ChunksAreEven
<1> QED
  BY <1>1, ChaseInvariance, EachPart, PTL

\* No assertion about the mixer or the slots fails but in a long chase of multiload
\* (permutation.c:207, 282, multiload.c:684-687).
THEOREM RowsOfTheRun ==
  MCSpec => [](RowsInTable \/ (args.long /\ args.program = "multiload"))
<1>1. Chase!RowsInTable <=> RowsInTable
  BY DEF RowsInTable
<1> QED
  BY <1>1, RowsInvariance, EachPart, PTL

\* All parts keep their types; in particular no thread writes outside the arena.
THEOREM TypesOfTheRun == MCSpec => []MCTypeOK
<1>1. Spec => []TypeOK
  BY TypeCorrect
<1>2. Sampling!Spec => []Sampling!TypeOK
  BY SamplingInvariance, SamplingTypes, PTL
<1>3. Chase!Spec => []Chase!TypeOK
  BY ChaseInvariance, ChaseTypes, PTL
<1>4. TypeOK /\ Sampling!TypeOK /\ Chase!TypeOK => MCTypeOK
  BY DEF MCTypeOK
<1> QED
  BY <1>1, <1>2, <1>3, <1>4, RunImplementsParts, EachPart, PTL

=============================================================================
