--------------------------- MODULE Campaign_proofs ---------------------------
(***************************************************************************)
(* Proofs about the three parts of MCCampaign: Campaign, for every number  *)
(* of phases and workers, and for all durations; Schedule, for every       *)
(* number of devices; and, from GateWave_proofs, the waves.                *)
(*                                                                         *)
(* The loop: the counters of main are tied to the files of the phases      *)
(* before the current one (CountInv); what the current one says is tied to *)
(* the phase (PhaseInv), whose contract says how it may end.               *)
(*                                                                         *)
(* The plan: after every pass the rows are those of Pass for the passes so *)
(* far, each at the place that its repeat, its index and its position in   *)
(* the pass give it (PlanInv); no two phases have the same place, and the  *)
(* rest is counting.                                                       *)
(***************************************************************************)
EXTENDS MCCampaign, FiniteSetTheorems, FunctionTheorems, SequenceTheorems, TLAPS

\* Where main is before it has written campaign_status.json.
Counting == {"preflight", "loop", "phase", "returned", "publish", "publishing"}

FailedBefore == {j \in Plan : j < current /\ files[j] = "failed"}

CountInv ==
  mpc \in Counting =>
    /\ executed = current - 1 /\ failures <= executed
    /\ failures = Cardinality(FailedBefore)
    /\ \A j \in Plan : /\ j < current => files[j] # "none"
                       /\ j > current => files[j] = "none"
                       /\ j = current /\ mpc \notin {"phase", "returned"} => files[j] = "none"

PhaseInv ==
  /\ mpc \in {"phase", "returned"} => current \in Plan /\ files[current] = verdict
  /\ mpc = "phase" => ended = "no"
  /\ mpc = "returned" => \/ ended = "success" /\ verdict = "ok"
                         \/ ended = "failure" /\ verdict = "failed"
  /\ mpc \in {"preflight", "loop", "returned"} => \A w \in Workers : ~Phase!Running(w)

\* The plan is exhausted, or the time, when the verdict is written; and it is not
\* written before.
VerdictInv ==
  /\ mpc \in TryPcs => same
  /\ mpc \in {"preflight", "loop", "phase", "returned", "publish"} => campaign = "absent"
  /\ mpc = "publishing" => campaign = "torn"

IInv ==
  /\ TypeOK /\ CountInv /\ PhaseInv /\ VerdictInv /\ CompleteIsSound

-----------------------------------------------------------------------------
(* The phase in progress *)

LEMMA PhaseType == Phase!TypeOK /\ Phase!Next => Phase!TypeOK'
<1> SUFFICES ASSUME Phase!TypeOK, Phase!Next PROVE Phase!TypeOK'
  OBVIOUS
<1> USE DEF Phase!TypeOK
<1>1. ASSUME NEW w \in Workers,
             Phase!Launch(w) \/ Phase!Measure(w) \/ Phase!Succeed(w) \/ Phase!Break(w)
      PROVE  Phase!TypeOK'
  BY <1>1 DEF Phase!Launch, Phase!Measure, Phase!Succeed, Phase!Break, Phase!Move
<1>2. ASSUME NEW w \in Workers, Phase!Arrive(w) PROVE Phase!TypeOK'
  BY <1>2 DEF Phase!Arrive
<1>3. ASSUME NEW v \in {"none", "ok", "failed"}, Phase!Publish(v) PROVE Phase!TypeOK'
  BY <1>3 DEF Phase!Publish
<1>4. ASSUME NEW e \in {"success", "failure", "abandoned"}, Phase!End(e) PROVE Phase!TypeOK'
  BY <1>4 DEF Phase!End
<1> QED
  BY <1>1, <1>2, <1>3, <1>4 DEF Phase!Next

\* A phase ends once, with the matching verdict and nothing running; a phase that has
\* ended says nothing more, and starts nothing.
LEMMA PhaseEnds ==
  ASSUME Phase!TypeOK, Phase!Next
  PROVE  /\ ended # "no" => ended' = ended /\ verdict' = verdict
         /\ ended' = "success" /\ ended = "no" =>
              verdict' = "ok" /\ \A w \in Workers : ~Phase!Running(w)'
         /\ ended' = "failure" /\ ended = "no" =>
              verdict' = "failed" /\ \A w \in Workers : ~Phase!Running(w)'
         /\ ended # "no" /\ (\A w \in Workers : ~Phase!Running(w)) =>
              \A w \in Workers : ~Phase!Running(w)'
<1> USE DEF Phase!TypeOK, Phase!Running
<1>1. ASSUME NEW w \in Workers, Phase!Launch(w) \/ Phase!Arrive(w)
      PROVE  ended = "no" /\ UNCHANGED ended
  BY <1>1 DEF Phase!Launch, Phase!Arrive, Phase!Move
<1>2. ASSUME NEW w \in Workers, Phase!Measure(w) \/ Phase!Succeed(w) \/ Phase!Break(w)
      PROVE  UNCHANGED <<ended, verdict>> /\ Phase!Running(w)
  BY <1>2 DEF Phase!Measure, Phase!Succeed, Phase!Break, Phase!Move
<1>3. ASSUME NEW v \in {"none", "ok", "failed"}, Phase!Publish(v)
      PROVE  ended = "no" /\ UNCHANGED ended
  BY <1>3 DEF Phase!Publish
<1>4. ASSUME NEW e \in {"success", "failure", "abandoned"}, Phase!End(e)
      PROVE  /\ ended = "no" /\ ended' = e /\ UNCHANGED <<stage, verdict>>
             /\ e = "success" => verdict = "ok"
             /\ e = "failure" => verdict = "failed"
             /\ e # "abandoned" => \A w \in Workers : ~Phase!Running(w)
  BY <1>4 DEF Phase!End
<1> QED
  BY <1>1, <1>2, <1>3, <1>4 DEF Phase!Next

-----------------------------------------------------------------------------
LEMMA FailedFinite == IsFiniteSet(FailedBefore) /\ Cardinality(FailedBefore) \in Nat
<1>1. IsFiniteSet(Plan)
  BY NrPhasesAssumption, FS_Interval DEF Plan
<1>2. IsFiniteSet(FailedBefore)
  BY <1>1, FS_Subset DEF FailedBefore
<1> QED
  BY <1>2, FS_CardinalityType

LEMMA InitIInv == Init => IInv
<1> SUFFICES ASSUME Init PROVE IInv
  OBVIOUS
<1> USE NrPhasesAssumption DEF Init, Phase!Init, Plan
<1>1. TypeOK
  BY DEF TypeOK, Phase!TypeOK
<1>2. FailedBefore = {}
  BY DEF FailedBefore
<1>3. CountInv
  BY <1>2, FS_EmptySet DEF CountInv
<1>4. PhaseInv
  BY DEF PhaseInv, Phase!Running
<1> QED
  BY <1>1, <1>3, <1>4 DEF IInv, VerdictInv, CompleteIsSound, TryPcs

LEMMA TypeStep == IInv /\ [Next]_vars => TypeOK'
<1> SUFFICES ASSUME IInv, [Next]_vars PROVE TypeOK'
  OBVIOUS
<1> USE NrPhasesAssumption, TimesAssumption DEF IInv, TypeOK, Plan, phaseVars
<1>1. CASE Preflight
  BY <1>1 DEF Preflight, Phase!TypeOK
<1>2. CASE StartPhase
  BY <1>2 DEF StartPhase, Phase!TypeOK
<1>3. CASE PhaseStep
  <2>1. Phase!TypeOK'
    BY <1>3, PhaseType DEF PhaseStep
  <2>2. files' \in [Plan -> {"none", "ok", "failed"}]
    BY <1>3, <2>1 DEF PhaseStep, Phase!TypeOK
  <2>3. mpc' \in {"except", "returned", mpc} /\ elapsed' \in Nat
    BY <1>3 DEF PhaseStep
  <2> QED
    BY <1>3, <2>1, <2>2, <2>3 DEF PhaseStep
<1>4. CASE Count
  <2>1. current \in Plan /\ executed = current - 1 /\ failures <= executed
    BY <1>4 DEF Count, CountInv, PhaseInv, Counting
  <2> QED
    BY <1>4, <2>1 DEF Count, Phase!TypeOK
<1>5. CASE Postflight
  <2>1. elapsed' \in Nat
    BY <1>5 DEF Postflight
  <2>2. mpc' \in {"publish", "except"} /\ same' \in BOOLEAN
    BY <1>5 DEF Postflight
  <2> QED
    BY <1>5, <2>1, <2>2 DEF Postflight, Phase!TypeOK
<1>6. CASE Publish \/ Leave \/ Except \/ Interrupt \/ Abort
  BY <1>6 DEF Publish, Leave, Except, Interrupt, Abort, Phase!TypeOK
<1>7. CASE UNCHANGED vars
  BY <1>7 DEF vars, mainVars, Phase!TypeOK
<1> QED
  BY <1>1, <1>2, <1>3, <1>4, <1>5, <1>6, <1>7 DEF Next, MainStep

LEMMA CountStep == IInv /\ [Next]_vars => CountInv'
<1> SUFFICES ASSUME IInv, [Next]_vars PROVE CountInv'
  OBVIOUS
<1> USE NrPhasesAssumption DEF IInv
<1>1. CASE UNCHANGED <<current, executed, failures, files>>
           /\ (mpc' \in Counting => mpc \in Counting)
           /\ (mpc' \notin {"phase", "returned"} /\ mpc' \in Counting =>
                 mpc \notin {"phase", "returned"})
  <2>1. FailedBefore' = FailedBefore
    BY <1>1 DEF FailedBefore
  <2> QED
    BY <1>1, <2>1 DEF CountInv
<1>2. CASE Preflight \/ StartPhase \/ Postflight \/ Publish \/ Leave \/ Except
             \/ Interrupt \/ Abort
  BY <1>1, <1>2 DEF Preflight, StartPhase, Postflight, Publish, Leave, Except,
                    Interrupt, Abort, Counting, TryPcs, phaseVars
<1>3. CASE PhaseStep
  <2>1. CASE mpc # "phase"
    <3>1. ended # "no" /\ UNCHANGED <<files, mpc>>
      BY <1>3, <2>1, PhaseEnds DEF PhaseStep, TypeOK
    <3> QED
      BY <1>1, <1>3, <3>1 DEF PhaseStep
  <2>2. CASE mpc = "phase"
    <3>1. /\ mpc' \in {"phase", "returned", "except"}
          /\ UNCHANGED <<current, executed, failures>>
          /\ \A j \in Plan : j # current => files'[j] = files[j]
      BY <1>3, <2>2 DEF PhaseStep, TypeOK
    <3>2. current \in Nat /\ Plan \subseteq Nat
      BY DEF TypeOK, Plan
    <3>3. FailedBefore' = FailedBefore
      <4>1. \A j \in Plan : j < current' /\ files'[j] = "failed" <=>
                             j < current /\ files[j] = "failed"
        BY <3>1, <3>2
      <4> QED
        BY <4>1, Zenon DEF FailedBefore, Plan
    <3>4. mpc \in Counting /\ mpc' # "loop" /\ "except" \notin Counting
      BY <2>2, <3>1 DEF Counting
    <3> QED
      BY <3>1, <3>2, <3>3, <3>4 DEF CountInv
  <2> QED
    BY <2>1, <2>2
<1>4. CASE Count
  <2>1. /\ current \in Plan /\ files[current] = verdict
        /\ \/ ended = "success" /\ verdict = "ok"
           \/ ended = "failure" /\ verdict = "failed"
    BY <1>4 DEF Count, PhaseInv
  <2>2. /\ executed = current - 1 /\ failures <= executed
        /\ failures = Cardinality(FailedBefore)
        /\ \A j \in Plan : /\ j < current => files[j] # "none"
                           /\ j > current => files[j] = "none"
    BY <1>4 DEF Count, CountInv, Counting
  <2>3. /\ mpc' = "loop" /\ executed' = executed + 1 /\ current' = current + 1
        /\ failures' = (IF ended = "success" THEN failures ELSE failures + 1)
        /\ files' = files
    BY <1>4 DEF Count
  <2>4. Plan \subseteq Nat /\ failures \in Nat /\ executed \in Nat /\ current \in Nat
    BY DEF TypeOK, Plan
  <2>5. failures' = Cardinality(FailedBefore')
    <3>1. CASE ended = "success"
      <4>1. \A j \in Plan : j < current' /\ files'[j] = "failed" <=>
                             j < current /\ files[j] = "failed"
        BY <2>1, <2>3, <2>4, <3>1
      <4>2. FailedBefore' = FailedBefore
        BY <4>1, Zenon DEF FailedBefore, Plan
      <4> QED
        BY <2>2, <2>3, <3>1, <4>2
    <3>2. CASE ended = "failure"
      <4>1. \A j \in Plan : j < current' /\ files'[j] = "failed" <=>
                             (j < current /\ files[j] = "failed") \/ j = current
        BY <2>1, <2>3, <2>4, <3>2
      <4>2. FailedBefore' = FailedBefore \union {current}
        BY <2>1, <4>1, Zenon DEF FailedBefore, Plan
      <4>3. current \notin FailedBefore
        BY <2>4 DEF FailedBefore
      <4>4. Cardinality(FailedBefore') = Cardinality(FailedBefore) + 1
        BY <4>2, <4>3, FailedFinite, FS_AddElement
      <4> QED
        BY <2>2, <2>3, <3>2, <4>4
    <3> QED
      BY <2>1, <3>1, <3>2
  <2>6. executed' = current' - 1 /\ failures' <= executed'
    BY <2>1, <2>2, <2>3, <2>4
  <2>7. ASSUME NEW j \in Plan
        PROVE  /\ j < current' => files'[j] # "none"
               /\ j >= current' => files'[j] = "none"
    BY <2>1, <2>2, <2>3, <2>4
  <2> QED
    BY <2>5, <2>6, <2>7, <2>4, <2>3 DEF CountInv, Plan
<1>5. CASE UNCHANGED vars
  BY <1>1, <1>5 DEF vars, mainVars
<1> QED
  BY <1>2, <1>3, <1>4, <1>5 DEF Next, MainStep

LEMMA PhaseStepInv == IInv /\ [Next]_vars => PhaseInv'
<1> SUFFICES ASSUME IInv, [Next]_vars PROVE PhaseInv'
  OBVIOUS
<1> USE DEF IInv
<1>1. CASE Preflight \/ Postflight \/ Publish \/ Leave \/ Except \/ Interrupt \/ Abort
             \/ Count
  BY <1>1 DEF Preflight, Postflight, Publish, Leave, Except, Interrupt, Abort, Count,
              PhaseInv, phaseVars, TryPcs, Phase!Running
<1>2. CASE StartPhase
  <2>1. current \in Plan /\ files[current] = "none"
    BY <1>2, NrPhasesAssumption
       DEF StartPhase, MoreToRun, CountInv, Counting, TypeOK, Plan
  <2> QED
    BY <1>2, <2>1 DEF StartPhase, PhaseInv
<1>3. CASE PhaseStep
  <2>1. CASE mpc # "phase"
    <3>1. ended # "no" /\ UNCHANGED <<files, mpc, ended, verdict, current>>
      BY <1>3, <2>1, PhaseEnds DEF PhaseStep, TypeOK
    <3>2. (\A w \in Workers : ~Phase!Running(w)) => \A w \in Workers : ~Phase!Running(w)'
      BY <1>3, <3>1, PhaseEnds DEF PhaseStep, TypeOK
    <3> QED
      BY <2>1, <3>1, <3>2 DEF PhaseInv
  <2>2. CASE mpc = "phase"
    <3>1. ended = "no" /\ current \in Plan /\ current' = current
      BY <1>3, <2>2 DEF PhaseInv, PhaseStep
    <3>2. files'[current'] = verdict'
      BY <1>3, <2>2, <3>1 DEF PhaseStep, TypeOK
    <3>3. ended' \in {"no", "success", "failure", "abandoned"}
      BY <1>3, PhaseType DEF PhaseStep, TypeOK, Phase!TypeOK
    <3>4. mpc' = IF ended' = "no" THEN "phase"
                 ELSE IF ended' = "abandoned" THEN "except" ELSE "returned"
      BY <1>3, <2>2, <3>1 DEF PhaseStep
    <3>5. /\ ended' = "success" => verdict' = "ok" /\ \A w \in Workers : ~Phase!Running(w)'
          /\ ended' = "failure" => verdict' = "failed" /\ \A w \in Workers : ~Phase!Running(w)'
      BY <1>3, <3>1, PhaseEnds DEF PhaseStep, TypeOK
    <3> QED
      BY <3>1, <3>2, <3>3, <3>4, <3>5 DEF PhaseInv
  <2> QED
    BY <2>1, <2>2
<1>4. CASE UNCHANGED vars
  BY <1>4 DEF vars, mainVars, phaseVars, PhaseInv, Phase!Running
<1> QED
  BY <1>1, <1>2, <1>3, <1>4 DEF Next, MainStep

LEMMA VerdictStep == IInv /\ [Next]_vars => VerdictInv' /\ CompleteIsSound'
<1> SUFFICES ASSUME IInv, [Next]_vars PROVE VerdictInv' /\ CompleteIsSound'
  OBVIOUS
<1> USE DEF IInv, VerdictInv, CompleteIsSound, TryPcs
<1>1. CASE Preflight \/ StartPhase \/ Count \/ Postflight \/ Leave \/ Except
             \/ Interrupt \/ Abort
  BY <1>1 DEF Preflight, StartPhase, Count, Postflight, Leave, Except, Interrupt, Abort
<1>2. CASE Publish
  <2>1. CASE mpc = "publishing" /\ Complete
    <3>1. executed = NrPhases /\ failures = 0 /\ executed = current - 1
          /\ failures = Cardinality(FailedBefore)
      BY <2>1 DEF Complete, CountInv, Counting
    <3>2. FailedBefore = {}
      BY <3>1, FailedFinite, FS_EmptySet
    <3>3. ASSUME NEW j \in Plan PROVE files[j] = "ok"
      <4>1. j < current
        BY <3>1, NrPhasesAssumption DEF Plan, TypeOK
      <4>2. files[j] # "none" /\ files[j] # "failed"
        BY <2>1, <3>2, <4>1 DEF CountInv, Counting, FailedBefore
      <4> QED
        BY <4>2 DEF TypeOK
    <3> QED
      BY <1>2, <2>1, <3>3 DEF Publish
  <2>2. CASE ~(mpc = "publishing" /\ Complete)
    BY <1>2, <2>2 DEF Publish
  <2> QED
    BY <2>1, <2>2
<1>3. CASE PhaseStep
  <2>1. CASE mpc = "phase"
    BY <1>3, <2>1 DEF PhaseStep
  <2>2. CASE mpc # "phase"
    <3>1. ended # "no" /\ UNCHANGED <<files, mpc>>
      BY <1>3, <2>2, PhaseEnds DEF PhaseStep, TypeOK
    <3> QED
      BY <1>3, <3>1 DEF PhaseStep
  <2> QED
    BY <2>1, <2>2
<1>4. CASE UNCHANGED vars
  BY <1>4 DEF vars, mainVars
<1> QED
  BY <1>1, <1>2, <1>3, <1>4 DEF Next, MainStep

LEMMA Inductive == Spec => []IInv
<1>1. IInv /\ [Next]_vars => IInv'
  BY TypeStep, CountStep, PhaseStepInv, VerdictStep DEF IInv
<1> QED
  BY <1>1, InitIInv, PTL DEF Spec

-----------------------------------------------------------------------------
(* The theorems *)

\* The variables of main and of the phase in progress keep their types: in particular
\* neither counter passes the number of phases.
THEOREM TypeCorrect == Spec => []TypeOK
<1>1. IInv => TypeOK
  BY DEF IInv
<1> QED
  BY <1>1, Inductive, PTL

\* campaign_status.json says "complete" only if each phase's status.json says "ok" and
\* the devices did not change, for every number of phases (run_campaign.py:208-220).
THEOREM CompleteSoundness == Spec => []CompleteIsSound
<1>1. IInv => CompleteIsSound
  BY DEF IInv
<1> QED
  BY <1>1, Inductive, PTL

\* The two counters of main account for the files of all phases, for every number of
\* phases (run_campaign.py:208-218).
THEOREM CountersSoundness == Spec => []CountersMatchFiles
<1>1. IInv => CountersMatchFiles
  <2> SUFFICES ASSUME IInv, mpc \in {"loop", "publish", "publishing"}
               PROVE  /\ executed = current - 1
                      /\ \A j \in Plan : files[j] = "none" <=> j > executed
                      /\ failures = Cardinality({j \in Plan : files[j] = "failed"})
    BY DEF CountersMatchFiles
  <2>1. /\ executed = current - 1 /\ failures = Cardinality(FailedBefore)
        /\ \A j \in Plan : /\ j < current => files[j] # "none"
                           /\ j >= current => files[j] = "none"
    BY DEF IInv, CountInv, Counting, TypeOK, Plan
  <2>2. {j \in Plan : files[j] = "failed"} = FailedBefore
    <3>1. \A j \in Plan : files[j] = "failed" <=> j < current /\ files[j] = "failed"
      BY <2>1 DEF IInv, TypeOK, Plan
    <3> QED
      BY <3>1, Zenon DEF FailedBefore, Plan
  <2>3. \A j \in Plan : files[j] = "none" <=> j > executed
    BY <2>1 DEF IInv, TypeOK, Plan
  <2> QED
    BY <2>1, <2>2, <2>3
<1> QED
  BY <1>1, Inductive, PTL

\* No phase starts while a process of an earlier one runs, for every number of phases
\* and workers (run_campaign.py:149-151, 221-223).
THEOREM PhasesApart == Spec => OnePhaseAtATime
<1>1. IInv => [StartPhase => \A w \in Workers : ~Phase!Running(w)]_vars
  BY DEF IInv, PhaseInv, StartPhase
<1> QED
  BY <1>1, Inductive, PTL DEF OnePhaseAtATime

-----------------------------------------------------------------------------
(* The plan: what one pass of the inner loop appends *)

\* Rotate takes position j to position Turned(m, s, j).
Turned(m, s, j) == IF j <= m - s THEN j + s ELSE j + s - m

LEMMA TurnedIsABijection ==
  ASSUME NEW m \in Nat, m >= 1, NEW s \in 0..(m - 1)
  PROVE  /\ \A j \in 1..m : Turned(m, s, j) \in 1..m
         /\ \A i, j \in 1..m : Turned(m, s, i) = Turned(m, s, j) => i = j
         /\ \A d \in 1..m : \E j \in 1..m : Turned(m, s, j) = d
<1>1. \A j \in 1..m : Turned(m, s, j) \in 1..m
  BY DEF Turned
<1>2. \A i, j \in 1..m : Turned(m, s, i) = Turned(m, s, j) => i = j
  BY DEF Turned
<1>3. ASSUME NEW d \in 1..m PROVE \E j \in 1..m : Turned(m, s, j) = d
  <2>1. CASE d > s
    BY <2>1, d - s \in 1..m, Turned(m, s, d - s) = d DEF Turned
  <2>2. CASE d <= s
    BY <2>2, d - s + m \in 1..m, Turned(m, s, d - s + m) = d DEF Turned
  <2> QED
    BY <2>1, <2>2
<1> QED
  BY <1>1, <1>2, <1>3

LEMMA Rotated ==
  ASSUME NEW m \in Nat, m >= 1, NEW s \in 0..(m - 1), NEW S, NEW f \in Seq(S), Len(f) = m
  PROVE  /\ Len(Sched!Rotate(f, s)) = m
         /\ \A j \in 1..m : Sched!Rotate(f, s)[j] = f[Turned(m, s, j)]
<1> DEFINE tail == SubSeq(f, s + 1, m)
           head == SubSeq(f, 1, s)
<1>1. f \in [1..m -> S]
  BY LenProperties
<1>2. /\ tail \in Seq(S) /\ Len(tail) = m - s
      /\ \A i \in 1..(m - s) : tail[i] = f[s + i]
  <2>1. \A i \in (s + 1)..m : f[i] \in S
    BY <1>1
  <2>2. /\ tail \in Seq(S)
        /\ Len(tail) = IF s + 1 <= m THEN m - (s + 1) + 1 ELSE 0
        /\ \A i \in 1..(m - (s + 1) + 1) : tail[i] = f[s + 1 + i - 1]
    BY <2>1, SubSeqProperties, s + 1 \in Int, m \in Int
  <2> QED
    BY <2>2
<1>3. /\ head \in Seq(S) /\ Len(head) = s
      /\ \A i \in 1..s : head[i] = f[i]
  <2>1. \A i \in 1..s : f[i] \in S
    BY <1>1
  <2>2. /\ head \in Seq(S)
        /\ Len(head) = IF 1 <= s THEN s - 1 + 1 ELSE 0
        /\ \A i \in 1..(s - 1 + 1) : head[i] = f[1 + i - 1]
    BY <2>1, SubSeqProperties, s \in Int, 1 \in Int
  <2> QED
    BY <2>2
<1>4. Sched!Rotate(f, s) = tail \o head
  BY DEF Sched!Rotate
<1>5. /\ Len(tail \o head) = (m - s) + s
      /\ \A i \in 1..((m - s) + s) :
           (tail \o head)[i] = IF i <= m - s THEN tail[i] ELSE head[i - (m - s)]
  <2> HIDE DEF tail, head
  <2>1. /\ Len(tail \o head) = Len(tail) + Len(head)
        /\ \A i \in 1..(Len(tail) + Len(head)) :
             (tail \o head)[i] = IF i <= Len(tail) THEN tail[i] ELSE head[i - Len(tail)]
    BY <1>2, <1>3, ConcatProperties
  <2> QED
    BY <2>1, <1>2, <1>3
<1>6. \A j \in 1..m : (tail \o head)[j] = f[Turned(m, s, j)]
  <2> HIDE DEF tail, head
  <2> SUFFICES ASSUME NEW j \in 1..m PROVE (tail \o head)[j] = f[Turned(m, s, j)]
    OBVIOUS
  <2>1. CASE j <= m - s
    <3>1. j \in 1..(m - s) /\ j \in 1..((m - s) + s) /\ Turned(m, s, j) = s + j
      BY <2>1 DEF Turned
    <3>2. (tail \o head)[j] = tail[j] /\ tail[j] = f[s + j]
      BY <3>1, <1>2, <1>5
    <3> QED
      BY <3>1, <3>2
  <2>2. CASE j > m - s
    <3>1. j - (m - s) \in 1..s /\ j \in 1..((m - s) + s) /\ ~(j <= m - s)
      BY <2>2
    <3>2. (tail \o head)[j] = head[j - (m - s)]
      BY <3>1, <1>5
    <3>3. head[j - (m - s)] = f[j - (m - s)]
      BY <3>1, <1>3
    <3> QED
      <4>1. Turned(m, s, j) = j - (m - s)
        BY <3>1 DEF Turned
      <4> QED
        BY <4>1, <3>2, <3>3
  <2>3. j <= m - s \/ j > m - s
    OBVIOUS
  <2> QED
    BY <2>1, <2>2, <2>3, Zenon
<1> QED
  BY <1>4, <1>5, <1>6

\* The place of a configuration in the order of a repeat.
PlaceOf(r, c) == IF c >= r - 1 THEN c - (r - 1) ELSE c - (r - 1) + 7

Indices == 0..6

LEMMA OrderOf ==
  ASSUME NEW r \in Sched!Repeats
  PROVE  /\ \A ci \in Indices : /\ Sched!Order(r)[ci + 1] \in Sched!Configs
                                /\ PlaceOf(r, Sched!Order(r)[ci + 1]) = ci
         /\ \A c \in Sched!Configs : /\ PlaceOf(r, c) \in Indices
                                     /\ Sched!Order(r)[PlaceOf(r, c) + 1] = c
<1> DEFINE f == [i \in 1..7 |-> i - 1]
<1> USE DEF Sched!NrConfigs, Sched!Configs, Sched!Repeats, Indices
<1>1. f \in Seq(Indices) /\ Len(f) = 7
  <2>1. \A i \in 1..7 : i - 1 \in Indices
    OBVIOUS
  <2> QED
    BY <2>1
<1>2. (r - 1) % 7 = r - 1 /\ r - 1 \in 0..(7 - 1)
  OBVIOUS
<1>3. \A j \in 1..7 : Sched!Order(r)[j] = f[Turned(7, r - 1, j)]
  <2> HIDE DEF f
  <2>1. Sched!Order(r) = Sched!Rotate(f, r - 1)
    BY <1>2 DEF Sched!Order, f
  <2> QED
    <3>1. \A j \in 1..7 : Sched!Rotate(f, r - 1)[j] = f[Turned(7, r - 1, j)]
      <4>1. /\ 7 \in Nat /\ 7 >= 1 /\ r - 1 \in 0..(7 - 1)
        BY <1>2
      <4> DEFINE k == r - 1
      <4> HIDE DEF k
      <4>2. \A j \in 1..7 : Sched!Rotate(f, k)[j] = f[Turned(7, k, j)]
        BY <1>1, <4>1, Rotated, Zenon DEF k
      <4> QED
        BY <4>2 DEF k
    <3> QED
      BY <2>1, <3>1
<1>4. \A j \in 1..7 : Turned(7, r - 1, j) \in 1..7
  BY DEF Turned
<1>5. \A j \in 1..7 : Sched!Order(r)[j] = Turned(7, r - 1, j) - 1
  BY <1>3, <1>4
<1>6. ASSUME NEW ci \in Indices
      PROVE  /\ Sched!Order(r)[ci + 1] \in Sched!Configs
             /\ PlaceOf(r, Sched!Order(r)[ci + 1]) = ci
  <2>1. Sched!Order(r)[ci + 1] = Turned(7, r - 1, ci + 1) - 1
    BY <1>5
  <2>2. PlaceOf(r, Turned(7, r - 1, ci + 1) - 1) = ci
    BY DEF Turned, PlaceOf
  <2> QED
    BY <2>1, <2>2, <1>4
<1>7. ASSUME NEW c \in Sched!Configs
      PROVE  /\ PlaceOf(r, c) \in Indices
             /\ Sched!Order(r)[PlaceOf(r, c) + 1] = c
  <2>1. PlaceOf(r, c) \in Indices /\ PlaceOf(r, c) + 1 \in 1..7
    BY DEF PlaceOf
  <2>2. Turned(7, r - 1, PlaceOf(r, c) + 1) - 1 = c
    BY DEF Turned, PlaceOf
  <2> QED
    BY <2>1, <2>2, <1>5
<1> QED
  BY <1>6, <1>7

-----------------------------------------------------------------------------
(* The phases of one pass *)

PlanTypes == n \in Nat /\ n >= 1

\* The k-th of the isolated phases of a pass is of device DeviceAt(r, ci, k).
DeviceAt(r, ci, k) == Turned(n, (r - 1 + ci) % n, k)

Phases ==
  {Sched!Row(c, r, condition, selected) :
     c \in Sched!Configs, r \in Sched!Repeats, condition \in {"isolated", "concurrent"},
     selected \in {Sched!Devices} \cup {<<d>> : d \in 1..n}}

\* Where the concurrent phase of a pass is.
ConcAt(r) == IF Sched!ConcurrentLast(r) THEN n + 1 ELSE 1

\* The place of the k-th phase among the isolated ones.
IsoAt(r, k) == IF Sched!ConcurrentLast(r) THEN k ELSE k - 1

LEMMA DevicesTurn ==
  ASSUME PlanTypes, NEW r \in Sched!Repeats, NEW ci \in Indices
  PROVE  /\ \A k \in 1..n : Sched!DeviceOrder(r, ci)[k] = DeviceAt(r, ci, k)
         /\ \A k \in 1..n : DeviceAt(r, ci, k) \in 1..n
         /\ \A k, l \in 1..n : DeviceAt(r, ci, k) = DeviceAt(r, ci, l) => k = l
         /\ \A d \in 1..n : \E k \in 1..n : DeviceAt(r, ci, k) = d
<1> DEFINE s == (r - 1 + ci) % n
<1>1. r - 1 + ci \in Nat
  BY DEF Sched!Repeats, Indices
<1>2. s \in 0..(n - 1) /\ n \in Nat /\ n >= 1
  BY <1>1 DEF PlanTypes
<1>3. Sched!Devices \in Seq(1..n) /\ Len(Sched!Devices) = n
  BY <1>2 DEF Sched!Devices
<1> HIDE DEF s
<1>4. \A j \in 1..n : Sched!Rotate(Sched!Devices, s)[j] = Sched!Devices[Turned(n, s, j)]
  BY <1>2, <1>3, Rotated
<1>5. /\ \A j \in 1..n : Turned(n, s, j) \in 1..n
      /\ \A i, j \in 1..n : Turned(n, s, i) = Turned(n, s, j) => i = j
      /\ \A d \in 1..n : \E j \in 1..n : Turned(n, s, j) = d
  BY <1>2, TurnedIsABijection
<1>6. \A j \in 1..n : Sched!Rotate(Sched!Devices, s)[j] = Turned(n, s, j)
  BY <1>4, <1>5 DEF Sched!Devices
<1>7. \A j \in 1..n : DeviceAt(r, ci, j) = Turned(n, s, j)
  BY Zenon DEF DeviceAt, s
<1>8. Sched!DeviceOrder(r, ci) = Sched!Rotate(Sched!Devices, s)
  BY Zenon DEF Sched!DeviceOrder, s
<1>9. \A k \in 1..n : Sched!DeviceOrder(r, ci)[k] = DeviceAt(r, ci, k)
  BY <1>6, <1>7, <1>8, Zenon
<1>10. \A k \in 1..n : DeviceAt(r, ci, k) \in 1..n
  BY <1>5, <1>7
<1>11. \A k, l \in 1..n : DeviceAt(r, ci, k) = DeviceAt(r, ci, l) => k = l
  BY <1>5, <1>7, Zenon
<1>12. \A d \in 1..n : \E k \in 1..n : DeviceAt(r, ci, k) = d
  BY <1>5, <1>7, Zenon
<1> QED
  BY <1>9, <1>10, <1>11, <1>12, Zenon

LEMMA PassOf ==
  ASSUME PlanTypes, NEW r \in Sched!Repeats, NEW ci \in Indices
  PROVE  /\ Sched!Pass(r, ci) \in Seq(Phases) /\ Len(Sched!Pass(r, ci)) = n + 1
         /\ \A k \in 1..(n + 1) : Sched!Pass(r, ci)[k] =
              IF k = ConcAt(r)
              THEN Sched!Row(Sched!Order(r)[ci + 1], r, "concurrent", Sched!Devices)
              ELSE Sched!Row(Sched!Order(r)[ci + 1], r, "isolated",
                             <<DeviceAt(r, ci, IsoAt(r, k))>>)
<1> DEFINE c == Sched!Order(r)[ci + 1]
           iso(k) == Sched!Row(c, r, "isolated", <<Sched!DeviceOrder(r, ci)[k]>>)
           conc == Sched!Row(c, r, "concurrent", Sched!Devices)
           isolated == [k \in 1..n |-> iso(k)]
           concurrent == <<conc>>
<1>1. c \in Sched!Configs
  BY OrderOf
<1>2. \A k \in 1..n : /\ Sched!DeviceOrder(r, ci)[k] = DeviceAt(r, ci, k)
                      /\ DeviceAt(r, ci, k) \in 1..n
  BY DevicesTurn
<1>3. \A k \in 1..n : iso(k) \in Phases
  BY <1>1, <1>2 DEF Phases
<1>4. conc \in Phases
  BY <1>1 DEF Phases
<1>5. \A k \in 1..n : iso(k) = Sched!Row(c, r, "isolated", <<DeviceAt(r, ci, k)>>)
  BY <1>2
<1>6. Sched!Pass(r, ci) = IF Sched!ConcurrentLast(r) THEN isolated \o concurrent
                                                      ELSE concurrent \o isolated
  BY DEF Sched!Pass
<1> HIDE DEF c, iso, conc
<1>7. /\ isolated \in Seq(Phases) /\ Len(isolated) = n
      /\ \A k \in 1..n : isolated[k] = iso(k)
  BY <1>3 DEF PlanTypes
<1>8. concurrent \in Seq(Phases) /\ Len(concurrent) = 1 /\ concurrent[1] = conc
  BY <1>4
<1> HIDE DEF isolated, concurrent
<1>9. CASE Sched!ConcurrentLast(r)
  <2>1. /\ isolated \o concurrent \in Seq(Phases)
        /\ Len(isolated \o concurrent) = n + 1
        /\ \A k \in 1..(n + 1) : (isolated \o concurrent)[k] =
             IF k <= n THEN isolated[k] ELSE concurrent[k - n]
    <3>1. /\ isolated \o concurrent \in Seq(Phases)
          /\ Len(isolated \o concurrent) = Len(isolated) + Len(concurrent)
          /\ \A k \in 1..(Len(isolated) + Len(concurrent)) : (isolated \o concurrent)[k] =
               IF k <= Len(isolated) THEN isolated[k] ELSE concurrent[k - Len(isolated)]
      BY <1>7, <1>8, ConcatProperties, Zenon
    <3> QED
      BY <3>1, <1>7, <1>8
  <2>2. \A k \in 1..(n + 1) : (isolated \o concurrent)[k] =
          IF k = ConcAt(r) THEN conc ELSE iso(IsoAt(r, k))
    <3> SUFFICES ASSUME NEW k \in 1..(n + 1)
                 PROVE  (isolated \o concurrent)[k] =
                          IF k = ConcAt(r) THEN conc ELSE iso(IsoAt(r, k))
      OBVIOUS
    <3>1. CASE k = n + 1
      BY <3>1, <2>1, <1>8, <1>9 DEF PlanTypes, ConcAt
    <3>2. CASE k \in 1..n
      <4>1. k # ConcAt(r) /\ IsoAt(r, k) = k
        BY <3>2, <1>9 DEF PlanTypes, ConcAt, IsoAt
      <4>2. (isolated \o concurrent)[k] = iso(k)
        BY <3>2, <2>1, <1>7
      <4> QED
        BY <4>1, <4>2
    <3>3. k = n + 1 \/ k \in 1..n
      BY DEF PlanTypes
    <3> QED
      BY <3>1, <3>2, <3>3, Zenon
  <2>3. \A k \in 1..(n + 1) : k # ConcAt(r) => IsoAt(r, k) \in 1..n
    BY <1>9 DEF PlanTypes, ConcAt, IsoAt
  <2> QED
    BY <2>1, <2>2, <2>3, <1>5, <1>6, <1>9, Zenon DEF c, conc
<1>10. CASE ~Sched!ConcurrentLast(r)
  <2>1. /\ concurrent \o isolated \in Seq(Phases)
        /\ Len(concurrent \o isolated) = 1 + n
        /\ \A k \in 1..(1 + n) : (concurrent \o isolated)[k] =
             IF k <= 1 THEN concurrent[k] ELSE isolated[k - 1]
    <3>1. /\ concurrent \o isolated \in Seq(Phases)
          /\ Len(concurrent \o isolated) = Len(concurrent) + Len(isolated)
          /\ \A k \in 1..(Len(concurrent) + Len(isolated)) : (concurrent \o isolated)[k] =
               IF k <= Len(concurrent) THEN concurrent[k] ELSE isolated[k - Len(concurrent)]
      BY <1>7, <1>8, ConcatProperties, Zenon
    <3> QED
      BY <3>1, <1>7, <1>8
  <2>2. \A k \in 1..(n + 1) : (concurrent \o isolated)[k] =
          IF k = ConcAt(r) THEN conc ELSE iso(IsoAt(r, k))
    <3> SUFFICES ASSUME NEW k \in 1..(n + 1)
                 PROVE  (concurrent \o isolated)[k] =
                          IF k = ConcAt(r) THEN conc ELSE iso(IsoAt(r, k))
      OBVIOUS
    <3>1. CASE k = 1
      BY <3>1, <2>1, <1>8, <1>10 DEF PlanTypes, ConcAt
    <3>2. CASE k - 1 \in 1..n
      <4>1. k # ConcAt(r) /\ IsoAt(r, k) = k - 1
        BY <3>2, <1>10 DEF PlanTypes, ConcAt, IsoAt
      <4>2. (concurrent \o isolated)[k] = isolated[k - 1]
        BY <3>2, <2>1 DEF PlanTypes
      <4> QED
        BY <3>2, <4>1, <4>2, <1>7
    <3>3. k = 1 \/ k - 1 \in 1..n
      BY DEF PlanTypes
    <3> QED
      BY <3>1, <3>2, <3>3, Zenon
  <2>3. \A k \in 1..(n + 1) : k # ConcAt(r) => IsoAt(r, k) \in 1..n
    BY <1>10 DEF PlanTypes, ConcAt, IsoAt
  <2>4. 1 + n = n + 1
    BY DEF PlanTypes
  <2> QED
    BY <2>1, <2>2, <2>3, <2>4, <1>5, <1>6, <1>10, Zenon DEF c, conc
<1> QED
  BY <1>9, <1>10

-----------------------------------------------------------------------------
(* Places: the k-th of w phases of the m-th pass comes at m * w + k *)

LEMMA PlaceOrder ==
  ASSUME NEW w \in Nat, NEW m \in Nat, NEW p \in Nat, NEW k \in 1..w, NEW l \in 1..w, m < p
  PROVE  m * w + k < p * w + l
<1>1. PICK q \in Nat : p = m + 1 + q
  <2>1. p - m - 1 \in Nat /\ p = m + 1 + (p - m - 1)
    OBVIOUS
  <2> QED
    BY <2>1
<1>2. p * w = m * w + w + q * w
  BY <1>1
<1>3. q * w \in Nat /\ m * w \in Nat
  OBVIOUS
<1> DEFINE mw == m * w
           qw == q * w
           pw == p * w
<1> HIDE DEF mw, qw, pw
<1>4. pw = mw + w + qw /\ qw \in Nat /\ mw \in Nat
  BY <1>2, <1>3 DEF mw, qw, pw
<1>5. mw + k < pw + l
  BY <1>4
<1> QED
  BY <1>5 DEF mw, pw

LEMMA PlaceUnique ==
  ASSUME NEW w \in Nat, NEW m \in Nat, NEW p \in Nat, NEW k \in 1..w, NEW l \in 1..w,
         m * w + k = p * w + l
  PROVE  m = p /\ k = l
<1> DEFINE mw == m * w
           pw == p * w
<1>1. mw \in Nat /\ pw \in Nat
  OBVIOUS
<1>2. ASSUME m < p PROVE FALSE
  <2>1. mw + k < pw + l
    BY <1>2, PlaceOrder
  <2> HIDE DEF mw, pw
  <2>2. mw + k = pw + l
    BY DEF mw, pw
  <2> QED
    BY <1>1, <2>1, <2>2
<1>3. ASSUME p < m PROVE FALSE
  <2>1. pw + l < mw + k
    BY <1>3, PlaceOrder
  <2> HIDE DEF mw, pw
  <2>2. mw + k = pw + l
    BY DEF mw, pw
  <2> QED
    BY <1>1, <2>1, <2>2
<1>4. m = p
  BY <1>2, <1>3
<1>5. k = l
  <2> HIDE DEF mw, pw
  <2>1. mw + k = mw + l
    BY <1>4 DEF mw, pw
  <2> QED
    BY <2>1, <1>1
<1> QED
  BY <1>4, <1>5

LEMMA PlaceSplit ==
  ASSUME NEW w \in Nat, w >= 1, NEW M \in Nat, NEW i \in 1..(M * w)
  PROVE  \E m \in 0..(M - 1), k \in 1..w : i = m * w + k
<1> DEFINE m == (i - 1) \div w
           k == ((i - 1) % w) + 1
<1>1. i - 1 \in Nat /\ w > 0
  OBVIOUS
<1>2. m \in Nat /\ (i - 1) % w \in 0..(w - 1) /\ i - 1 = m * w + ((i - 1) % w)
  <2>1. \A a, b \in Nat : b > 0 => a % b \in 0..(b - 1)
    OBVIOUS
  <2>2. \A a, b \in Nat : b > 0 => a \div b \in Nat
    OBVIOUS
  <2>3. \A a, b \in Nat : b > 0 => a = b * (a \div b) + (a % b)
    OBVIOUS
  <2>4. \A a, b \in Nat : a * b = b * a
    OBVIOUS
  <2>5. m \in Nat /\ (i - 1) % w \in 0..(w - 1)
    BY <1>1, <2>1, <2>2
  <2>6. i - 1 = w * m + ((i - 1) % w)
    BY <1>1, <2>3
  <2>7. w * m = m * w
    BY <2>5, <2>4
  <2> QED
    BY <2>5, <2>6, <2>7
<1>3. k \in 1..w /\ i = m * w + k
  BY <1>1, <1>2
<1> HIDE DEF m, k
<1>4. m < M
  <2> SUFFICES ASSUME m >= M PROVE FALSE
    BY <1>2
  <2>1. m * w >= M * w
    <3>1. PICK q \in Nat : m = M + q
      <4>1. m - M \in Nat /\ m = M + (m - M)
        BY <1>2
      <4> QED
        BY <4>1
    <3>2. m * w = M * w + q * w /\ q * w \in Nat /\ M * w \in Nat
      BY <3>1
    <3> QED
      BY <3>2
  <2> DEFINE mw == m * w
             Mw == M * w
  <2>2. mw \in Nat /\ Mw \in Nat /\ mw >= Mw /\ i \in 1..Mw /\ i = mw + k
    BY <2>1, <1>2, <1>3
  <2> HIDE DEF mw, Mw
  <2> QED
    BY <2>2, <1>3
<1>5. m \in 0..(M - 1)
  BY <1>2, <1>4
<1> QED
  BY <1>3, <1>5, Zenon

-----------------------------------------------------------------------------
(* The inductive invariant *)

\* The passes before pass ci of repeat r.
Number(r, ci) == 7 * (r - 1) + ci

Place(r, ci, k) == Number(r, ci) * (n + 1) + k

PlanInv ==
  /\ n \in DeviceCounts /\ repeat \in 1..8 /\ config_index \in Indices
  /\ repeat = 8 => config_index = 0
  /\ rows \in Seq(Phases)
  /\ Len(rows) = Number(repeat, config_index) * (n + 1)
  /\ \A r \in Sched!Repeats, ci \in Indices : Number(r, ci) < Number(repeat, config_index) =>
       \A k \in 1..(n + 1) : rows[Place(r, ci, k)] = Sched!Pass(r, ci)[k]

LEMMA PlanStarts == Sched!Init => PlanInv
<1> SUFFICES ASSUME Sched!Init PROVE PlanInv
  OBVIOUS
<1>1. n \in Nat
  BY PartsAssumption DEF Sched!Init, Sched!DeviceCountsAssumption
<1>2. Number(repeat, config_index) = 0
  BY DEF Sched!Init, Number
<1>3. rows \in Seq(Phases) /\ Len(rows) = 0
  BY DEF Sched!Init
<1>4. \A r \in Sched!Repeats, ci \in Indices : ~(Number(r, ci) < 0)
  BY DEF Number, Sched!Repeats, Indices
<1>5. Len(rows) = Number(repeat, config_index) * (n + 1)
  BY <1>1, <1>2, <1>3
<1>6. /\ n \in DeviceCounts /\ repeat \in 1..8 /\ config_index \in Indices
      /\ repeat = 8 => config_index = 0
  BY DEF Sched!Init, Indices
<1> QED
  BY <1>2, <1>3, <1>4, <1>5, <1>6, Zenon DEF PlanInv

LEMMA PlanIsTyped == PlanInv => PlanTypes
BY PartsAssumption DEF PlanInv, PlanTypes, Sched!DeviceCountsAssumption

LEMMA NumbersDiffer ==
  \A r, q \in Sched!Repeats, ci, cj \in Indices :
    Number(r, ci) = Number(q, cj) => r = q /\ ci = cj
BY DEF Number, Sched!Repeats, Indices

LEMMA PlanStep == PlanInv /\ [Sched!Next]_(Sched!vars) => PlanInv'
<1> SUFFICES ASSUME PlanInv, [Sched!Next]_(Sched!vars) PROVE PlanInv'
  OBVIOUS
<1>1. CASE UNCHANGED Sched!vars
  <2>1. n' = n /\ repeat' = repeat /\ config_index' = config_index /\ rows' = rows
    BY <1>1 DEF Sched!vars
  <2>2. Phases' = Phases
    BY <2>1 DEF Phases, Sched!Devices, Sched!Row
  <2>3. \A r, ci : (Sched!Pass(r, ci))' = Sched!Pass(r, ci)
    BY <2>1 DEF Sched!Pass, Sched!DeviceOrder, Sched!Devices, Sched!Row
  <2> QED
    BY <2>1, <2>2, <2>3 DEF PlanInv, Place, Number
<1>2. CASE Sched!Plan
  <2> DEFINE p == Number(repeat, config_index)
             w == n + 1
             pass == Sched!Pass(repeat, config_index)
  <2>1. /\ n' = n /\ repeat \in 1..7 /\ config_index \in Indices
        /\ config_index' = (config_index + 1) % 7
        /\ repeat' = IF config_index' = 0 THEN repeat + 1 ELSE repeat
        /\ rows' = rows \o pass
    BY <1>2 DEF PlanInv, Sched!Plan, Sched!NextIndex, Sched!NrConfigs, Sched!Done, Indices
  <2>2. n \in Nat /\ w \in Nat /\ w >= 1 /\ p \in Nat
    <3>1. n \in Nat
      BY PlanIsTyped DEF PlanTypes
    <3> QED
      BY <3>1, <2>1 DEF Number, Indices
  <2>3. /\ repeat' \in 1..8 /\ config_index' \in Indices
        /\ repeat' = 8 => config_index' = 0
        /\ Number(repeat', config_index') = p + 1
    BY <2>1 DEF Number, Indices
  <2>4. Phases' = Phases
    BY <2>1 DEF Phases, Sched!Devices, Sched!Row
  <2>5. \A r, ci : (Sched!Pass(r, ci))' = Sched!Pass(r, ci)
    BY <2>1 DEF Sched!Pass, Sched!DeviceOrder, Sched!Devices, Sched!Row
  <2>6. pass \in Seq(Phases) /\ Len(pass) = w
    BY <2>1, PassOf, PlanIsTyped DEF Sched!Repeats
  <2>7. rows \in Seq(Phases) /\ Len(rows) = p * w
    BY DEF PlanInv
  <2> HIDE DEF p, w, pass
  <2>8. /\ rows \o pass \in Seq(Phases) /\ Len(rows \o pass) = Len(rows) + Len(pass)
        /\ \A i \in 1..(Len(rows) + Len(pass)) : (rows \o pass)[i] =
             IF i <= Len(rows) THEN rows[i] ELSE pass[i - Len(rows)]
    BY <2>6, <2>7, ConcatProperties, Zenon
  <2>9. Len(rows') = (p + 1) * w
    BY <2>1, <2>2, <2>6, <2>7, <2>8
  <2>10. ASSUME NEW r \in Sched!Repeats, NEW ci \in Indices, Number(r, ci) < p + 1,
                NEW k \in 1..w
         PROVE  rows'[Number(r, ci) * w + k] = Sched!Pass(r, ci)[k]
    <3> DEFINE m == Number(r, ci)
    <3>1. m \in Nat
      BY DEF Number, Sched!Repeats, Indices
    <3>2. CASE m < p
      <4>1. rows[m * w + k] = Sched!Pass(r, ci)[k]
        BY <3>2 DEF PlanInv, Place, p, w
      <4>2. m * w + k \in 1..(p * w)
        <5> HIDE DEF m
        <5>1. m * w + k < p * w + k
          BY <3>1, <3>2, <2>2, PlaceOrder
        <5>2. m * w \in Nat /\ p * w \in Nat
          BY <3>1, <2>2
        <5>3. m * w + k <= p * w
          <6>1. PICK q \in Nat : p = m + 1 + q
            <7>1. p - m - 1 \in Nat /\ p = m + 1 + (p - m - 1)
              BY <3>1, <3>2, <2>2
            <7> QED
              BY <7>1
          <6>2. p * w = m * w + w + q * w /\ q * w \in Nat
            BY <6>1, <3>1, <2>2
          <6> DEFINE mw == m * w
                     pw == p * w
                     qw == q * w
          <6>3. pw = mw + w + qw /\ qw \in Nat /\ mw \in Nat
            BY <6>2, <5>2
          <6> HIDE DEF mw, pw, qw
          <6>4. mw + k <= pw
            BY <6>3, <2>2
          <6> QED
            BY <6>4 DEF mw, pw
        <5> DEFINE mw == m * w
                   pw == p * w
        <5>4. mw \in Nat /\ pw \in Nat /\ mw + k <= pw
          BY <5>2, <5>3
        <5> HIDE DEF mw, pw
        <5>5. mw + k \in 1..pw
          BY <5>4
        <5> QED
          BY <5>5 DEF mw, pw
      <4> DEFINE i == m * w + k
                 L == p * w
      <4>3. i \in 1..L /\ L \in Nat /\ Len(rows) = L /\ Len(pass) = w
        BY <4>2, <2>2, <2>6, <2>7
      <4> HIDE DEF i, L, m
      <4>4. i \in 1..(L + w) /\ i <= L
        BY <4>3, <2>2
      <4>5. (rows \o pass)[i] = rows[i]
        BY <4>3, <4>4, <2>8
      <4> QED
        BY <4>1, <4>5, <2>1 DEF i, m
    <3>3. CASE m = p
      <4>1. r = repeat /\ ci = config_index
        BY <3>3, <2>1, NumbersDiffer DEF p, Sched!Repeats
      <4> DEFINE L == p * w
      <4>2. L \in Nat /\ Len(rows) = L /\ Len(pass) = w
        BY <2>2, <2>6, <2>7
      <4> HIDE DEF L, m
      <4>3. L + k \in 1..(L + w) /\ ~(L + k <= L) /\ L + k - L = k
        BY <4>2, <2>2
      <4>4. (rows \o pass)[L + k] = pass[k]
        BY <4>2, <4>3, <2>8
      <4> QED
        BY <4>1, <4>4, <3>3, <2>1 DEF L, m, pass
    <3>4. m < p \/ m = p
      BY <3>1, <2>2, <2>10
    <3> QED
      BY <3>2, <3>3, <3>4, Zenon
  <2>11. \A r \in Sched!Repeats, ci \in Indices : Number(r, ci) < Number(repeat', config_index')
           => \A k \in 1..(n' + 1) :
                rows'[Number(r, ci) * (n' + 1) + k] = (Sched!Pass(r, ci))'[k]
    BY <2>10, <2>3, <2>5, <2>1, Zenon DEF w
  <2>12. n' \in DeviceCounts /\ rows' \in Seq(Phases')
    BY <2>1, <2>4, <2>8 DEF PlanInv
  <2>13. Len(rows') = Number(repeat', config_index') * (n' + 1)
    BY <2>1, <2>3, <2>9 DEF w
  <2> QED
    BY <2>3, <2>11, <2>12, <2>13, Zenon DEF PlanInv, Place, Number, Indices
<1> QED
  BY <1>1, <1>2 DEF Sched!Next

LEMMA PlanIsInductive == Sched!Spec => []PlanInv
BY PlanStarts, PlanStep, PTL DEF Sched!Spec

-----------------------------------------------------------------------------
(* What the invariant says of one phase *)

LEMMA FieldsOf ==
  ASSUME PlanTypes, NEW r \in Sched!Repeats, NEW ci \in Indices, NEW k \in 1..(n + 1)
  PROVE  LET row == Sched!Pass(r, ci)[k]
             c == Sched!Order(r)[ci + 1]
         IN  /\ row.config = c /\ row.repeat = r
             /\ k = ConcAt(r) => /\ row.condition = "concurrent" /\ row.devices = Sched!Devices
                                 /\ row.path = <<c, IF r <= 6 THEN r ELSE 0, 0>>
             /\ k # ConcAt(r) =>
                  LET d == DeviceAt(r, ci, IsoAt(r, k))
                  IN  /\ row.condition = "isolated" /\ row.devices = <<d>> /\ d \in 1..n
                      /\ IsoAt(r, k) \in 1..n
                      /\ row.path = <<c, IF r <= 6 THEN r ELSE 0, d>>
<1> DEFINE row == Sched!Pass(r, ci)[k]
           c == Sched!Order(r)[ci + 1]
           d == DeviceAt(r, ci, IsoAt(r, k))
<1>1. row = IF k = ConcAt(r) THEN Sched!Row(c, r, "concurrent", Sched!Devices)
                             ELSE Sched!Row(c, r, "isolated", <<d>>)
  BY PassOf
<1>2. k # ConcAt(r) => IsoAt(r, k) \in 1..n
  BY DEF ConcAt, IsoAt, PlanTypes
<1>3. k # ConcAt(r) => d \in 1..n
  BY <1>2, DevicesTurn
<1> HIDE DEF row, c, d
<1>4. CASE k = ConcAt(r)
  <2>1. row = Sched!Row(c, r, "concurrent", Sched!Devices)
    BY <1>1, <1>4
  <2>2. /\ row.config = c /\ row.repeat = r /\ row.condition = "concurrent"
        /\ row.devices = Sched!Devices /\ row.path = <<c, IF r <= 6 THEN r ELSE 0, 0>>
    BY <2>1 DEF Sched!Row, Sched!Traced
  <2> QED
    BY <2>2, <1>4, Zenon DEF row, c
<1>5. CASE k # ConcAt(r)
  <2>1. row = Sched!Row(c, r, "isolated", <<d>>)
    BY <1>1, <1>5
  <2>2. /\ row.config = c /\ row.repeat = r /\ row.condition = "isolated"
        /\ row.devices = <<d>> /\ row.path = <<c, IF r <= 6 THEN r ELSE 0, d>>
    BY <2>1 DEF Sched!Row, Sched!Traced
  <2> QED
    BY <2>2, <1>2, <1>3, <1>5, Zenon DEF row, c, d
<1> QED
  BY <1>4, <1>5, Zenon

LEMMA NumberSplit ==
  \A m \in 0..48 : \E r \in Sched!Repeats, ci \in Indices : m = Number(r, ci)
<1> SUFFICES ASSUME NEW m \in 0..48
             PROVE  \E r \in Sched!Repeats, ci \in Indices : m = Number(r, ci)
  OBVIOUS
<1>1. (m \div 7) + 1 \in Sched!Repeats /\ m % 7 \in Indices
  BY DEF Sched!Repeats, Indices
<1>2. m = Number((m \div 7) + 1, m % 7)
  BY DEF Number
<1> QED
  BY <1>1, <1>2, Zenon

LEMMA PlacedAt ==
  ASSUME PlanInv, NEW i \in 1..Len(rows)
  PROVE  \E r \in Sched!Repeats, ci \in Indices, k \in 1..(n + 1) :
           i = Place(r, ci, k) /\ rows[i] = Sched!Pass(r, ci)[k]
<1> DEFINE M == Number(repeat, config_index)
           w == n + 1
<1>1. n \in Nat
  BY PlanIsTyped DEF PlanTypes
<1>2. M \in 0..49 /\ w \in Nat /\ w >= 1 /\ Len(rows) = M * w
  BY <1>1 DEF PlanInv, Number, Indices
<1> HIDE DEF M, w
<1>3. PICK m \in 0..(M - 1), k \in 1..w : i = m * w + k
  <2>1. M \in Nat /\ i \in 1..(M * w)
    BY <1>2
  <2> QED
    BY <2>1, <1>2, PlaceSplit
<1>4. m \in 0..48 /\ m < M
  BY <1>2
<1>5. PICK r \in Sched!Repeats, ci \in Indices : m = Number(r, ci)
  BY <1>4, NumberSplit
<1>6. i = Place(r, ci, k)
  BY <1>3, <1>5 DEF Place, w
<1>7. rows[i] = Sched!Pass(r, ci)[k]
  BY <1>4, <1>5, <1>6 DEF PlanInv, M, w
<1> QED
  BY <1>6, <1>7 DEF w

LEMMA PlacesDiffer ==
  ASSUME PlanTypes, NEW r \in Sched!Repeats, NEW ci \in Indices, NEW k \in 1..(n + 1),
         NEW q \in Sched!Repeats, NEW cj \in Indices, NEW l \in 1..(n + 1)
  PROVE  Place(r, ci, k) = Place(q, cj, l) => r = q /\ ci = cj /\ k = l
<1>1. Number(r, ci) \in Nat /\ Number(q, cj) \in Nat /\ n + 1 \in Nat
  BY DEF Number, Sched!Repeats, Indices, PlanTypes
<1> SUFFICES ASSUME Place(r, ci, k) = Place(q, cj, l) PROVE r = q /\ ci = cj /\ k = l
  OBVIOUS
<1>2. Number(r, ci) * (n + 1) + k = Number(q, cj) * (n + 1) + l
  BY DEF Place
<1> DEFINE x == Number(r, ci)
           y == Number(q, cj)
           w == n + 1
<1>3. x = y /\ k = l
  <2>1. x \in Nat /\ y \in Nat /\ w \in Nat /\ k \in 1..w /\ l \in 1..w /\ x * w + k = y * w + l
    BY <1>1, <1>2
  <2> HIDE DEF x, y, w
  <2> QED
    BY <2>1, PlaceUnique
<1> QED
  BY <1>3, NumbersDiffer

-----------------------------------------------------------------------------
(* The directories *)

LEMMA SameCardinality == \A S : Sched!Cardinality(S) = Cardinality(S)
BY DEF Sched!Cardinality, Sched!IsFiniteSet, Cardinality, IsFiniteSet

LEMMA OnePathEach ==
  ASSUME PlanInv, NEW i \in 1..Len(rows), NEW j \in 1..Len(rows), rows[i].path = rows[j].path
  PROVE  i = j
<1>1. PlanTypes
  BY PlanIsTyped
<1>2. PICK r \in Sched!Repeats, ci \in Indices, k \in 1..(n + 1) :
        i = Place(r, ci, k) /\ rows[i] = Sched!Pass(r, ci)[k]
  BY PlacedAt
<1>3. PICK q \in Sched!Repeats, cj \in Indices, l \in 1..(n + 1) :
        j = Place(q, cj, l) /\ rows[j] = Sched!Pass(q, cj)[l]
  BY PlacedAt
<1> DEFINE dev(s, c, x) == IF x = ConcAt(s) THEN 0 ELSE DeviceAt(s, c, IsoAt(s, x))
<1>4. rows[i].path = <<Sched!Order(r)[ci + 1], IF r <= 6 THEN r ELSE 0, dev(r, ci, k)>>
  BY <1>1, <1>2, FieldsOf
<1>5. rows[j].path = <<Sched!Order(q)[cj + 1], IF q <= 6 THEN q ELSE 0, dev(q, cj, l)>>
  BY <1>1, <1>3, FieldsOf
<1> DEFINE c(s, x) == Sched!Order(s)[x + 1]
           t(s) == IF s <= 6 THEN s ELSE 0
<1>6. c(r, ci) = c(q, cj) /\ t(r) = t(q) /\ dev(r, ci, k) = dev(q, cj, l)
  <2>1. <<c(r, ci), t(r), dev(r, ci, k)>> = <<c(q, cj), t(q), dev(q, cj, l)>>
    BY <1>4, <1>5
  <2> HIDE DEF c, t, dev
  <2> QED
    BY <2>1
<1>7. r = q
  <2>1. (IF r <= 6 THEN r ELSE 0) = (IF q <= 6 THEN q ELSE 0)
    BY <1>6
  <2> QED
    BY <2>1 DEF Sched!Repeats
<1>8. ci = cj
  <2>1. Sched!Order(r)[ci + 1] = Sched!Order(r)[cj + 1]
    BY <1>6, <1>7
  <2>2. PlaceOf(r, Sched!Order(r)[ci + 1]) = ci /\ PlaceOf(r, Sched!Order(r)[cj + 1]) = cj
    BY OrderOf
  <2> QED
    BY <2>1, <2>2
<1>9. k = l
  <2>1. dev(r, ci, k) = dev(r, ci, l)
    BY <1>6, <1>7, <1>8
  <2>2. \A x \in 1..(n + 1) : x # ConcAt(r) =>
          IsoAt(r, x) \in 1..n /\ DeviceAt(r, ci, IsoAt(r, x)) \in 1..n
    BY <1>1, FieldsOf
  <2>3. (k = ConcAt(r)) <=> (l = ConcAt(r))
    BY <2>1, <2>2, <1>1, <1>7 DEF PlanTypes
  <2>4. CASE k # ConcAt(r)
    <3>1. IsoAt(r, k) = IsoAt(r, l)
      BY <2>1, <2>2, <2>3, <2>4, <1>1, <1>7, DevicesTurn
    <3> QED
      BY <3>1, <1>1 DEF IsoAt, PlanTypes
  <2> QED
    BY <2>3, <2>4
<1> QED
  BY <1>2, <1>3, <1>7, <1>8, <1>9

LEMMA PlanUnique == PlanInv => Sched!PathsUnique
<1> SUFFICES ASSUME PlanInv PROVE Sched!PathsUnique
  OBVIOUS
<1> DEFINE L == Len(rows)
           path == [i \in 1..L |-> rows[i].path]
           S == {rows[i].path : i \in 1..L}
<1>1. L \in Nat
  BY DEF PlanInv
<1>2. path \in Bijection(1..L, S)
  <2>1. path \in [1..L -> S] /\ \A i \in 1..L : path[i] = rows[i].path
    OBVIOUS
  <2>2. \A i, j \in 1..L : path[i] = path[j] => i = j
    BY <2>1, OnePathEach
  <2>3. \A x \in S : \E i \in 1..L : path[i] = x
    OBVIOUS
  <2> HIDE DEF L, path, S
  <2> QED
    BY <2>1, <2>2, <2>3, Fun_IsBij
<1>3. IsFiniteSet(1..L) /\ Cardinality(1..L) = L
  BY <1>1, FS_Interval
<1>4. Cardinality(S) = L
  <2> HIDE DEF L, path, S
  <2> QED
    BY <1>2, <1>3, FS_Bijection DEF ExistsBijection
<1> QED
  BY <1>4, SameCardinality DEF Sched!PathsUnique

-----------------------------------------------------------------------------
(* The finished plan *)

LEMMA DonePlace ==
  ASSUME PlanInv, Sched!Done, NEW r \in Sched!Repeats, NEW ci \in Indices,
         NEW k \in 1..(n + 1)
  PROVE  /\ Place(r, ci, k) \in 1..Len(rows)
         /\ rows[Place(r, ci, k)] = Sched!Pass(r, ci)[k]
<1> DEFINE w == n + 1
           x == Number(r, ci)
<1>1. n \in Nat
  BY PlanIsTyped DEF PlanTypes
<1>2. w \in Nat /\ w >= 1 /\ k \in 1..w /\ 1 \in 1..w /\ x \in Nat /\ x < 49 /\ 49 \in Nat
  BY <1>1 DEF Number, Sched!Repeats, Indices
<1>3. Number(repeat, config_index) = 49 /\ Len(rows) = 49 * w
  BY DEF PlanInv, Sched!Done, Number
<1> HIDE DEF w, x
<1>4. x * w + k < 49 * w + 1 /\ x * w \in Nat
  BY <1>2, PlaceOrder
<1>5. x * w + k \in 1..(49 * w)
  <2> DEFINE xw == x * w
  <2>1. xw \in Nat /\ xw + k < 49 * w + 1
    BY <1>4
  <2> HIDE DEF xw
  <2>2. xw + k \in 1..(49 * w)
    BY <2>1, <1>2
  <2> QED
    BY <2>2 DEF xw
<1>6. Place(r, ci, k) \in 1..Len(rows)
  BY <1>3, <1>5 DEF Place, x, w
<1>7. rows[Place(r, ci, k)] = Sched!Pass(r, ci)[k]
  BY <1>2, <1>3 DEF PlanInv, x, w
<1> QED
  BY <1>6, <1>7

Conditions == {"concurrent", "isolated"}

LEMMA Among ==
  ASSUME PlanInv, Sched!Done, NEW c \in Sched!Configs, NEW r \in Sched!Repeats,
         NEW condition \in Conditions, NEW i
  PROVE  i \in Sched!PhasesOf(c, r, condition) <=>
           \E k \in 1..(n + 1) : /\ i = Place(r, PlaceOf(r, c), k)
                                 /\ (k = ConcAt(r)) <=> (condition = "concurrent")
<1>1. PlanTypes
  BY PlanIsTyped
<1>2. PlaceOf(r, c) \in Indices /\ Sched!Order(r)[PlaceOf(r, c) + 1] = c
  BY OrderOf
<1>3. ASSUME i \in Sched!PhasesOf(c, r, condition)
      PROVE  \E k \in 1..(n + 1) : /\ i = Place(r, PlaceOf(r, c), k)
                                   /\ (k = ConcAt(r)) <=> (condition = "concurrent")
  <2>1. /\ i \in 1..Len(rows) /\ rows[i].config = c /\ rows[i].repeat = r
        /\ rows[i].condition = condition
    BY <1>3 DEF Sched!PhasesOf
  <2>2. PICK q \in Sched!Repeats, cj \in Indices, k \in 1..(n + 1) :
          i = Place(q, cj, k) /\ rows[i] = Sched!Pass(q, cj)[k]
    BY <2>1, PlacedAt
  <2>3. /\ Sched!Order(q)[cj + 1] = c /\ q = r
        /\ k = ConcAt(q) => condition = "concurrent"
        /\ k # ConcAt(q) => condition = "isolated"
    BY <2>1, <2>2, <1>1, FieldsOf
  <2>4. cj = PlaceOf(r, c)
    BY <2>3, OrderOf
  <2>5. (k = ConcAt(r)) <=> (condition = "concurrent")
    BY <2>3
  <2> QED
    BY <2>2, <2>3, <2>4, <2>5
<1>4. ASSUME NEW k \in 1..(n + 1), i = Place(r, PlaceOf(r, c), k),
             (k = ConcAt(r)) <=> (condition = "concurrent")
      PROVE  i \in Sched!PhasesOf(c, r, condition)
  <2>1. i \in 1..Len(rows) /\ rows[i] = Sched!Pass(r, PlaceOf(r, c))[k]
    BY <1>4, <1>2, DonePlace
  <2>2. /\ rows[i].config = c /\ rows[i].repeat = r
        /\ k = ConcAt(r) => rows[i].condition = "concurrent"
        /\ k # ConcAt(r) => rows[i].condition = "isolated"
    BY <2>1, <1>1, <1>2, FieldsOf
  <2>3. rows[i].condition = condition
    BY <2>2, <1>4 DEF Conditions
  <2> QED
    BY <2>1, <2>2, <2>3 DEF Sched!PhasesOf
<1> QED
  BY <1>3, <1>4

LEMMA PairedUp == PlanInv => Sched!PairsComplete
<1> SUFFICES ASSUME PlanInv, Sched!Done, NEW c \in Sched!Configs, NEW r \in Sched!Repeats
             PROVE  LET concurrent == Sched!PhasesOf(c, r, "concurrent")
                        isolated == Sched!PhasesOf(c, r, "isolated")
                    IN  /\ Cardinality(concurrent) = 1 /\ Cardinality(isolated) = n
                        /\ \A i \in concurrent : rows[i].devices = Sched!Devices
                        /\ {rows[i].devices : i \in isolated} = {<<d>> : d \in 1..n}
  BY SameCardinality DEF Sched!PairsComplete
<1> DEFINE concurrent == Sched!PhasesOf(c, r, "concurrent")
           isolated == Sched!PhasesOf(c, r, "isolated")
           ci == PlaceOf(r, c)
           others == (1..(n + 1)) \ {ConcAt(r)}
<1>1. PlanTypes /\ n \in Nat
  BY PlanIsTyped DEF PlanTypes
<1>2. ci \in Indices
  BY OrderOf
<1>3. ConcAt(r) \in 1..(n + 1)
  BY <1>1 DEF ConcAt
<1>4. \A i : i \in concurrent <=> i = Place(r, ci, ConcAt(r))
  BY <1>3, Among DEF Conditions
<1>5. \A i : i \in isolated <=> \E k \in others : i = Place(r, ci, k)
  BY Among DEF Conditions
<1> HIDE DEF concurrent, isolated, ci
<1>6. Cardinality(concurrent) = 1
  <2>1. concurrent = {Place(r, ci, ConcAt(r))}
    BY <1>4
  <2> QED
    BY <2>1, FS_Singleton
<1>7. IsFiniteSet(others) /\ Cardinality(others) = n
  <2>1. IsFiniteSet(1..(n + 1)) /\ Cardinality(1..(n + 1)) = n + 1
    BY <1>1, FS_Interval, 1 \in Int, n + 1 \in Int
  <2> DEFINE all == 1..(n + 1)
  <2> HIDE DEF all
  <2>2. IsFiniteSet(all) /\ Cardinality(all) = n + 1 /\ ConcAt(r) \in all
    BY <2>1, <1>3 DEF all
  <2>3. IsFiniteSet(all \ {ConcAt(r)}) /\ Cardinality(all \ {ConcAt(r)}) = n + 1 - 1
    <3>1. /\ IsFiniteSet(all \ {ConcAt(r)})
          /\ Cardinality(all \ {ConcAt(r)}) =
               IF ConcAt(r) \in all THEN Cardinality(all) - 1 ELSE Cardinality(all)
      BY <2>2, FS_RemoveElement, Zenon
    <3>2. Cardinality(all) - 1 = n + 1 - 1
      BY <2>2, <1>1
    <3> QED
      BY <3>1, <3>2, <2>2, Zenon
  <2>4. n + 1 - 1 = n
    BY <1>1
  <2> QED
    BY <2>3, <2>4 DEF all
<1>8. Cardinality(isolated) = n
  <2> DEFINE f == [k \in others |-> Place(r, ci, k)]
  <2>1. f \in [others -> isolated]
    BY <1>5
  <2>2. \A k, l \in others : f[k] = f[l] => k = l
    BY <1>1, <1>2, PlacesDiffer
  <2>3. \A i \in isolated : \E k \in others : f[k] = i
    BY <1>5
  <2>4. f \in Bijection(others, isolated)
    <3> HIDE DEF f, others
    <3> QED
      BY <2>1, <2>2, <2>3, Fun_IsBij
  <2> HIDE DEF f, others
  <2> QED
    BY <2>4, <1>7, FS_Bijection DEF ExistsBijection
<1>9. ASSUME NEW i \in concurrent PROVE rows[i].devices = Sched!Devices
  <2>1. rows[i] = Sched!Pass(r, ci)[ConcAt(r)]
    BY <1>2, <1>3, <1>4, DonePlace
  <2> QED
    BY <2>1, <1>1, <1>2, <1>3, FieldsOf
<1>10. ASSUME NEW i \in isolated PROVE \E d \in 1..n : rows[i].devices = <<d>>
  <2>1. PICK k \in others : i = Place(r, ci, k)
    BY <1>5
  <2>2. rows[i] = Sched!Pass(r, ci)[k]
    BY <2>1, <1>2, DonePlace
  <2> QED
    BY <2>1, <2>2, <1>1, <1>2, FieldsOf
<1>11. ASSUME NEW d \in 1..n PROVE \E i \in isolated : rows[i].devices = <<d>>
  <2>1. PICK j \in 1..n : DeviceAt(r, ci, j) = d
    BY <1>1, <1>2, DevicesTurn
  <2> DEFINE k == IF Sched!ConcurrentLast(r) THEN j ELSE j + 1
  <2>2. k \in others /\ IsoAt(r, k) = j
    BY <1>1 DEF ConcAt, IsoAt
  <2> HIDE DEF k
  <2>3. Place(r, ci, k) \in isolated
    BY <2>2, <1>5
  <2>4. rows[Place(r, ci, k)] = Sched!Pass(r, ci)[k]
    BY <2>2, <1>2, DonePlace
  <2>5. Sched!Pass(r, ci)[k].devices = <<d>>
    BY <2>1, <2>2, <1>1, <1>2, FieldsOf
  <2> QED
    BY <2>3, <2>4, <2>5
<1>12. {rows[i].devices : i \in isolated} = {<<d>> : d \in 1..n}
  BY <1>10, <1>11
<1> QED
  BY <1>6, <1>8, <1>9, <1>12 DEF concurrent, isolated

\* Of two different positions of a pass, the one of the lower number comes first.
LEMMA OrderInPass ==
  ASSUME PlanTypes, NEW r \in Sched!Repeats, NEW ci \in Indices,
         NEW k \in 1..(n + 1), NEW l \in 1..(n + 1)
  PROVE  Place(r, ci, k) < Place(r, ci, l) <=> k < l
<1>1. Number(r, ci) \in Nat /\ n + 1 \in Nat
  BY DEF Number, Sched!Repeats, Indices, PlanTypes
<1> DEFINE x == Number(r, ci) * (n + 1)
<1>2. x \in Nat
  BY <1>1
<1> HIDE DEF x
<1>3. x + k < x + l <=> k < l
  BY <1>2, <1>1
<1> QED
  BY <1>3 DEF Place, x

\* One condition of a configuration precedes the other where the concurrent phase is on
\* the right side of the pass.
LEMMA PrecedesWhere ==
  ASSUME PlanInv, Sched!Done, NEW c \in Sched!Configs, NEW r \in Sched!Repeats
  PROVE  /\ (\A i \in Sched!PhasesOf(c, r, "concurrent"),
                j \in Sched!PhasesOf(c, r, "isolated") : i < j) <=> ~Sched!ConcurrentLast(r)
         /\ (\A i \in Sched!PhasesOf(c, r, "isolated"),
                j \in Sched!PhasesOf(c, r, "concurrent") : i < j) <=> Sched!ConcurrentLast(r)
<1> DEFINE concurrent == Sched!PhasesOf(c, r, "concurrent")
           isolated == Sched!PhasesOf(c, r, "isolated")
           ci == PlaceOf(r, c)
           others == (1..(n + 1)) \ {ConcAt(r)}
           at(k) == Place(r, ci, k)
<1>1. PlanTypes
  BY PlanIsTyped
<1>2. ci \in Indices
  BY OrderOf
<1>3. ConcAt(r) \in 1..(n + 1)
  BY <1>1 DEF ConcAt, PlanTypes
<1>4. \A i : i \in concurrent <=> i = at(ConcAt(r))
  BY <1>3, Among DEF Conditions
<1>5. \A i : i \in isolated <=> \E k \in others : i = at(k)
  BY Among DEF Conditions
<1>6. \A k, l \in 1..(n + 1) : at(k) < at(l) <=> k < l
  BY <1>1, <1>2, OrderInPass
<1> HIDE DEF concurrent, isolated, ci, at
<1>7. (\A i \in concurrent, j \in isolated : i < j) <=> \A k \in others : ConcAt(r) < k
  BY <1>3, <1>4, <1>5, <1>6
<1>8. (\A i \in isolated, j \in concurrent : i < j) <=> \A k \in others : k < ConcAt(r)
  BY <1>3, <1>4, <1>5, <1>6
<1>9. CASE Sched!ConcurrentLast(r)
  <2>1. /\ 1 \in others /\ ~(ConcAt(r) < 1)
        /\ \A k \in others : k < ConcAt(r)
    BY <1>1, <1>9 DEF ConcAt, PlanTypes
  <2> QED
    BY <2>1, <1>7, <1>8, <1>9, Zenon DEF concurrent, isolated
<1>10. CASE ~Sched!ConcurrentLast(r)
  <2>1. /\ n + 1 \in others /\ ~(n + 1 < ConcAt(r))
        /\ \A k \in others : ConcAt(r) < k
    BY <1>1, <1>10 DEF ConcAt, PlanTypes
  <2> QED
    BY <2>1, <1>7, <1>8, <1>10, Zenon DEF concurrent, isolated
<1> QED
  BY <1>9, <1>10

LEMMA ThreeElements ==
  ASSUME NEW x, NEW y, NEW z, x # y, y # z, x # z
  PROVE  Cardinality({x, y, z}) = 3
<1>1. IsFiniteSet({x}) /\ Cardinality({x}) = 1
  BY FS_Singleton
<1>2. IsFiniteSet({x} \cup {y}) /\ Cardinality({x} \cup {y}) = 2
  BY <1>1, FS_AddElement
<1>3. Cardinality(({x} \cup {y}) \cup {z}) = 3
  BY <1>2, FS_AddElement
<1>4. ({x} \cup {y}) \cup {z} = {x, y, z}
  OBVIOUS
<1> QED
  BY <1>3, <1>4

LEMMA ConcurrentAlternate == PlanInv => Sched!ConcurrentAlternates
<1> SUFFICES ASSUME PlanInv, Sched!Done, NEW c \in Sched!Configs
             PROVE  LET Precede(r, one, other) ==
                          \A i \in Sched!PhasesOf(c, r, one), j \in Sched!PhasesOf(c, r, other) :
                            i < j
                    IN  /\ Cardinality({r \in 1..6 : Precede(r, "concurrent", "isolated")}) = 3
                        /\ Cardinality({r \in 1..6 : Precede(r, "isolated", "concurrent")}) = 3
  BY SameCardinality DEF Sched!ConcurrentAlternates
<1> DEFINE Precede(r, one, other) ==
             \A i \in Sched!PhasesOf(c, r, one), j \in Sched!PhasesOf(c, r, other) : i < j
<1>1. \A r \in 1..6 : r \in Sched!Repeats
  BY DEF Sched!Repeats
<1>2. \A r \in 1..6 : /\ Precede(r, "concurrent", "isolated") <=> ~Sched!ConcurrentLast(r)
                      /\ Precede(r, "isolated", "concurrent") <=> Sched!ConcurrentLast(r)
  BY <1>1, PrecedesWhere
<1> HIDE DEF Precede
<1>3. {r \in 1..6 : Precede(r, "concurrent", "isolated")} = {2, 4, 6}
  <2>1. \A r \in 1..6 : ~Sched!ConcurrentLast(r) <=> r \in {2, 4, 6}
    BY DEF Sched!ConcurrentLast
  <2>2. {2, 4, 6} \subseteq 1..6
    OBVIOUS
  <2> QED
    BY <1>2, <2>1, <2>2
<1>4. {r \in 1..6 : Precede(r, "isolated", "concurrent")} = {1, 3, 5}
  <2>1. \A r \in 1..6 : Sched!ConcurrentLast(r) <=> r \in {1, 3, 5}
    BY DEF Sched!ConcurrentLast
  <2>2. {1, 3, 5} \subseteq 1..6
    OBVIOUS
  <2> QED
    BY <1>2, <2>1, <2>2
<1>5. Cardinality({2, 4, 6}) = 3 /\ Cardinality({1, 3, 5}) = 3
  <2>1. 2 # 4 /\ 4 # 6 /\ 2 # 6 /\ 1 # 3 /\ 3 # 5 /\ 1 # 5
    OBVIOUS
  <2> QED
    BY <2>1, ThreeElements, Zenon
<1> QED
  BY <1>3, <1>4, <1>5 DEF Precede

\* What of the order of one repeat is before a configuration.
LEMMA BeforeIn ==
  ASSUME PlanInv, Sched!Done, NEW c \in Sched!Configs, NEW d \in Sched!Configs,
         NEW r \in Sched!Repeats
  PROVE  (\E i, j \in 1..Len(rows) :
            /\ i < j /\ rows[i].config = d /\ rows[j].config = c /\ d # c
            /\ rows[i].repeat = r /\ rows[j].repeat = r)
         <=> PlaceOf(r, d) < PlaceOf(r, c)
<1>1. PlanTypes
  BY PlanIsTyped
<1>2. /\ PlaceOf(r, c) \in Indices /\ Sched!Order(r)[PlaceOf(r, c) + 1] = c
      /\ PlaceOf(r, d) \in Indices /\ Sched!Order(r)[PlaceOf(r, d) + 1] = d
  BY OrderOf
<1>3. \A ci, cj \in Indices, k, l \in 1..(n + 1) :
        ci < cj => Place(r, ci, k) < Place(r, cj, l)
  <2> SUFFICES ASSUME NEW ci \in Indices, NEW cj \in Indices, NEW k \in 1..(n + 1),
                      NEW l \in 1..(n + 1), ci < cj
               PROVE  Place(r, ci, k) < Place(r, cj, l)
    OBVIOUS
  <2> DEFINE x == Number(r, ci)
             y == Number(r, cj)
             w == n + 1
  <2>1. x \in Nat /\ y \in Nat /\ x < y /\ w \in Nat /\ k \in 1..w /\ l \in 1..w
    BY <1>1 DEF Number, Indices, Sched!Repeats, PlanTypes
  <2> HIDE DEF x, y, w
  <2>2. x * w + k < y * w + l
    BY <2>1, PlaceOrder
  <2> QED
    BY <2>2 DEF Place, x, y, w
<1>4. ASSUME PlaceOf(r, d) < PlaceOf(r, c)
      PROVE  \E i, j \in 1..Len(rows) :
               /\ i < j /\ rows[i].config = d /\ rows[j].config = c /\ d # c
               /\ rows[i].repeat = r /\ rows[j].repeat = r
  <2> DEFINE i == Place(r, PlaceOf(r, d), 1)
             j == Place(r, PlaceOf(r, c), 1)
  <2>1. 1 \in 1..(n + 1)
    BY <1>1 DEF PlanTypes
  <2>2. i \in 1..Len(rows) /\ j \in 1..Len(rows)
    BY <2>1, <1>2, DonePlace
  <2>3. rows[i].config = d /\ rows[i].repeat = r /\ rows[j].config = c /\ rows[j].repeat = r
    BY <2>1, <1>1, <1>2, DonePlace, FieldsOf
  <2>4. i < j
    BY <2>1, <1>2, <1>3, <1>4
  <2>5. d # c
    BY <1>2, <1>4 DEF Indices
  <2> HIDE DEF i, j
  <2> QED
    BY <2>2, <2>3, <2>4, <2>5
<1>5. ASSUME NEW i \in 1..Len(rows), NEW j \in 1..Len(rows),
             i < j, rows[i].config = d, rows[j].config = c, d # c,
             rows[i].repeat = r, rows[j].repeat = r
      PROVE  PlaceOf(r, d) < PlaceOf(r, c)
  <2>1. PICK q \in Sched!Repeats, ci \in Indices, k \in 1..(n + 1) :
          i = Place(q, ci, k) /\ rows[i] = Sched!Pass(q, ci)[k]
    BY PlacedAt
  <2>2. PICK s \in Sched!Repeats, cj \in Indices, l \in 1..(n + 1) :
          j = Place(s, cj, l) /\ rows[j] = Sched!Pass(s, cj)[l]
    BY PlacedAt
  <2>3. q = r /\ s = r /\ Sched!Order(q)[ci + 1] = d /\ Sched!Order(s)[cj + 1] = c
    BY <2>1, <2>2, <1>1, <1>5, FieldsOf
  <2>4. ci = PlaceOf(r, d) /\ cj = PlaceOf(r, c)
    BY <2>3, OrderOf
  <2>5. ~(cj < ci)
    <3> SUFFICES ASSUME cj < ci PROVE FALSE
      OBVIOUS
    <3>1. j < i
      BY <1>3, <2>1, <2>2, <2>3
    <3> QED
      BY <3>1, <1>5, i \in Int, j \in Int
  <2>6. ci # cj
    BY <2>3, <1>5
  <2> QED
    BY <2>4, <2>5, <2>6, <1>2 DEF Indices
<1> QED
  BY <1>4, <1>5

LEMMA ConfigurationsTurn == PlanInv => Sched!ConfigurationsRotate
<1> DEFINE Before(c, r) ==
             {d \in Sched!Configs : \E i, j \in 1..Len(rows) :
                /\ i < j /\ rows[i].config = d /\ rows[j].config = c /\ d # c
                /\ rows[i].repeat = r /\ rows[j].repeat = r}
<1> SUFFICES ASSUME PlanInv, Sched!Done, NEW c \in Sched!Configs
             PROVE  {Sched!Cardinality(Before(c, r)) : r \in Sched!Repeats}
                      = 0..(Sched!NrConfigs - 1)
  BY Zenon DEF Sched!ConfigurationsRotate
<1>1. ASSUME NEW r \in Sched!Repeats PROVE Cardinality(Before(c, r)) = PlaceOf(r, c)
  <2> DEFINE p == PlaceOf(r, c)
             S == Before(c, r)
             f == [x \in 0..(p - 1) |-> Sched!Order(r)[x + 1]]
  <2>1. p \in Indices
    BY OrderOf
  <2>2. S = {d \in Sched!Configs : PlaceOf(r, d) < p}
    BY BeforeIn
  <2> HIDE DEF S
  <2>3. \A x \in 0..(p - 1) : x \in Indices
    BY <2>1 DEF Indices
  <2>4. \A x \in 0..(p - 1) : f[x] \in Sched!Configs /\ PlaceOf(r, f[x]) = x
    BY <2>3, OrderOf
  <2>5. f \in [0..(p - 1) -> S]
    <3>1. \A x \in 0..(p - 1) : f[x] \in S
      BY <2>1, <2>2, <2>4 DEF Indices
    <3> QED
      BY <3>1
  <2>6. \A x, y \in 0..(p - 1) : f[x] = f[y] => x = y
    BY <2>4
  <2>7. \A d \in S : \E x \in 0..(p - 1) : f[x] = d
    <3> SUFFICES ASSUME NEW d \in S PROVE \E x \in 0..(p - 1) : f[x] = d
      OBVIOUS
    <3>1. d \in Sched!Configs /\ PlaceOf(r, d) < p
      BY <2>2
    <3>2. PlaceOf(r, d) \in Indices /\ Sched!Order(r)[PlaceOf(r, d) + 1] = d
      BY <3>1, OrderOf
    <3>3. PlaceOf(r, d) \in 0..(p - 1)
      BY <3>1, <3>2, <2>1 DEF Indices
    <3> QED
      BY <3>2, <3>3
  <2>8. IsFiniteSet(0..(p - 1)) /\ Cardinality(0..(p - 1)) = p
    <3>1. p \in Nat /\ p - 1 \in Int /\ 0 \in Int
      BY <2>1 DEF Indices
    <3> HIDE DEF p
    <3> QED
      BY <3>1, FS_Interval
  <2> DEFINE I == 0..(p - 1)
  <2>9. f \in Bijection(I, S)
    <3> HIDE DEF f, I
    <3> QED
      BY <2>5, <2>6, <2>7, Fun_IsBij DEF I
  <2> HIDE DEF f, I
  <2> QED
    BY <2>8, <2>9, FS_Bijection DEF ExistsBijection, S, I
<1>2. \A r \in Sched!Repeats : PlaceOf(r, c) \in 0..6
  BY OrderOf DEF Indices
<1>3. \A p \in 0..6 : \E r \in Sched!Repeats : PlaceOf(r, c) = p
  <2> SUFFICES ASSUME NEW p \in 0..6 PROVE \E r \in Sched!Repeats : PlaceOf(r, c) = p
    OBVIOUS
  <2>1. c \in 0..6
    BY DEF Sched!Configs, Sched!NrConfigs
  <2>2. CASE c >= p
    BY <2>1, <2>2, c - p + 1 \in Sched!Repeats, PlaceOf(c - p + 1, c) = p
    DEF PlaceOf, Sched!Repeats
  <2>3. CASE c < p
    BY <2>1, <2>3, c - p + 8 \in Sched!Repeats, PlaceOf(c - p + 8, c) = p
    DEF PlaceOf, Sched!Repeats
  <2> QED
    BY <2>1, <2>2, <2>3
<1>4. 0..(Sched!NrConfigs - 1) = 0..6
  BY DEF Sched!NrConfigs
<1> HIDE DEF Before
<1>5. \A r \in Sched!Repeats : Sched!Cardinality(Before(c, r)) = PlaceOf(r, c)
  BY <1>1, SameCardinality
<1> QED
  BY <1>2, <1>3, <1>4, <1>5

LEMMA PlanTyped == PlanInv => Sched!TypeOK
<1> SUFFICES ASSUME PlanInv PROVE Sched!TypeOK
  OBVIOUS
<1>1. ASSUME NEW i \in 1..Len(rows)
      PROVE  rows[i].config \in Sched!Configs /\ rows[i].repeat \in Sched!Repeats
  <2>1. PICK r \in Sched!Repeats, ci \in Indices, k \in 1..(n + 1) :
          i = Place(r, ci, k) /\ rows[i] = Sched!Pass(r, ci)[k]
    BY PlacedAt
  <2>2. rows[i].config = Sched!Order(r)[ci + 1] /\ rows[i].repeat = r
    BY <2>1, FieldsOf, PlanIsTyped
  <2> QED
    BY <2>2, OrderOf
<1>2. Indices = 0..(Sched!NrConfigs - 1)
  BY DEF Indices, Sched!NrConfigs
<1>3. n \in DeviceCounts /\ repeat \in 1..8 /\ config_index \in 0..(Sched!NrConfigs - 1)
  BY <1>2 DEF PlanInv
<1> QED
  BY <1>1, <1>3, Zenon DEF Sched!TypeOK

-----------------------------------------------------------------------------
(* The three parts together *)

LEMMA EachPart == MCSpec => Spec /\ Sched!Spec /\ Gate!Spec
<1>1. MCInit => Init /\ Sched!Init /\ Gate!Init
  BY DEF MCInit
<1>2. [MCNext]_allVars => [Next]_vars
  BY DEF MCNext, allVars
<1>3. [MCNext]_allVars => [Sched!Next]_(Sched!vars)
  BY DEF MCNext, allVars, planVars, Sched!vars
<1>4. [MCNext]_allVars => [Gate!Next]_(Gate!vars)
  BY DEF MCNext, allVars, gateVars, Gate!vars, Gate!shellVars, Gate!fileVars
<1>5. MCSpec => Spec
  BY <1>1, <1>2, PTL DEF MCSpec, Spec
<1>6. MCSpec => Sched!Spec
  BY <1>1, <1>3, PTL DEF MCSpec, Sched!Spec
<1>7. MCSpec => Gate!Spec
  BY <1>1, <1>4, PTL DEF MCSpec, Gate!Spec
<1> QED
  BY <1>5, <1>6, <1>7

\* The proofs about the waves, at the constants of this program.
G == INSTANCE GateWave_proofs

\* Its waves are those GateWave_proofs is about.
LEMMA SameWaves == Gate!Spec => G!Spec
<1> USE DEF Gate!Procs, G!Procs, Gate!Waves, G!Waves, Gate!Devices, G!Devices,
            Gate!shellVars, G!shellVars, Gate!fileVars, G!fileVars, Gate!vars, G!vars
<1>1. Gate!Init => G!Init
  BY DEF Gate!Init, G!Init
<1>2. Gate!Running = G!Running /\ Gate!Ended = G!Ended
  BY DEF Gate!Running, G!Running, Gate!Ended, G!Ended
<1>3. Gate!Script => G!Script
  <2>1. Gate!Start \/ Gate!Open \/ Gate!Launch => G!Start \/ G!Open \/ G!Launch
    BY DEF Gate!Start, G!Start, Gate!Open, G!Open, Gate!Launch, G!Launch, Gate!CloseGate,
           G!CloseGate
  <2>2. Gate!Append_ \/ Gate!OpenGate \/ Gate!Close => G!Append_ \/ G!OpenGate \/ G!Close
    BY DEF Gate!Append_, G!Append_, Gate!OpenGate, G!OpenGate, Gate!Close, G!Close,
           Gate!CloseGate, G!CloseGate
  <2>3. Gate!Wait => G!Wait
    BY <1>2 DEF Gate!Wait, G!Wait, Gate!NextWait, G!NextWait, Gate!Accepted, G!Accepted
  <2>4. Gate!Aggregate => G!Aggregate
    BY DEF Gate!Aggregate, G!Aggregate
  <2> QED
    BY <2>1, <2>2, <2>3, <2>4 DEF Gate!Script, G!Script
<1>4. Gate!Kill => G!Kill
  BY <1>2 DEF Gate!Kill, G!Kill
<1>5. (Gate!Fail => G!Fail) /\ (Gate!Signal => G!Signal)
  BY <1>2, <1>4 DEF Gate!Fail, G!Fail, Gate!Signal, G!Signal, Gate!Interrupted,
                    G!Interrupted, Gate!NextWait, G!NextWait, Gate!Accepted, G!Accepted
<1>6. (Gate!Crash => G!Crash) /\ (Gate!Restart => G!Restart)
  BY <1>2 DEF Gate!Crash, G!Crash, Gate!Restart, G!Restart
<1>7. ASSUME NEW p, Gate!Process(p) PROVE G!Process(p)
  <2> USE DEF Gate!Becomes, G!Becomes
  <2>1. (Gate!Poll(p) => G!Poll(p)) /\ (Gate!Stream(p) => G!Stream(p))
    BY DEF Gate!Poll, G!Poll, Gate!Stream, G!Stream
  <2>2. Gate!Die(p) => G!Die(p)
    BY <1>2 DEF Gate!Die, G!Die
  <2> QED
    BY <1>7, <2>1, <2>2 DEF Gate!Process, G!Process
<1>8. Gate!Next => G!Next
  BY <1>3, <1>5, <1>6, <1>7, Zenon DEF Gate!Next, G!Next
<1>9. [Gate!Next]_(Gate!vars) => [G!Next]_(G!vars)
  BY <1>8
<1> QED
  BY <1>1, <1>9, PTL DEF Gate!Spec, G!Spec

LEMMA SameAssumptions == G!Assumptions
BY PartsAssumption DEF Gate!Assumptions, G!Assumptions

\* For every number of configurations and devices, and however often the job is
\* signalled and restarted, the processes of a wave stream together, alone, and each
\* sum is over all of them (worker.sh:140-214).
THEOREM WavesOfTheRun == MCSpec => []WavesAreSound
<1>1. G!Spec => []G!WavesRunTogether /\ []G!SumsAreWhole
  BY SameAssumptions, G!ProcessesRunTogether, G!EverySumIsWhole
<1>2. G!WavesRunTogether => Gate!WavesRunTogether
  BY DEF G!WavesRunTogether, Gate!WavesRunTogether, G!Procs, Gate!Procs, G!Waves,
         Gate!Waves, G!Devices, Gate!Devices, G!Running, Gate!Running
<1>3. G!SumsAreWhole => Gate!SumsAreWhole
  BY DEF G!SumsAreWhole, Gate!SumsAreWhole, G!Procs, Gate!Procs, G!Waves, Gate!Waves,
         G!Devices, Gate!Devices, G!Cardinality, Gate!Cardinality
<1> QED
  BY <1>1, <1>2, <1>3, SameWaves, EachPart, PTL DEF WavesAreSound

\* No two of the planned phases share a directory, for every number of devices
\* (run_campaign.py:31-51, 84).
THEOREM PathsOfTheRun == MCSpec => []PathsUnique
<1>1. PlanInv => PathsUnique
  BY PlanUnique DEF PathsUnique
<1> QED
  BY <1>1, PlanIsInductive, EachPart, PTL

\* The finished plan has, for every configuration and repeat, the phases that
\* pair_phases demands, for every number of devices (analyze.py:182-194).
THEOREM PairsOfTheRun == MCSpec => []PairsComplete
<1>1. PlanInv => PairsComplete
  BY PairedUp DEF PairsComplete
<1> QED
  BY <1>1, PlanIsInductive, EachPart, PTL

\* Configurations rotate through all places and the concurrent phase alternates, for
\* every number of devices (run_campaign.py:28-29).
THEOREM BalanceOfTheRun == MCSpec => []PlanIsBalanced
<1>1. PlanInv => PlanIsBalanced
  BY ConfigurationsTurn, ConcurrentAlternate DEF PlanIsBalanced, Sched!PlanIsBalanced
<1> QED
  BY <1>1, PlanIsInductive, EachPart, PTL

LEMMA WavesTyped == MCSpec => []Gate!TypeOK
<1>1. G!Spec => []G!TypeOK
  BY SameAssumptions, G!TypesAreKept
<1>2. G!TypeOK => Gate!TypeOK
  BY DEF G!TypeOK, Gate!TypeOK, G!Procs, Gate!Procs, G!Waves, Gate!Waves, G!Devices,
         Gate!Devices, G!Ended, Gate!Ended
<1> QED
  BY <1>1, <1>2, SameWaves, EachPart, PTL

\* The types of all three parts.
THEOREM TypesOfTheRun == MCSpec => []MCTypeOK
<1>1. PlanInv => Sched!TypeOK
  BY PlanTyped
<1>2. TypeOK /\ Sched!TypeOK /\ Gate!TypeOK => MCTypeOK
  BY DEF MCTypeOK
<1> QED
  BY <1>1, <1>2, PlanIsInductive, TypeCorrect, WavesTyped, EachPart, PTL
=============================================================================
