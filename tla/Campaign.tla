------------------------------ MODULE Campaign ------------------------------
(***************************************************************************)
(* The campaign loop: main of                                              *)
(* experiments/triad_partition_controlled/run_campaign.py with --execute,  *)
(* running the phases of its plan one after another, and the acceptance    *)
(* rule of analyze.py over the files it leaves.                            *)
(*                                                                         *)
(* A phase is whatever PhaseContract allows (TriadPhase implements it), so *)
(* this module composes the loop with every phase run_phase can perform.   *)
(* Time is counted in seconds; each long operation takes one of a given    *)
(* set of durations.                                                       *)
(***************************************************************************)
EXTENDS Naturals, FiniteSets

CONSTANTS
  NrPhases,       \* len(plan)
  Workers,        \* the workers of a phase
  PhaseTimes,     \* how long a phase may take
  CaptureTimes,   \* how long the preflight or postflight capture may take
  StopAfter,      \* no phase is started later than this (1010)
  Budget          \* execution_budget_seconds of the manifest (1050)

ASSUME NrPhasesAssumption == NrPhases \in Nat \ {0}
ASSUME TimesAssumption ==
  /\ PhaseTimes \subseteq Nat /\ CaptureTimes \subseteq Nat
  /\ StopAfter \in Nat /\ Budget \in Nat

VARIABLES
  mpc,       \* where main is
  current,   \* index in the plan of the phase being run or run next
  executed,  \* the counter executed
  failures,  \* the counter failures
  elapsed,   \* time.monotonic() - started
  same,      \* the devices captured at the end are those captured before
  campaign,  \* contents of campaign_status.json
  files,     \* contents of each phase's status.json
  stage, arrived, verdict, ended   \* the phase in progress

Phase == INSTANCE PhaseContract

mainVars == <<mpc, current, executed, failures, elapsed, same, campaign, files>>
phaseVars == <<stage, arrived, verdict, ended>>
vars == <<mainVars, phaseVars>>

Plan == 1..NrPhases

TypeOK ==
  /\ mpc \in {"preflight", "loop", "phase", "returned", "publish", "publishing",
              "leaving", "except", "failing", "exited"}
  /\ current \in 1..(NrPhases + 1)
  /\ executed \in 0..NrPhases /\ failures \in 0..NrPhases
  /\ elapsed \in Nat
  /\ same \in BOOLEAN
  /\ campaign \in {"absent", "torn", "complete", "incomplete", "failed"}
  /\ files \in [Plan -> {"none", "ok", "failed"}]
  /\ Phase!TypeOK

Init ==
  /\ mpc = "preflight" /\ current = 1 /\ executed = 0 /\ failures = 0 /\ elapsed = 0
  /\ same = TRUE /\ campaign = "absent"
  /\ files = [i \in Plan |-> "none"]
  /\ Phase!Init

\* The body of main's try statement.
TryPcs == {"preflight", "loop", "phase", "returned", "publish", "publishing",
           "leaving"}

-----------------------------------------------------------------------------
\* The tools, the binary, the capture of the devices, the plan and the manifest.
Preflight ==
  /\ mpc = "preflight"
  /\ \E d \in CaptureTimes : elapsed' = elapsed + d
  /\ mpc' = "loop"
  /\ UNCHANGED <<current, executed, failures, same, campaign, files, phaseVars>>

Bug_MoreToRun == executed <= NrPhases /\ elapsed <= StopAfter    \* one phase too many

\* The loop goes on: the plan is not exhausted and there is time left.
MoreToRun == current <= NrPhases /\ elapsed <= StopAfter

\* run_phase is called: a new phase begins.
StartPhase ==
  /\ mpc = "loop"
  /\ MoreToRun
  /\ mpc' = "phase"
  /\ stage' = [w \in Workers |-> "out"] /\ arrived' = {}
  /\ verdict' = "none" /\ ended' = "no"
  /\ UNCHANGED <<current, executed, failures, elapsed, same, campaign, files>>

Bug_PhaseStep ==    \* an abandoned phase is counted like one that failed
  /\ Phase!Next
  /\ ended = "no" => mpc = "phase"
  /\ files' = IF mpc = "phase" THEN [files EXCEPT ![current] = verdict'] ELSE files
  /\ IF ended' # ended
     THEN mpc' = "returned" /\ \E d \in PhaseTimes : elapsed' = elapsed + d
     ELSE UNCHANGED <<mpc, elapsed>>
  /\ UNCHANGED <<current, executed, failures, same, campaign>>

\* The phase takes a step of its own; what it says is on disk.  Workers it left
\* behind go on after it ended.
PhaseStep ==
  /\ Phase!Next
  /\ ended = "no" => mpc = "phase"
  /\ files' = IF mpc = "phase" THEN [files EXCEPT ![current] = verdict'] ELSE files
  /\ IF ended' # ended
     THEN /\ mpc' = IF ended' = "abandoned" THEN "except" ELSE "returned"
          /\ \E d \in PhaseTimes : elapsed' = elapsed + d
     ELSE UNCHANGED <<mpc, elapsed>>
  /\ UNCHANGED <<current, executed, failures, same, campaign>>

Bug_Count ==    \* counts only the phases that succeeded, and no failures
  /\ mpc = "returned"
  /\ mpc' = "loop"
  /\ executed' = executed + 1
  /\ current' = current + 1
  /\ UNCHANGED <<failures, elapsed, same, campaign, files, phaseVars>>

\* run_phase returned True or False.
Count ==
  /\ mpc = "returned"
  /\ mpc' = "loop"
  /\ executed' = executed + 1
  /\ failures' = IF ended = "success" THEN failures ELSE failures + 1
  /\ current' = current + 1
  /\ UNCHANGED <<elapsed, same, campaign, files, phaseVars>>

\* The second capture; different devices raise.
Postflight ==
  /\ mpc = "loop"
  /\ ~MoreToRun
  /\ \E d \in CaptureTimes : elapsed' = elapsed + d
  /\ \/ mpc' = "publish" /\ UNCHANGED same
     \/ mpc' = "except" /\ same' = FALSE
  /\ UNCHANGED <<current, executed, failures, campaign, files, phaseVars>>

Bug_Complete == failures = 0    \* forgets the phases that were not executed

Complete == executed = NrPhases /\ failures = 0

\* campaign_status.json is truncated and then written.
Publish ==
  /\ \/ mpc = "publish" /\ campaign' = "torn" /\ mpc' = "publishing"
     \/ /\ mpc = "publishing"
        /\ campaign' = IF Complete THEN "complete" ELSE "incomplete"
        /\ mpc' = "leaving"
  /\ UNCHANGED <<current, executed, failures, elapsed, same, files, phaseVars>>

\* main returns 0 or 1.
Leave ==
  /\ mpc = "leaving"
  /\ mpc' = "exited"
  /\ UNCHANGED <<current, executed, failures, elapsed, same, campaign, files, phaseVars>>

\* An exception or a signal outside a phase (inside one it is the phase that is
\* abandoned and raises).
Interrupt ==
  /\ mpc \in TryPcs \ {"phase"}
  /\ mpc' = "except"
  /\ UNCHANGED <<current, executed, failures, elapsed, same, campaign, files, phaseVars>>

Bug_Except ==    \* does not raise again, and goes on with the loop
  /\ \/ mpc = "except" /\ campaign' = "torn" /\ mpc' = "failing"
     \/ mpc = "failing" /\ campaign' = "failed" /\ mpc' = "loop"
  /\ UNCHANGED <<current, executed, failures, elapsed, same, files, phaseVars>>

\* The except clause writes the failure over whatever is there and re-raises.
Except ==
  /\ \/ mpc = "except" /\ campaign' = "torn" /\ mpc' = "failing"
     \/ mpc = "failing" /\ campaign' = "failed" /\ mpc' = "exited"
  /\ UNCHANGED <<current, executed, failures, elapsed, same, files, phaseVars>>

\* A second signal or a full disk in the except clause, or a kill at any time
\* outside a phase (inside one it is among the ways to be abandoned).
Abort ==
  /\ mpc \notin {"phase", "exited"}
  /\ mpc' = "exited"
  /\ UNCHANGED <<current, executed, failures, elapsed, same, campaign, files, phaseVars>>

-----------------------------------------------------------------------------
MainStep == Preflight \/ StartPhase \/ Count \/ Postflight \/ Publish \/ Leave \/ Except

Next == MainStep \/ PhaseStep \/ Interrupt \/ Abort

Spec == Init /\ [][Next]_vars

\* main runs, and every phase ends (PhaseReturns of TriadPhase).
Fairness == WF_vars(MainStep) /\ WF_vars(PhaseStep /\ ended' # ended)

-----------------------------------------------------------------------------
(* Properties *)

\* campaign_status.json says "complete" only if every phase of the plan has a
\* status.json that says "ok" and the devices did not change: the two counters
\* of main stand for the files that analyze.py will read (run_campaign.py:208-220).
CompleteIsSound ==
  campaign = "complete" => (\A i \in Plan : files[i] = "ok") /\ same

\* The counters account for the files: phases up to the last counted one say "ok"
\* or "failed", later ones nothing, and failures counts exactly the failed ones.
CountersMatchFiles ==
  mpc \in {"loop", "publish", "publishing"} =>
    /\ executed = current - 1
    /\ \A i \in Plan : files[i] = "none" <=> i > executed
    /\ failures = Cardinality({i \in Plan : files[i] = "failed"})

\* No phase starts while a process of an earlier phase runs: a phase that leaves one
\* raises, and main does not go on after that (run_campaign.py:149-151, 221-223).
OnePhaseAtATime == [][StartPhase => \A w \in Workers : ~Phase!Running(w)]_vars

\* A campaign ends: after the phase in progress, or by an exception.
CampaignEnds == <>(mpc = "exited")

\* The run stays within the budget its manifest declares ("execution_budget_seconds"
\* and "reserve cleanup/postflight; never shorten trials", run_campaign.py:206, 212).
BudgetKept == mpc = "exited" => elapsed <= Budget
=============================================================================
