----------------------------- MODULE MCCampaign -----------------------------
(* One run of TLC for the scripts that run experiments: the plan of the phases of
   run_campaign.py (Schedule), the loop that executes a plan (Campaign), here one
   of NrPhases phases with model values for their workers, and the waves of
   allocator_partition_concurrent (GateWave).  Init chooses the part; the others
   keep their initial state. *)
EXTENDS Campaign

CONSTANTS w1, w2, Parts, DeviceCounts, NrWaves, NrDevices, MaxSignals, MaxRestarts

VARIABLES
  part, n, repeat, config_index, rows,
  spc, wave, device, active_pids, wave_failures, gates, output, proc, doomed,
  per_device, comparison, signals, restarts

Sched == INSTANCE Schedule
Gate == INSTANCE GateWave

planVars == <<n, repeat, config_index, rows>>
gateVars == <<spc, wave, device, active_pids, wave_failures, gates, output, proc, doomed,
              per_device, comparison, signals, restarts>>
allVars == <<part, vars, planVars, gateVars>>

ASSUME PartsAssumption == Sched!DeviceCountsAssumption /\ Gate!Assumptions

MCInit ==
  /\ part \in Parts
  /\ Init /\ Sched!Init /\ Gate!Init
  /\ part # "schedule" => n = CHOOSE c \in DeviceCounts : TRUE

MCNext ==
  /\ UNCHANGED part
  /\ \/ part = "campaign" /\ Next /\ UNCHANGED <<planVars, gateVars>>
     \/ part = "schedule" /\ Sched!Next /\ UNCHANGED <<vars, gateVars>>
     \/ part = "waves" /\ Gate!Next /\ UNCHANGED <<vars, planVars>>

MCSpec ==
  /\ MCInit /\ [][MCNext]_allVars
  /\ part = "campaign" => Fairness
  /\ part = "waves" => Gate!Fairness

-----------------------------------------------------------------------------
(* The properties of the plan and the waves, and the liveness of the loops *)

\* Types of all parts.
MCTypeOK == TypeOK /\ Sched!TypeOK /\ Gate!TypeOK
\* run_campaign.py:84, see Schedule.
PathsUnique == Sched!PathsUnique
\* analyze.py:182-194, see Schedule.
PairsComplete == Sched!PairsComplete
\* run_campaign.py:28-29, see Schedule.
PlanIsBalanced == Sched!PlanIsBalanced
\* The processes of a wave run together, and each sum is over all of them
\* (worker.sh:151-214, see GateWave).
WavesAreSound == Gate!WavesRunTogether /\ Gate!SumsAreWhole
\* Both scripts end, whatever their workers do (run_campaign.py:188-224,
\* worker.sh:126-203, see Campaign and GateWave).
MainEnds ==
  /\ part = "campaign" => CampaignEnds
  /\ part = "waves" => Gate!ScriptEnds
=============================================================================
