------------------------------ MODULE Schedule ------------------------------
(***************************************************************************)
(* The predeclared phase list of the controlled TRIAD campaign: schedule   *)
(* of experiments/triad_partition_controlled/run_campaign.py, one step per *)
(* pass of its inner loop.  A configuration is its index in CONFIGS, a     *)
(* device its index in the list of devices; a path is the triple it is     *)
(* formatted from.                                                         *)
(***************************************************************************)
EXTENDS Naturals, Sequences, FiniteSets

CONSTANT DeviceCounts   \* the numbers of devices to plan for: COUNTS of topology.py

DeviceCountsAssumption == DeviceCounts \subseteq Nat \ {0}

NrConfigs == 7
Configs == 0..(NrConfigs - 1)
Repeats == 1..7

VARIABLES
  n,             \* len(devices)
  repeat,        \* the outer loop's variable
  config_index,  \* the inner loop's variable
  rows           \* the phases planned so far

vars == <<n, repeat, config_index, rows>>

Bug_Rotate(s, k) == SubSeq(s, k + 1, Len(s)) \o SubSeq(s, 2, k + 1)

\* s[k:] + s[:k]
Rotate(s, k) == SubSeq(s, k + 1, Len(s)) \o SubSeq(s, 1, k)

Bug_Order(r) == Rotate([i \in 1..NrConfigs |-> i - 1], (r - 1) % (NrConfigs - 1))

\* The configurations in the order of one repeat.
Order(r) == Rotate([i \in 1..NrConfigs |-> i - 1], (r - 1) % NrConfigs)

Bug_Traced(r) == r < 6

\* Six traced trials and one untraced round.
Traced(r) == r <= 6

Devices == [i \in 1..n |-> i]

\* The devices in the order of the isolated phases of one pass.
DeviceOrder(r, ci) == Rotate(Devices, (r - 1 + ci) % n)

\* One phase; the path separates traced trials by repeat (0 is "sensitivity") and
\* names the only device of an isolated phase (0 is "concurrent").
Row(c, r, condition, selected) ==
  [config |-> c, repeat |-> r, condition |-> condition, devices |-> selected,
   path |-> <<c, IF Traced(r) THEN r ELSE 0,
              IF condition = "concurrent" THEN 0 ELSE selected[1]>>]

ConcurrentLast(r) == r % 2 = 1

\* The phases of one configuration in one repeat.
Pass(r, ci) ==
  LET c == Order(r)[ci + 1]
      isolated == [i \in 1..n |-> Row(c, r, "isolated", <<DeviceOrder(r, ci)[i]>>)]
      concurrent == <<Row(c, r, "concurrent", Devices)>>
  IN  IF ConcurrentLast(r) THEN isolated \o concurrent ELSE concurrent \o isolated

Init ==
  /\ n \in DeviceCounts
  /\ repeat = 1
  /\ config_index = 0
  /\ rows = <<>>

Done == repeat = 8

NextIndex == (config_index + 1) % NrConfigs

Plan ==
  /\ ~Done
  /\ rows' = rows \o Pass(repeat, config_index)
  /\ config_index' = NextIndex
  /\ repeat' = IF config_index' = 0 THEN repeat + 1 ELSE repeat
  /\ UNCHANGED n

Next == Plan

Spec == Init /\ [][Next]_vars

-----------------------------------------------------------------------------
(* Properties *)

TypeOK ==
  /\ n \in DeviceCounts
  /\ repeat \in 1..8
  /\ config_index \in 0..(NrConfigs - 1)
  /\ \A i \in 1..Len(rows) : rows[i].config \in Configs /\ rows[i].repeat \in Repeats

\* The phases of one condition of a configuration and a repeat.
PhasesOf(c, r, condition) ==
  {i \in 1..Len(rows) :
     rows[i].config = c /\ rows[i].repeat = r /\ rows[i].condition = condition}

\* No two phases share a directory: run_phase creates it with exist_ok=False, so a
\* shared one would end the campaign (run_campaign.py:84).
PathsUnique == Cardinality({rows[i].path : i \in 1..Len(rows)}) = Len(rows)

\* Every configuration and repeat has what pair_phases demands (analyze.py:182-194):
\* one concurrent phase with all devices and one isolated phase for each device.
PairsComplete ==
  Done => \A c \in Configs, r \in Repeats :
    LET concurrent == PhasesOf(c, r, "concurrent")
        isolated == PhasesOf(c, r, "isolated")
    IN  /\ Cardinality(concurrent) = 1 /\ Cardinality(isolated) = n
        /\ \A i \in concurrent : rows[i].devices = Devices
        /\ {rows[i].devices : i \in isolated} = {<<d>> : d \in 1..n}

\* Over the seven repeats every configuration takes every place of the order once
\* ("Configuration ... order rotate per repeat", run_campaign.py:28).
ConfigurationsRotate ==
  Done => \A c \in Configs :
    {Cardinality({d \in Configs : \E i, j \in 1..Len(rows) :
        /\ i < j /\ rows[i].config = d /\ rows[j].config = c /\ d # c
        /\ rows[i].repeat = r /\ rows[j].repeat = r}) : r \in Repeats} = 0..(NrConfigs - 1)

\* The concurrent phase comes first in half of the traced repeats and last in the
\* other half ("alternates between first and last", run_campaign.py:29).
ConcurrentAlternates ==
  Done => \A c \in Configs :
    LET Precede(r, one, other) ==
          \A i \in PhasesOf(c, r, one), j \in PhasesOf(c, r, other) : i < j
    IN  /\ Cardinality({r \in 1..6 : Precede(r, "concurrent", "isolated")}) = 3
        /\ Cardinality({r \in 1..6 : Precede(r, "isolated", "concurrent")}) = 3

\* The docstring's two promises that hold.
PlanIsBalanced == ConfigurationsRotate /\ ConcurrentAlternates

\* The device order of a configuration changes from one repeat to the next ("device
\* order rotate per repeat ... so paired conditions never share a fixed order",
\* run_campaign.py:28-29).
DeviceOrderRotates ==
  Done /\ n > 1 => \A c \in Configs, r \in 1..6 :
    LET isolated(s) ==
          SelectSeq(rows, LAMBDA row : /\ row.config = c /\ row.repeat = s
                                       /\ row.condition = "isolated")
        order(s) == [i \in 1..n |-> isolated(s)[i].devices]
    IN  order(r) # order(r + 1)
=============================================================================
