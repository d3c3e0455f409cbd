---------------------------- MODULE MCMultichase ----------------------------
(* One run of TLC for two parts of multichase: the generation of the chases
   (Chase), and a run with its barrier and its samples (Multichase).  Init
   chooses the part; the other keeps its initial state. *)
EXTENDS Multichase

CONSTANTS Parts, Requests, MinMixers, BranchChunk

VARIABLES part, gpc, args, mixer, arena, first, own, stops, chunk

Chase == INSTANCE Chase WITH pc <- gpc
genVars == <<gpc, args, mixer, arena, first, own, stops, chunk>>
allVars == <<part, runVars, genVars>>

ASSUME PartsAssumption == Sampling!Assumptions /\ Chase!Assumptions
\* The shuffle has no state: TLC checks it before the behaviours.
ASSUME Chase!ShuffleIsUniform

MCInit ==
  /\ part \in Parts
  /\ RunInit /\ Chase!Init
  /\ part # "run" => kernel = "parallel3" /\ ~timed /\ n = 1
  /\ part # "chase" => args = CHOOSE r \in Requests : TRUE

MCNext ==
  /\ UNCHANGED part
  /\ \/ part = "run" /\ RunNext /\ UNCHANGED genVars
     \/ part = "chase" /\ Chase!Next /\ UNCHANGED runVars

MCSpec == MCInit /\ [][MCNext]_allVars

-----------------------------------------------------------------------------
\* The requests: the options that bear on the sizes, in pointers, and the chase.
R(p, m, s, t, th, b, pa) ==
  [program |-> p, mem |-> m, stride |-> s, tlb |-> t, threads |-> th, base |-> b,
   par |-> pa, long |-> FALSE, ordered |-> FALSE, chase |-> "plain", offset |-> 0]
L(r) == [r EXCEPT !.long = TRUE]
MCRequests ==
  { R("multichase", 13, 2, 5, 2, 1, 1),          \* 3 groups of 2, 2 threads
    R("multichase", 22, 5, 7, 1, 2, 2),          \* stride not a multiple of base
    [R("multichase", 8, 2, 4, 2, 1, 1) EXCEPT !.ordered = TRUE],
    R("multiload", 5, 2, 9, 2, 1, 1),            \* memory below the locality
    R("multiload", 1, 3, 1, 3, 1, 1),            \* memory below the stride
    R("multichase", 8, 2, 4, 3, 1, 1),           \* too many threads
    L(R("multichase", 8, 2, 4, 1, 1, 1)),        \* one thread, 2 permutations
    L(R("multichase", 8, 4, 4, 2, 1, 1)),
    L(R("multiload", 8, 2, 4, 1, 1, 1)),
    [R("multichase", 12, 4, 4, 2, 2, 1) EXCEPT !.chase = "critword2", !.offset = 1],
    [R("multichase", 12, 4, 4, 2, 2, 1) EXCEPT !.chase = "critword", !.offset = 1],
    [R("multichase", 12, 4, 4, 2, 2, 1) EXCEPT !.chase = "branch"],
    [R("multichase", 28, 4, 28, 1, 2, 1) EXCEPT !.chase = "branch", !.ordered = TRUE] }
\* A long chase of multiload with two threads.
MCLong == {L(R("multiload", 4, 2, 2, 2, 1, 1))}

-----------------------------------------------------------------------------
(* The properties of the parts *)

\* Types of both parts.
MCTypeOK == TypeOK /\ Sampling!TypeOK /\ Chase!TypeOK

\* multichase.c:928-932, see ChaseSampling.
DereferencesCountedOnce == Sampling!DereferencesCountedOnce
\* permutation.c:136-307, see Chase.
OneCycle == Chase!OneCycle
\* permutation.h:28-46, see Chase.
SlotsDisjoint == Chase!SlotsDisjoint
\* permutation.h:50-51, see Chase.
GroupsVisitedOnce == Chase!GroupsVisitedOnce
\* br_asm.c:44-46, see Chase.
ChunksAreEven == Chase!ChunksAreEven
\* permutation.c:207, 282, see Chase.
RowsInTable == Chase!RowsInTable
=============================================================================
