------------------------------- MODULE Options -------------------------------
(***************************************************************************)
(* The command line of multichase and of multiload, and the threads main   *)
(* starts for it.  -c and -l select a kernel by the first name of a table  *)
(* that the word typed is a prefix of; in multiload the two options decide *)
(* together what kind of run it is.                                        *)
(*                                                                         *)
(* Options that only set a number or a flag matter here when they end the  *)
(* program; their values belong to the modules that use them.              *)
(***************************************************************************)
EXTENDS Naturals, Sequences, FiniteSets

CONSTANTS
  Typed,       \* the words a user may type as a kernel
  Prefixes,    \* the names that each word is a prefix of
  Strides,     \* values of -s, in bytes
  MaxThreads,  \* bound on -t
  MaxOptions   \* bound on the options -c, -l and -t of a command line

-----------------------------------------------------------------------------
(* The tables *)

Parallel == <<"parallel2", "parallel3", "parallel4", "parallel5", "parallel6",
              "parallel7", "parallel8", "parallel9", "parallel10">>
Chases(p) ==
  (IF p = "multichase" THEN <<"simple", "gpu", "work", "incr", "branch">>
                       ELSE <<"simple", "chaseload", "work", "incr">>)
    \o <<"t0", "t1", "t2", "nta", "movdqa", "movntdqa">>
    \o Parallel \o <<"critword2", "critword">>
Memloads == <<"memcpy-libc", "memset-libc", "memsetz-libc", "stream-copy", "stream-sum",
              "stream-triad", "stream-triad-nontemporal-injection-delay">>

\* requires_arg, parallelism and base_object_size.
RequiresArg == {"work", "critword2", "critword"}
Parallelism(c) ==
  IF \E k \in 1..9 : Parallel[k] = c THEN 1 + CHOOSE k \in 1..9 : Parallel[k] = c ELSE 1
ObjectSize(c) ==
  IF c \in {"movdqa", "movntdqa", "critword2", "critword"} THEN 64
  ELSE IF c \in {"incr", "branch"} THEN 16 ELSE 8

Programs == {"multichase", "multiload"}
Kernels(table) == {table[k] : k \in DOMAIN table}
Names == Kernels(Memloads) \union UNION {Kernels(Chases(p)) : p \in Programs}

\* The names that begin with another.
Longer(name) ==
  CASE name = "critword" -> {"critword2"}
    [] name = "stream-triad" -> {"stream-triad-nontemporal-injection-delay"}
    [] OTHER -> {}

Assumptions ==
  /\ MaxThreads \in Nat \ {0} /\ MaxOptions \in Nat /\ Strides \subseteq Nat
  /\ \A w \in Typed : Prefixes[w] \subseteq STRING
  /\ \A w \in Typed \intersect Names : Prefixes[w] \intersect Names = {w} \union Longer(w)

VARIABLES
  program, stride,
  opc,        \* "options", "create", "running" or "exit"
  nr_options, nr_threads,
  chase, memload,
  extra_args, \* an argument was given to a kernel
  run_test_type,
  asked,      \* the kernels that options have selected
  word,       \* the last words typed for -c and for -l
  roles,      \* run_test_type of the threads started so far
  nr_chase_threads, nr_load_threads

optVars == <<program, stride, opc, nr_options, nr_threads, chase, memload, extra_args,
             run_test_type, asked, word, roles, nr_chase_threads, nr_load_threads>>

RunTypes == {"RUN_CHASE", "RUN_BANDWIDTH", "RUN_CHASE_LOADED"}

Init ==
  /\ program \in Programs /\ stride \in Strides
  /\ opc = "options" /\ nr_options = 0 /\ nr_threads = 1
  /\ chase = "simple" /\ memload = "memcpy-libc" /\ extra_args = FALSE
  /\ run_test_type = "RUN_CHASE" /\ asked = {} /\ word = [c |-> "", l |-> ""]
  /\ roles = <<>> /\ nr_chase_threads = 0 /\ nr_load_threads = 0

Rest == UNCHANGED <<program, stride, roles, nr_chase_threads, nr_load_threads>>

-----------------------------------------------------------------------------
(* The options *)

\* strncmp along the table: its first name that begins with the word.
Found(table, w) == {k \in DOMAIN table : table[k] \in Prefixes[w]}
Selected(table, w) ==
  table[CHOOSE k \in Found(table, w) : \A l \in Found(table, w) : k <= l]

\* What follows the name: nothing, a colon only, or a colon and an argument.
Arguments == {"none", "empty", "some"}
ArgumentOK(k, a) == a = IF k \in RequiresArg THEN "some" ELSE "none"

\* -c word:argument.  chaseload is taken before its argument is looked at.
OptChase(w, a) ==
  /\ word' = [word EXCEPT !.c = w]
  /\ IF Found(Chases(program), w) = {}
     THEN opc' = "exit" /\ UNCHANGED <<chase, run_test_type, extra_args, asked>>
     ELSE LET k == Selected(Chases(program), w) IN
          /\ chase' = k /\ asked' = asked \union {k}
          /\ run_test_type' = IF k = "chaseload" THEN "RUN_CHASE_LOADED" ELSE run_test_type
          /\ opc' = IF k = "chaseload"
                       \/ (run_test_type # "RUN_BANDWIDTH" /\ ArgumentOK(k, a))
                    THEN "options" ELSE "exit"
          /\ extra_args' = (extra_args \/ (k \in RequiresArg /\ a = "some"))
  /\ UNCHANGED <<memload, nr_threads>>

Bug_TypeWithLoad == "RUN_BANDWIDTH"
\* The kind of run after -l.
TypeWithLoad == IF run_test_type # "RUN_CHASE_LOADED" THEN "RUN_BANDWIDTH" ELSE run_test_type

\* -l word:argument; no load takes an argument.
OptLoad(w, a) ==
  /\ program = "multiload"
  /\ word' = [word EXCEPT !.l = w]
  /\ IF Found(Memloads, w) = {}
     THEN opc' = "exit" /\ UNCHANGED <<memload, run_test_type, asked>>
     ELSE /\ memload' = Selected(Memloads, w) /\ asked' = asked \union {memload'}
          /\ run_test_type' = TypeWithLoad
          /\ opc' = IF ArgumentOK(memload', a) THEN "options" ELSE "exit"
  /\ UNCHANGED <<chase, extra_args, nr_threads>>

\* -t n.
OptThreads(n) ==
  /\ nr_threads' = n
  /\ opc' = IF n = 0 THEN "exit" ELSE "options"
  /\ UNCHANGED <<chase, memload, extra_args, run_test_type, asked, word>>

GetOpt ==
  /\ opc = "options" /\ nr_options < MaxOptions
  /\ nr_options' = nr_options + 1
  /\ \/ \E w \in Typed, a \in Arguments : OptChase(w, a) \/ OptLoad(w, a)
     \/ \E n \in 0..MaxThreads : OptThreads(n)
  /\ Rest

\* A value that is malformed, a second file or one that cannot be opened, an
\* unknown option and a word that is no option end the program, some with the
\* usage.
Usage ==
  /\ opc = "options" /\ opc' = "exit"
  /\ UNCHANGED <<nr_options, nr_threads, chase, memload, extra_args, run_test_type, asked,
                 word>> /\ Rest

-----------------------------------------------------------------------------
(* The checks after the options, and the threads *)

Indices == stride \div ObjectSize(chase)

Bug_Fits == TRUE
\* Every chase has a row of the mixer; multiload asks this of RUN_CHASE only.
Fits == (program = "multichase" \/ run_test_type = "RUN_CHASE")
          => Indices >= nr_threads * Parallelism(chase)

Sanity ==
  /\ opc = "options"
  /\ opc' = IF stride >= 8 /\ Fits THEN "create" ELSE "exit"
  /\ UNCHANGED <<nr_options, nr_threads, chase, memload, extra_args, run_test_type, asked,
                 word>> /\ Rest

\* Thread 0 runs the chase of a loaded run.
Role(i) ==
  IF run_test_type = "RUN_BANDWIDTH" \/ (run_test_type = "RUN_CHASE_LOADED" /\ i # 0)
  THEN "RUN_BANDWIDTH" ELSE "RUN_CHASE"

\* An iteration of the loop that creates the threads; pthread_create may fail.
Create ==
  /\ opc = "create"
  /\ LET i == Len(roles) IN
     IF i = nr_threads
     THEN opc' = "running" /\ UNCHANGED <<roles, nr_chase_threads, nr_load_threads>>
     ELSE \/ /\ roles' = Append(roles, Role(i))
             /\ nr_chase_threads' = nr_chase_threads + (IF Role(i) = "RUN_CHASE" THEN 1 ELSE 0)
             /\ nr_load_threads' = nr_load_threads + (IF Role(i) = "RUN_CHASE" THEN 0 ELSE 1)
             /\ UNCHANGED opc
          \/ opc' = "exit" /\ UNCHANGED <<roles, nr_chase_threads, nr_load_threads>>
  /\ UNCHANGED <<program, stride, nr_options, nr_threads, chase, memload, extra_args,
                 run_test_type, asked, word>>

Next == GetOpt \/ Usage \/ Sanity \/ Create
Spec == Init /\ [][Next]_optVars

-----------------------------------------------------------------------------
(* Properties *)

TypeOK ==
  /\ opc \in {"options", "create", "running", "exit"}
  /\ nr_options \in 0..MaxOptions /\ nr_threads \in 0..MaxThreads
  /\ \E k \in DOMAIN Chases(program) : Chases(program)[k] = chase
  /\ \E k \in DOMAIN Memloads : Memloads[k] = memload
  /\ extra_args \in BOOLEAN /\ run_test_type \in RunTypes
  /\ roles \in Seq(RunTypes) /\ Len(roles) <= nr_threads
  /\ nr_chase_threads + nr_load_threads = Len(roles)

\* A command line that is accepted means the same in whatever order its options
\* come: the run is loaded if chaseload is among them, else a bandwidth test if
\* there is an -l, else a chase (multiload.c:905-918, 975-982).
RunTypeIsThatOfTheOptions ==
  opc \in {"create", "running"} =>
    LET load == \E k \in DOMAIN Memloads : Memloads[k] \in asked
        rank == IF "chaseload" \in asked THEN "RUN_CHASE_LOADED"
                ELSE IF load THEN "RUN_BANDWIDTH" ELSE "RUN_CHASE"
    IN run_test_type = rank

\* A kernel that is named as the usage names it is the one that runs, although
\* names begin with other names (multiload.c:893-903, 965-974).  The code does not
\* keep this for critword, which is after critword2 in the table (multichase.c:
\* 407, 417).
NamedKernelsRun ==
  opc = "running" =>
    /\ (\E k \in DOMAIN Memloads : Memloads[k] = word.l) => memload = word.l
    /\ (\E k \in DOMAIN Chases(program) : Chases(program)[k] = word.c) =>
         chase = word.c \/ word.c = "critword"

\* Both: what runs is what the options say.
OptionsAreKept == RunTypeIsThatOfTheOptions /\ NamedKernelsRun

\* The threads that chase are the first nr_chase_threads, of which main takes the
\* last for the moment of the sample, and a loaded run has one of them
\* (multiload.c:1263-1298, 1343-1354).
ChaseThreadsComeFirst ==
  opc = "running" =>
    /\ nr_chase_threads + nr_load_threads = nr_threads
    /\ \A i \in DOMAIN roles : roles[i] = "RUN_CHASE" <=> i <= nr_chase_threads
    /\ run_test_type = "RUN_CHASE_LOADED" => nr_chase_threads = 1

\* Every thread that chases has rows of the mixer of its own, and an argument if
\* its kernel reads one (strtoul of extra_args): the checks of the options and
\* those after them leave no gap, unless another chase is named after chaseload
\* (multiload.c:905-913, 1197-1204).
ChasesAreReady ==
  opc = "running" /\ (run_test_type = "RUN_CHASE_LOADED" => chase = "chaseload") =>
    \A i \in DOMAIN roles : roles[i] = "RUN_CHASE" =>
      /\ i * Parallelism(chase) <= Indices
      /\ chase \in RequiresArg => extra_args

\* Both: the threads are those that main and their kernels expect.
ThreadsAreReady == ChaseThreadsComeFirst /\ ChasesAreReady
=============================================================================
