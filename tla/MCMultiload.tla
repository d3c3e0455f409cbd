---------------------------- MODULE MCMultiload -----------------------------
(* One run of TLC for three parts of multiload: its options (Options), the
   buffers of its load threads (LoadBuffers), and a run with its barrier and
   its samples (Multiload).  Init chooses the part; the others keep their
   initial states. *)
EXTENDS Multiload, Sequences, FiniteSets, TLC

CONSTANTS
  Parts,
  Typed, Prefixes, Strides, MaxThreads, MaxOptions,      \* of Options
  NrBuffers, Requests, NativePage, Width, MaxPasses      \* of LoadBuffers

VARIABLES
  part,
  program, stride, opc, nr_options, nr_threads, chase, memload, extra_args,
  run_test_type, asked, word, roles, nr_chase_threads, nr_load_threads,
  req, apc, seen, enabled, defrag, arena_size, nodes, ended, bufs, done, last

Opt == INSTANCE Options
Buf == INSTANCE LoadBuffers WITH NrThreads <- NrBuffers

optVars == <<program, stride, opc, nr_options, nr_threads, chase, memload, extra_args,
             run_test_type, asked, word, roles, nr_chase_threads, nr_load_threads>>
bufVars == <<req, apc, seen, enabled, defrag, arena_size, nodes, ended, bufs, done, last>>
allVars == <<part, runVars, optVars, bufVars>>

ASSUME PartsAssumption == Opt!Assumptions /\ Buf!Assumptions

MCInit ==
  /\ part \in Parts
  /\ RunInit /\ Opt!Init /\ Buf!Init
  /\ part # "options" => program = "multiload" /\ stride = CHOOSE s \in Strides : TRUE
  /\ part # "buffers" =>
       req = (CHOOSE r \in Requests : TRUE) /\ enabled = "always" /\ defrag = "always"

MCNext ==
  /\ UNCHANGED part
  /\ \/ part = "run" /\ RunNext /\ UNCHANGED <<optVars, bufVars>>
     \/ part = "options" /\ Opt!Next /\ UNCHANGED <<runVars, bufVars>>
     \/ part = "buffers" /\ Buf!Next /\ UNCHANGED <<runVars, optVars>>

MCSpec == MCInit /\ [][MCNext]_allVars /\ (part = "run" => RunFairness)

-----------------------------------------------------------------------------
\* The words typed as kernels, and what each is a prefix of.
MCPrefixes ==
  [simple |-> {"simple"}, work |-> {"work"}, chaseload |-> {"chaseload"},
   c |-> {"chaseload", "critword2", "critword"}, critword |-> {"critword2", "critword"},
   parallel1 |-> {"parallel10"}, parallel2 |-> {"parallel2"}, movdqa |-> {"movdqa"},
   bogus |-> {}, memset |-> {"memset-libc"}]
    @@ ("stream-triad" :> {"stream-triad", "stream-triad-nontemporal-injection-delay"})
    @@ ("" :> {"simple", "memcpy-libc"})
MCTyped == DOMAIN MCPrefixes

\* The arenas: kernel, size and offset, with native pages of 32 bytes; transparent
\* or explicit huge pages, a page that is no power of two, files, weights.
A(fn, size, offset) ==
  [fn |-> fn, size |-> size, offset |-> offset, page |-> 32, use_thp |-> FALSE,
   file |-> FALSE, weights |-> <<>>]
Kernels == {"memcpy", "memset", "copy", "sum", "triad", "nontemporal"}
MCRequests ==
  {A(fn, size, 0) : fn \in Kernels, size \in {100, 136}}
    \union {A(fn, 200, 16) : fn \in Kernels}
    \union {A("triad", 40, 0), A("nontemporal", 48, 16), A("memcpy", 9, 8)}
    \union {[A("sum", 16, 0) EXCEPT !.use_thp = TRUE],
            [A("sum", 16, 0) EXCEPT !.page = 64],
            [A("sum", 16, 0) EXCEPT !.page = 48],
            [A("sum", 16, 0) EXCEPT !.page = 64, !.use_thp = TRUE],
            [A("chase", 100, 8) EXCEPT !.file = TRUE],
            [A("chase", 100, 8) EXCEPT !.file = TRUE, !.use_thp = TRUE]}
    \union {[A("chase", 70, 0) EXCEPT !.weights = w] : w \in {<<0, 2, 1>>, <<0, 0, 0>>}}

-----------------------------------------------------------------------------
(* The properties of the parts *)

\* Types of the three parts.
MCTypeOK == TypeOK /\ Barrier!TypeOK /\ Opt!TypeOK /\ Buf!TypeOK

\* multiload.c:893-918, 965-982, see Options.
OptionsAreKept == Opt!OptionsAreKept
\* multiload.c:1197-1204, 1263-1298, see Options.
ThreadsAreReady == Opt!ThreadsAreReady
\* arena.c:88-119, 208-261, see Arena.
ArenaIsAsAsked == Buf!ArenaIsAsAsked
\* multiload.c:467-643, see LoadBuffers.
PassesAreSound == Buf!PassesAreSound

\* The liveness of the run, see Multiload.
MultiloadEnds == part = "run" => RunEnds
=============================================================================
