-------------------------------- MODULE Arena --------------------------------
(***************************************************************************)
(* multichase/arena.c: alloc_arena_mmap, which the load threads of         *)
(* multiload call at the same time.  Each call checks the page size, maps  *)
(* the rounded size, makes the system accept MADV_HUGEPAGE through two     *)
(* sysfs files that all calls share, and binds each page to a node drawn   *)
(* by weight.  An error ends the whole program.                            *)
(***************************************************************************)
EXTENDS Naturals, Sequences, FiniteSets, Functions

CONSTANTS
  NrThreads,   \* threads that allocate
  Requests,    \* what they may ask for, see IsRequest
  NativePage   \* the native page size

Threads == 1..NrThreads
Powers == {2^k : k \in 0..16}

\* -p, -H, -f; the size, and the offset -O that is added to it; the weights of -W,
\* or <<>> without it; and what the arena is used for.
IsRequest(r) ==
  /\ r.page \in Nat /\ r.size \in Nat \ {0} /\ r.offset \in Nat
  /\ r.use_thp \in BOOLEAN /\ r.file \in BOOLEAN
  /\ r.weights \in Seq(Nat)
  /\ r.fn \in STRING
  /\ r.file => r.page \in Powers

ArenaAssumptions ==
  /\ NrThreads \in Nat \ {0} /\ NativePage \in Powers
  /\ \A r \in Requests : IsRequest(r)

VARIABLES
  req,        \* the request, the same for every thread
  apc,        \* location of each thread in alloc_arena_mmap
  seen,       \* the states of the two files each thread has read
  enabled, defrag,  \* their contents
  arena_size, \* the rounded size, per thread
  nodes,      \* the nodes of the pages bound so far, per thread
  ended       \* "no", "exit" or "crashed"

arenaVars == <<req, apc, seen, enabled, defrag, arena_size, nodes, ended>>

EnabledStates == {"always", "madvise", "never"}
DefragStates == {"always", "defer", "defer+madvise", "madvise", "never"}
Accepted == {"always", "madvise"}
DefragAccepted == {"always", "defer+madvise", "madvise"}

ArenaInit ==
  /\ req \in Requests
  /\ enabled \in EnabledStates /\ defrag \in DefragStates
  /\ apc = [t \in Threads |-> "flags"] /\ ended = "no"
  /\ seen = [t \in Threads |-> [enabled |-> "", defrag |-> ""]]
  /\ arena_size = [t \in Threads |-> 0] /\ nodes = [t \in Threads |-> <<>>]

IsHuge(page) == page > NativePage

To(t, pc) == apc' = [apc EXCEPT ![t] = pc]
Stop(how) == ended' = how /\ UNCHANGED apc

-----------------------------------------------------------------------------
\* get_page_size_flags: without a file the page size is a power of two.
Flags(t) ==
  /\ apc[t] = "flags"
  /\ IF ~req.file /\ req.page \notin Powers THEN Stop("exit")
     ELSE To(t, "map") /\ UNCHANGED ended
  /\ UNCHANGED <<req, seen, enabled, defrag, arena_size, nodes>>

\* (n + pagemask) & ~pagemask.
RoundUp(n, page) == ((n + page - 1) \div page) * page

\* mmap may fail.
Map(t) ==
  /\ apc[t] = "map"
  /\ \/ /\ arena_size' = [arena_size EXCEPT ![t] = RoundUp(req.size + req.offset, req.page)]
        /\ To(t, IF req.use_thp /\ ~req.file THEN "read" ELSE "advise")
        /\ UNCHANGED ended
     \/ Stop("exit") /\ UNCHANGED arena_size
  /\ UNCHANGED <<req, seen, enabled, defrag, nodes>>

\* check_thp_state: both files are read, then each is written if need be.  A
\* file that cannot be read or written ends the program.
ReadState(t) ==
  /\ apc[t] = "read"
  /\ \/ seen' = [seen EXCEPT ![t] = [enabled |-> enabled, defrag |-> defrag]]
        /\ To(t, "enable") /\ UNCHANGED ended
     \/ Stop("exit") /\ UNCHANGED seen
  /\ UNCHANGED <<req, enabled, defrag, arena_size, nodes>>

Enable(t) ==
  /\ apc[t] = "enable"
  /\ \/ /\ enabled' = IF seen[t].enabled \in Accepted THEN enabled ELSE "madvise"
        /\ To(t, "defrag") /\ UNCHANGED ended
     \/ seen[t].enabled \notin Accepted /\ Stop("exit") /\ UNCHANGED enabled
  /\ UNCHANGED <<req, seen, defrag, arena_size, nodes>>

Bug_NeedsDefrag(state) == state = "never"
\* The state of the second file is not one of those accepted.
NeedsDefrag(state) == state \notin DefragAccepted

Defrag(t) ==
  /\ apc[t] = "defrag"
  /\ \/ /\ defrag' = IF NeedsDefrag(seen[t].defrag) THEN "madvise" ELSE defrag
        /\ To(t, "advise") /\ UNCHANGED ended
     \/ NeedsDefrag(seen[t].defrag) /\ Stop("exit") /\ UNCHANGED defrag
  /\ UNCHANGED <<req, seen, enabled, arena_size, nodes>>

\* Transparent huge pages are advised, or forbidden, for native anonymous pages.
MayAdvise == ~IsHuge(req.page) /\ ~req.file

\* madvise, whose failure is only reported, or the refusal of -H.
Advise(t) ==
  /\ apc[t] = "advise"
  /\ IF ~MayAdvise /\ req.use_thp THEN Stop("exit")
     ELSE /\ To(t, IF req.weights = <<>> THEN "returned" ELSE "bind")
          /\ UNCHANGED ended
  /\ UNCHANGED <<req, seen, enabled, defrag, arena_size, nodes>>

-----------------------------------------------------------------------------
(* arena_weighted_mbind *)

Sums(w) ==
  LET sum[k \in 0..Len(w)] == IF k = 0 THEN 0 ELSE sum[k - 1] + w[k] IN sum
SumTo(w, k) == Sums(w)[k]
\* weights_cumsum[k], which begins at weights[0] - 1.
Cumulated(w, k) == SumTo(w, k) - 1

WeightSum(w) == SumTo(w, Len(w))
\* The first node whose cumulated weight is not below the draw.
NodeOf(w, r) ==
  LET hits == {k \in DOMAIN w : Cumulated(w, k) >= r} IN
  CHOOSE k \in hits : \A l \in hits : k <= l

\* A page is bound, or mbind fails; a remainder by 0 is fatal.
Bind(t) ==
  /\ apc[t] = "bind"
  /\ IF Len(nodes[t]) * req.page >= arena_size[t]
     THEN To(t, "returned") /\ UNCHANGED <<nodes, ended>>
     ELSE IF WeightSum(req.weights) = 0
     THEN Stop("crashed") /\ UNCHANGED nodes
     ELSE \/ \E r \in 0..(WeightSum(req.weights) - 1) :
               /\ nodes' = [nodes EXCEPT ![t] = Append(@, NodeOf(req.weights, r))]
               /\ UNCHANGED <<apc, ended>>
          \/ Stop("exit") /\ UNCHANGED nodes
  /\ UNCHANGED <<req, seen, enabled, defrag, arena_size>>

AllocStep(t) ==
  /\ ended = "no"
  /\ \/ Flags(t) \/ Map(t) \/ ReadState(t) \/ Enable(t) \/ Defrag(t)
     \/ Advise(t) \/ Bind(t)

-----------------------------------------------------------------------------
(* Properties *)

ArenaTypeOK ==
  /\ req \in Requests
  /\ apc \in [Threads -> {"flags", "map", "read", "enable", "defrag", "advise",
                          "bind", "returned"}]
  /\ enabled \in EnabledStates /\ defrag \in DefragStates
  /\ \A t \in Threads : /\ arena_size[t] \in Nat
                        /\ Range(nodes[t]) \subseteq DOMAIN req.weights
  /\ ended \in {"no", "exit", "crashed"}

\* An arena for which transparent huge pages were asked is returned only when
\* the system accepts the advice, whatever the files said and although several
\* threads read and write them without a lock (arena.c:208-230).
ThpIsAccepted ==
  req.use_thp /\ (\E t \in Threads : apc[t] = "returned") =>
    enabled \in Accepted /\ defrag \in DefragAccepted

\* Explicit huge pages, or a file, and transparent ones are never combined
\* (arena.c:252-261).
OneKindOfHugePage ==
  \A t \in Threads : apc[t] \in {"bind", "returned"} /\ req.use_thp =>
    req.page <= NativePage /\ ~req.file

\* An arena that is returned with weights is bound to its last page, and a
\* node gets a page in exactly as many draws as its weight says, one of weight
\* 0 in none; without any weight the program dies of the remainder, which it
\* does in no other case (arena.c:88-119).
NodesByWeight ==
  LET w == req.weights IN
  /\ \A t \in Threads :
       /\ \A k \in Range(nodes[t]) :
            Cardinality({r \in 0..(WeightSum(w) - 1) : NodeOf(w, r) = k}) = w[k]
       /\ apc[t] = "returned" /\ w # <<>> =>
            Len(nodes[t]) * req.page >= req.size + req.offset
  /\ ended = "crashed" /\ w # <<>> /\ (\E t \in Threads : apc[t] = "bind") =>
       \A k \in DOMAIN w : w[k] = 0

\* The three of them: an arena is what was asked for.
ArenaIsAsAsked == ThpIsAccepted /\ OneKindOfHugePage /\ NodesByWeight
=============================================================================
