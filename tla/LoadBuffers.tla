----------------------------- MODULE LoadBuffers -----------------------------
(***************************************************************************)
(* The load threads of multichase/multiload.c: each allocates an arena     *)
(* (module Arena), and when all have done so and passed the barrier each   *)
(* makes passes over the buffers into which its kernel divides the arena,  *)
(* whose roles change from pass to pass.                                   *)
(*                                                                         *)
(* Sizes are in bytes, an address is relative to the mapping of the thread *)
(* it belongs to, which begins at a page boundary.  An access outside the  *)
(* mapping ends the program; what it does is one whole pass.               *)
(***************************************************************************)
EXTENDS Arena

CONSTANTS
  Width,     \* bits of a size, 64
  MaxPasses  \* bound on the passes of a thread

Kernels == {"memcpy", "memset", "copy", "sum", "triad", "nontemporal"}
\* LOOP_ALIGN, and the size of an element.
Align == 16
Word == 8

\* No mapping takes a quarter of the addresses.
Assumptions ==
  /\ ArenaAssumptions /\ 2^Width \in Nat /\ MaxPasses \in Nat
  /\ NativePage % (2 * Align) = 0
  /\ \A r \in Requests : 4 * (r.size + r.offset + r.page + 2 * Align) <= 2^Width

VARIABLES
  bufs,     \* a, b and c of each thread, <<>> before the kernel starts
  done,     \* passes made
  last      \* the buffers its last pass has written and read

loadVars == <<arenaVars, bufs, done, last>>

Init == /\ ArenaInit
        /\ bufs = [t \in Threads |-> <<>>] /\ done = [t \in Threads |-> 0]
        /\ last = [t \in Threads |-> [writes |-> {}, reads |-> {}]]

Ops == CASE req.fn \in {"memset", "sum"} -> 1
         [] req.fn \in {"memcpy", "copy"} -> 2
         [] OTHER -> 3
Triad == req.fn \in {"triad", "nontemporal"}

Bug_Usable == req.size
\* The bytes the three buffers may take, an unsigned number.
Usable == (req.size + 2^Width - Ops * Align) % 2^Width

\* n & ~(LOOP_ALIGN - 1).
Aligned(n) == n - (n % Align)

\* The length of a buffer in bytes.
Length ==
  IF Triad THEN Aligned(Usable \div Ops)
  ELSE IF req.fn \in {"memcpy", "memset"} THEN req.size \div Ops
  ELSE ((req.size \div Ops) \div Word) * Word

\* load_bites.
Bites == Length * Ops

\* The first buffer: the arena, or (arena + LOOP_ALIGN) & ~LOOP_ALIGN.
FirstBuffer ==
  LET a == req.offset + Align IN
  IF ~Triad THEN req.offset ELSE IF (a \div Align) % 2 = 1 THEN a - Align ELSE a

Wrap(a) == a % 2^Width

\* The beginning of the kernel; the barrier is StartupBarrier.
Start(t) ==
  /\ req.fn \in Kernels
  /\ \A u \in Threads : apc[u] = "returned"
  /\ bufs[t] = <<>>
  /\ bufs' = [bufs EXCEPT ![t] = [k \in 1..Ops |-> Wrap(FirstBuffer + (k - 1) * Length)]]
  /\ UNCHANGED <<arenaVars, done, last>>

\* tmp = a, a = b, ...: the buffers change roles.
Rotated(b) == [k \in 1..Len(b) |-> IF k < Len(b) THEN b[k + 1] ELSE b[1]]

\* The bytes from a on: nontemporal stores come in pairs of words.
Bytes(a, n) == a..(a + n - 1)
Stored(n) == IF req.fn = "nontemporal" THEN ((n + 2 * Word - 1) \div (2 * Word)) * 2 * Word ELSE n

\* What a pass over buffers b writes and reads.
Touches(b) ==
  CASE req.fn = "memset" -> [writes |-> Bytes(b[1], Length), reads |-> {}]
    [] req.fn = "sum" -> [writes |-> {}, reads |-> Bytes(b[1], Length)]
    [] req.fn = "memcpy" -> [writes |-> Bytes(b[1], Length), reads |-> Bytes(b[2], Length)]
    [] req.fn = "copy" -> [writes |-> Bytes(b[2], Length), reads |-> Bytes(b[1], Length)]
    [] OTHER -> [writes |-> Bytes(b[1], Stored(Length)),
                 reads |-> Bytes(b[2], Stored(Length)) \union Bytes(b[3], Stored(Length))]

\* A pass: the buffers change roles, then they are copied, set, added or
\* summed.  Buffers longer than the arena run out of the mapping.
Pass(t) ==
  /\ bufs[t] # <<>> /\ done[t] < MaxPasses
  /\ IF Length > arena_size[t]
     THEN ended' = "crashed" /\ UNCHANGED <<bufs, done, last>>
     ELSE LET b == Rotated(bufs[t])
              touched == Touches(b)
          IN /\ bufs' = [bufs EXCEPT ![t] = b]
             /\ done' = [done EXCEPT ![t] = @ + 1]
             /\ last' = [last EXCEPT ![t] = touched]
             /\ ended' = IF touched.writes \union touched.reads \subseteq 0..(arena_size[t] - 1)
                         THEN "no" ELSE "crashed"
  /\ UNCHANGED <<req, apc, seen, enabled, defrag, arena_size, nodes>>

LoadStep(t) == ended = "no" /\ (Start(t) \/ Pass(t))
Alloc(t) == AllocStep(t) /\ UNCHANGED <<bufs, done, last>>

Next == \E t \in Threads : Alloc(t) \/ LoadStep(t)
Spec == Init /\ [][Next]_loadVars

-----------------------------------------------------------------------------
(* Properties *)

TypeOK ==
  /\ ArenaTypeOK
  /\ \A t \in Threads :
       /\ bufs[t] \in Seq(0..(2^Width - 1)) /\ Len(bufs[t]) \in {0, Ops}
       /\ done[t] \in 0..MaxPasses

\* A pass never writes what it reads: the roles change between the same
\* buffers, which do not overlap, as memcpy demands of its arguments
\* (multiload.c:469-472, 539-546, 631-636).
WritesAreNotRead == \A t \in Threads : last[t].writes \cap last[t].reads = {}

\* A pass touches only the load_total_memory bytes that were asked for, the
\* alignment and the pairs of stores included, and if a pass leaves the mapping
\* the arena was too small for a triad, whose size wraps below 48 bytes
\* (multiload.c:517-529, 572-584, 600-611).
StaysInArena ==
  /\ \A t \in Threads : last[t].writes \union last[t].reads
                          \subseteq req.offset..(req.offset + req.size - 1)
  /\ ended = "crashed" =>
       \/ Triad /\ req.size < Ops * Align
       \/ req.weights # <<>> /\ WeightSum(req.weights) = 0

\* The bandwidth counts what a pass touches: load_bites is the number of
\* bytes it reads and writes, each once (multiload.c:443, 462, 524, 579, 623).
BitesAreTouched ==
  \A t \in Threads : done[t] > 0 =>
    Cardinality(last[t].writes \union last[t].reads) = Bites

\* The three of them: a pass touches what the thread reports, inside its arena.
PassesAreSound == WritesAreNotRead /\ StaysInArena /\ BitesAreTouched
=============================================================================
