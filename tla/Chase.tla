-------------------------------- MODULE Chase --------------------------------
(***************************************************************************)
(* How multichase and multiload build their pointer chases: the rounding   *)
(* of the sizes in main, the mixer table, and the chases that the threads  *)
(* generate at the same time in one arena (permutation.c, thread_start).   *)
(*                                                                         *)
(* Sizes and addresses are in pointers, the arena starts at 0, and `arena` *)
(* is the function from the addresses written so far to what is stored     *)
(* there.  A chase is generated in one step: SlotsDisjoint says that no    *)
(* two chases touch the same words, so the order of their stores does not  *)
(* matter.  A random permutation is any that the shuffle can produce.      *)
(***************************************************************************)
EXTENDS Naturals, FiniteSets, Functions

CONSTANTS
  Requests,   \* the options and chases to consider, see IsRequest
  MinMixers,  \* the least number of mixers, 64
  BranchChunk \* the chunk size asked of convert_pointers_to_branches, 200

\* program; -m, -s and -T; -t; -L; -o; the chase and its base_object_size,
\* its parallelism, and the offset of a critical-word chase.
Positive == Nat \ {0}
IsRequest(r) ==
  /\ r \in [program : {"multichase", "multiload"}, mem : Positive, stride : Positive,
            tlb : Positive, threads : Positive, base : Positive, par : Positive,
            long : BOOLEAN, ordered : BOOLEAN,
            chase : {"plain", "critword", "critword2", "branch"}, offset : Nat]
  /\ r.chase # "plain" => r.par = 1 /\ r.base > 1
  /\ r.chase \in {"critword", "critword2"} => r.offset \in 1..(r.base - 1)

\* 1, 2, 4 and so on, n + 1 of them.
Powers(n) == LET pow[k \in 0..n] == IF k = 0 THEN 1 ELSE 2 * pow[k - 1] IN {pow[k] : k \in 0..n}

Assumptions ==
  /\ \A r \in Requests : IsRequest(r)
  /\ MinMixers \in Powers(6) /\ BranchChunk \in Nat \ {0, 1}

VARIABLES
  pc,      \* "options", "mixer", "generate" and then "done", "exit" (an error
           \* is reported), "overrun" or "aborted" (an assertion fails)
  args,    \* the request; with its sizes rounded after "options"
  mixer,   \* the mixer table, mixer[row][column]
  arena,   \* contents of the words written
  first,   \* cycle[] of the chases generated so far
  own,     \* the addresses of the elements of each of them
  stops,   \* the elements of branch chases that return instead of jumping
  chunk    \* branch_chunk_size of the chases generated so far

chaseVars == <<pc, args, mixer, arena, first, own, stops, chunk>>

NrChases(a) == a.threads * a.par
Chases == 0..(NrChases(args) - 1)
\* nr_mixer_indices and mixer_scale.
Indices(a) == a.stride \div a.base
Scale(a) == a.stride \div Indices(a)
NrElts(a) == a.mem \div a.stride
NrGroups(a) == a.mem \div a.tlb
PerGroup(a) == a.tlb \div a.stride

Init == /\ pc = "options" /\ args \in Requests
        /\ mixer = <<>> /\ arena = <<>> /\ first = <<>> /\ own = <<>>
        /\ stops = {} /\ chunk = <<>>

-----------------------------------------------------------------------------
(* main: the sizes *)

\* The TLB locality becomes a multiple of the stride and the memory one of
\* the locality; both shrink to the memory when that is smaller.
Rounded(a) ==
  LET tlb == IF a.tlb < a.stride THEN a.stride ELSE a.tlb - (a.tlb % a.stride)
      mem == IF a.mem >= tlb THEN a.mem - (a.mem % tlb)
             ELSE IF a.mem < a.stride THEN a.stride ELSE a.mem - (a.mem % a.stride)
  IN [a EXCEPT !.mem = mem, !.tlb = IF a.mem < tlb THEN mem ELSE tlb]

\* Each chase has a slot of its own in every element.
Fits(a) == Indices(a) >= NrChases(a)

Sanity ==
  /\ pc = "options"
  /\ args' = Rounded(args)
  /\ pc' = IF Fits(args') THEN "mixer" ELSE "exit"
  /\ UNCHANGED <<mixer, arena, first, own, stops, chunk>>

-----------------------------------------------------------------------------
(* permutation.c *)

\* rng_int(i): uniform, up to the bias of a 64-bit remainder.
RngInt(i) == 0..i

\* The draws of a shuffle of nr elements, and its result.
Draws(nr) == {d \in [0..(nr - 1) -> 0..(nr - 1)] : \A i \in DOMAIN d : d[i] \in RngInt(i)}
Shuffle(d, nr, base) ==
  LET perm[k \in 0..nr] ==
        IF k = 0 THEN <<>>
        ELSE [x \in 0..(k - 1) |->
                IF x = d[k - 1] THEN base + k - 1
                ELSE IF x = k - 1 THEN perm[k - 1][d[k - 1]] ELSE perm[k - 1][x]]
  IN perm[nr]

\* gen_permutation: gen_ordered_permutation with -o.
GenPermutation(nr, base, ordered) ==
  IF ordered THEN {[x \in 0..(nr - 1) |-> base + x]}
  ELSE {Shuffle(d, nr, base) : d \in Draws(nr)}

Bug_Grouped(a) == GenPermutation(NrElts(a), 0, a.ordered)
\* A permutation of the elements that visits one TLB group after another.
Grouped(a) ==
  LET E == PerGroup(a)
      groups == GenPermutation(NrGroups(a), 0, a.ordered)
      inner == [0..(NrGroups(a) - 1) -> GenPermutation(E, 0, a.ordered)]
  IN {[x \in 0..(NrElts(a) - 1) |-> (tp[x \div E] * E) + in[x \div E][x % E]] :
        tp \in groups, in \in inner}

\* The rounding to a power of two; __builtin_clzl(0) is undefined, and of the
\* shift by it any power of two may come.
CeilPow2(n) ==
  IF n = 1 THEN {1, 2, 4}
  ELSE {CHOOSE p \in Powers(n) : n <= p /\ p < 2 * n}

\* The table may be too large to allocate.
GenerateMixer ==
  /\ pc = "mixer"
  /\ \/ /\ \E raw \in CeilPow2(NrChases(args)) :
             LET nr == IF raw < MinMixers THEN MinMixers ELSE raw IN
             \E t \in [0..(nr - 1) -> GenPermutation(Indices(args), 0, args.ordered)] :
               mixer' = [j \in 0..(Indices(args) - 1) |-> [i \in 0..(nr - 1) |-> t[i][j]]]
        /\ pc' = "generate"
     \/ pc' = "exit" /\ UNCHANGED mixer
  /\ UNCHANGED <<args, arena, first, own, stops, chunk>>

\* The address of element x in row `row` of the mixer.
Mixed(x, row) == x * args.stride + (mixer[row][x % Cardinality(DOMAIN mixer[row])]) * Scale(args)

\* The position after pos in a permutation, cyclically.
NextIndex(pos, nr) == IF pos + 1 = nr THEN 0 ELSE pos + 1

\* generate_chase: each element points to the next one of the permutation.
Linked(row, perm) ==
  LET nr == NrElts(args) IN
  [at \in {Mixed(x, row) : x \in 0..(nr - 1)} |->
     LET x == at \div args.stride IN
     Mixed(perm[NextIndex(AntiFunction(perm)[x], nr)], row)]

Bug_NoEnd(e) == FALSE
\* The next element is the one the permutation began with.
EndsPermutation(e) == e = 0

\* generate_chase_long: one permutation per row; where the first would return
\* to its element 0, it goes on to element 0 of the next.
LinkedLong(row, perms) ==
  LET nr == NrElts(args)
      iters == Cardinality(DOMAIN perms)
      Slots(j) == {Mixed(x, row + j) : x \in 0..(nr - 1)}
      Link(x, j) ==
        LET e == perms[j][NextIndex(AntiFunction(perms[j])[x], nr)] IN
        IF EndsPermutation(e) THEN Mixed(0, row + ((j + 1) % iters)) ELSE Mixed(e, row + j)
  IN [at \in UNION {Slots(j) : j \in DOMAIN perms} |->
        Link(at \div args.stride, CHOOSE j \in DOMAIN perms : at \in Slots(j))]

\* nr_iteration: multichase passes the number of chases of all threads as
\* total_par, multiload the number of chases of one.
NrIterations(a) ==
  Indices(a) \div (IF a.program = "multichase" THEN NrChases(a) ELSE a.par)

-----------------------------------------------------------------------------
(* thread_start *)

\* f, written over g; f with e at c.
Over(f, g) == [x \in DOMAIN f \union DOMAIN g |-> IF x \in DOMAIN f THEN f[x] ELSE g[x]]
With(f, c, e) == Over([x \in {c} |-> e], f)

\* The words from p on, n of them, in the order of the chase.
Walk(links, p, n) ==
  LET at[k \in 0..n] == IF k = 0 THEN p ELSE links[at[k - 1]] IN at

\* The rewriting of a critical-word chase: a second word of each element
\* links to the second word of the next (critword2), or the first links to
\* the second and that to the next element (critword).
Critical(links) ==
  LET off == args.offset
      second == {at + off : at \in DOMAIN links}
  IN CASE args.chase = "critword2" -> Over([at \in second |-> links[at - off] + off], links)
       [] args.chase = "critword" ->
            Over([at \in second |-> links[at - off]], [at \in DOMAIN links |-> at + off])
       [] OTHER -> links

\* remain / (1 << lround(log2(remain / chunk_size))), or all that remains; lround
\* rounds a half up.
ChunkSize(n) ==
  IF n < BranchChunk THEN n
  ELSE LET Square(m) == m * m IN
       n \div (CHOOSE p \in Powers(n) :
                 /\ Square(p * BranchChunk) <= 2 * Square(n)
                 /\ Square(n) < 2 * Square(p * BranchChunk))

Bug_NextChunk(remain, chunks, size) == size
\* The length of the next chunk.
NextChunk(remain, chunks, size) == remain \div chunks

\* convert_pointers_to_branches: the elements, of n, at which a chunk ends.
Ends(n) ==
  LET size == ChunkSize(n)
      st[k \in 0..n] ==
        IF k = 0 THEN [chunks |-> n \div size, count |-> 0]
        ELSE LET s == st[k - 1]
                 c == IF s.count = 0 THEN NextChunk(n - k + 1, s.chunks, size) ELSE s.count
             IN [chunks |-> IF c = 1 THEN s.chunks - 1 ELSE s.chunks, count |-> c - 1]
  IN {k \in 1..n : st[k].count = 0}

\* The elements that return instead of jumping to the next.
Returns(links, head) ==
  LET n == Cardinality(DOMAIN links) IN {Walk(links, head, n)[k - 1] : k \in Ends(n)}

Bug_Row(c, iters) == c
\* The first row of the mixer that chase c uses.
Row(c, iters) == c * iters

\* A thread generates chase c of all the chases, and rewrites it.
Generate(c) ==
  /\ pc = "generate" /\ c \notin DOMAIN first
  /\ LET iters == IF args.long THEN NrIterations(args) ELSE 1
         row == Row(c, iters)
         branch == args.chase = "branch"
         Done(links) ==
           /\ arena' = Over(Critical(links), arena)
           /\ own' = With(own, c, DOMAIN links)
           /\ first' = With(first, c, Mixed(0, row))
           /\ stops' = IF branch THEN stops \union Returns(links, Mixed(0, row)) ELSE stops
           /\ chunk' = IF branch THEN With(chunk, c, ChunkSize(Cardinality(DOMAIN links)))
                       ELSE chunk
           /\ pc' = IF args.long /\ DOMAIN links \cap DOMAIN arena # {} THEN "aborted"
                    ELSE IF branch /\ {at + 1 : at \in DOMAIN links} \cap
                                        (DOMAIN links \union DOMAIN arena) # {} THEN "exit"
                    ELSE IF Cardinality(DOMAIN first) + 1 = NrChases(args) THEN "done"
                    ELSE pc
     IN IF row + iters > Indices(args)
        THEN pc' = "overrun" /\ UNCHANGED <<arena, own, first, stops, chunk>>
        ELSE IF args.long
             THEN \E perms \in [0..(iters - 1) -> Grouped(args)] : Done(LinkedLong(row, perms))
             ELSE \E perm \in Grouped(args) : Done(Linked(row, perm))
  /\ UNCHANGED <<args, mixer>>

Next == Sanity \/ GenerateMixer \/ \E c \in Chases : Generate(c)
Spec == Init /\ [][Next]_chaseVars

-----------------------------------------------------------------------------
(* Properties *)

TypeOK ==
  /\ pc \in {"options", "mixer", "generate", "done", "exit", "overrun", "aborted"}
  /\ IsRequest(args)
  /\ DOMAIN first \subseteq Chases /\ DOMAIN own = DOMAIN first
  /\ DOMAIN arena \subseteq 0..(args.mem - 1)
  /\ stops \subseteq DOMAIN arena
  /\ DOMAIN chunk = IF args.chase = "branch" THEN DOMAIN first ELSE {}

\* The pointers at which chase c is started, and the dereferences of a lap.
Starts(c) == IF args.chase = "critword2" THEN {first[c], first[c] + args.offset}
             ELSE {first[c]}
Words == IF args.chase = "critword" THEN 2 ELSE 1
Lap(c) == Cardinality(own[c]) * Words
Iterations == IF args.long THEN NrIterations(args) ELSE 1

\* Each chase is one cycle: a lap visits every word once and ends where it
\* began, and every element has one word in the lap for each permutation.  A
\* long chase finishes a permutation, element by element, before it begins the
\* next (permutation.c:181-187, 195-197, 279-301).
OneCycle ==
  \A c \in DOMAIN first :
    /\ Cardinality(own[c]) = NrElts(args) * Iterations
    /\ \A p \in Starts(c) :
         LET w == Walk(arena, p, Lap(c)) IN
         /\ w[Lap(c)] = p /\ Cardinality({w[k] : k \in 1..Lap(c)}) = Lap(c)
         /\ args.long => \A j \in 0..(Iterations - 1) :
              {w[(j * NrElts(args) + k) * Words] \div args.stride : k \in 0..(NrElts(args) - 1)}
                = 0..(NrElts(args) - 1)

\* Two chases, or two elements of one, never share a slot, which is
\* base_object_size long and inside the arena: the mixer gives every chase
\* of every thread another offset in each element (permutation.h:28-46).
SlotsDisjoint ==
  \A c, d \in DOMAIN first : \A at \in own[c], bt \in own[d] :
    /\ at + args.base <= args.mem
    /\ c # d \/ at # bt => at + args.base <= bt \/ bt + args.base <= at

\* A chase enters each TLB group once per permutation, so that a group costs one
\* fill (permutation.h:50-51): a long chase returns from the last element of one to
\* the group of element 0, which the next begins with.
GroupsVisitedOnce ==
  args.chase = "plain" => \A c \in DOMAIN first :
    LET w == Walk(arena, first[c], Lap(c))
        Group(k) == w[k] \div args.tlb
        entries == Cardinality({k \in 1..Lap(c) : Group(k) # Group(k - 1)})
    IN entries = Iterations * (IF NrGroups(args) = 1 THEN 0 ELSE NrGroups(args))

\* A lap of a branch chase ends with a return, and between two returns there
\* are branch_chunk_size branches, or one more: what a call adds to the
\* counter is right up to one branch (br_asm.c:44-46, multichase.c:202).
ChunksAreEven ==
  \A c \in DOMAIN chunk :
    LET n == Lap(c)
        w == Walk(arena, first[c], n)
        ends == {k \in 1..n : w[k - 1] \in stops}
    IN /\ n \in ends
       /\ \A k \in ends : \E l \in ends \union {0} :
            k - l \in {chunk[c], chunk[c] + 1} /\ \A m \in ends : ~(l < m /\ m < k)

\* No thread reads the mixer beyond its table, and no two permutations of a
\* long chase want the same slot (permutation.c:207, 282).
RowsInTable == pc \notin {"overrun", "aborted"}

\* Every permutation can come out of the shuffle, and each out of one
\* sequence of draws only: all are equally likely (permutation.c:42-50).
ShuffleIsUniform ==
  \A n \in 1..4 : LET all == {Shuffle(d, n, 0) : d \in Draws(n)} IN
    /\ all = Bijection(0..(n - 1), 0..(n - 1))
    /\ Cardinality(all) = Cardinality(Draws(n))
=============================================================================
