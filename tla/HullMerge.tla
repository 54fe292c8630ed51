------------------------------ MODULE HullMerge ------------------------------
(***************************************************************************)
(* The merge tree of main.c: the points lie in one shared array, length[b] *)
(* is the size of the hull stored from index b on, and at level k every    *)
(* hart merges its share of the pairs of hulls of 2 * 2^k points.  Between *)
(* levels stands the barrier as module Lockstep, which module Barrier      *)
(* implements as long as no post is stolen; the indices come from the      *)
(* accelerator (module AccService, which AccDma implements, with the       *)
(* search of TangentSearch).                                               *)
(***************************************************************************)
EXTENDS TangentSearch

CONSTANTS
  CORES,       \* cores of the platform
  PROCESSORS,  \* harts that share the pairs
  DEPTH,       \* levels
  Inputs       \* the arrays input_x, input_y the program may start with

POINTS == 2 * 2^DEPTH      \* NUMBER_OF_POINTS
Slot   == 0 .. POINTS - 1

\* The points lo .. hi come from left to right, until the last of them may be
\* repeated on the x axis.
Settles(input, lo, hi) ==
  \E e \in lo .. hi :
    /\ \A i \in lo .. e - 1 : input[i][1] < input[i + 1][1]
    /\ \A i \in e .. hi - 1 : input[i + 1] = input[i] /\ input[i][2] = 0

\* input.h:12: both halves are such points, and so is the place where they meet.
Growing(input) ==
  /\ \A i \in Slot : input[i] \in Coordinate \X Coordinate
  /\ Settles(input, 0, 2^DEPTH - 1)
  /\ Settles(input, 2^DEPTH, POINTS - 1)
  /\ \/ input[2^DEPTH - 1][1] < input[2^DEPTH][1]
     \/ input[2^DEPTH] = input[2^DEPTH - 1] /\ input[2^DEPTH][2] = 0

ASSUME HullAssumption ==
  /\ CORES \in Nat \ {0}
  /\ PROCESSORS \in 1 .. CORES
  /\ DEPTH \in Nat \ {0}
  /\ \A input \in Inputs : DOMAIN input = Slot /\ Growing(input)

\* Arithmetic the provers do not know.
ASSUME PowerAssumption ==
  2^0 = 1 /\ \A k \in 0 .. DEPTH : 2^k \in Nat \ {0} /\ 2^(k + 1) = 2 * 2^k

Participant == {h \in 0 .. CORES - 1 : h < PROCESSORS}

VARIABLES
  original,  \* the input, which is overwritten
  point,     \* <<input_x[i], input_y[i]>>
  length,    \* length[b]
  level,     \* level[h]: k
  inside,    \* the harts in the barrier
  at,        \* at[h]: h_idx
  pc,        \* pc[h]: "pack", "search", "update" or "move"
  data,      \* data[h]: the packed pair of hulls
  index      \* index[h]: tangent_r_idx and tangent_q_idx

vars == <<original, point, length, level, inside, at, pc, data, index>>

Barrier == INSTANCE Lockstep

Interval(k) == 2 * 2^k

\* Where hart h begins at level k.
First(h, k) == h * 2 * Interval(k)

\* Mutant: each hart takes every pair from its first one on.
MStride(k) == 2 * Interval(k)

Stride(k) == 2 * PROCESSORS * Interval(k)

Init ==
  /\ original \in Inputs
  /\ point = original
  /\ length = [b \in Slot |-> 2]
  /\ Barrier!LSInit
  /\ at = [h \in Participant |-> First(h, 0)]
  /\ pc = [h \in Participant |-> "pack"]
  /\ data = [h \in Participant |-> <<>>]
  /\ index = [h \in Participant |-> <<0, 0>>]

\* The second hull of the pair of hart h.
Other(h) == at[h] + Interval(level[h])

HullAt(b) == [i \in 1 .. length[b] |-> point[b + i - 1]]

Goto(h, l) == pc' = [pc EXCEPT ![h] = l]

Pack(h) ==
  /\ h \notin inside
  /\ level[h] < DEPTH
  /\ at[h] < POINTS
  /\ pc[h] = "pack"
  /\ data' = [data EXCEPT ![h] = <<Padded(HullAt(at[h])), Padded(HullAt(Other(h)))>>]
  /\ Goto(h, "search")
  /\ UNCHANGED <<original, point, length, level, inside, at, index>>

Search(h) ==
  /\ pc[h] = "search"
  /\ index' = [index EXCEPT ![h] = TangentIndices(data[h][1], data[h][2])]
  /\ Goto(h, "update")
  /\ UNCHANGED <<original, point, length, level, inside, at, data>>

\* Mutant: one point too many.
MMoved(h) == length[Other(h)] - index[h][2] + 1

\* The points of the second hull from its tangent point on.
Moved(h) == length[Other(h)] - index[h][2]

\* Mutant: the points before the tangent point of the second hull are counted.
MUpdate(h) ==
  /\ pc[h] = "update"
  /\ length' = [length EXCEPT ![at[h]] = index[h][1] + 1 + length[Other(h)]]
  /\ Goto(h, "move")
  /\ UNCHANGED <<original, point, level, inside, at, data, index>>

Update(h) ==
  /\ pc[h] = "update"
  /\ length' = [length EXCEPT ![at[h]] = index[h][1] + 1 + Moved(h)]
  /\ Goto(h, "move")
  /\ UNCHANGED <<original, point, level, inside, at, data, index>>

\* Mutant: the + 1 of the destination is missing.
MMove(h) ==
  /\ pc[h] = "move"
  /\ LET to   == at[h] + index[h][1]
         from == Other(h) + index[h][2]
     IN  point' = [i \in Slot |->
           IF i \in to .. to + Moved(h) - 1 THEN point[from + i - to] ELSE point[i]]
  /\ at' = [at EXCEPT ![h] = @ + Stride(level[h])]
  /\ Goto(h, "pack")
  /\ UNCHANGED <<original, length, level, inside, data, index>>

\* The copies through buffer, of x and then of y; and the next pair.
Move(h) ==
  /\ pc[h] = "move"
  /\ LET to   == at[h] + index[h][1] + 1
         from == Other(h) + index[h][2]
     IN  point' = [i \in Slot |->
           IF i \in to .. to + Moved(h) - 1 THEN point[from + i - to] ELSE point[i]]
  /\ at' = [at EXCEPT ![h] = @ + Stride(level[h])]
  /\ Goto(h, "pack")
  /\ UNCHANGED <<original, length, level, inside, data, index>>

Arrive(h) ==
  /\ pc[h] = "pack"
  /\ at[h] >= POINTS
  /\ Barrier!Enter(h)
  /\ UNCHANGED <<original, point, length, at, pc, data, index>>

\* Mutant: the barrier lets everybody through.
MLeave(h) ==
  /\ h \in inside
  /\ inside' = inside \ {h}
  /\ level' = [level EXCEPT ![h] = @ + 1]
  /\ at' = [at EXCEPT ![h] = First(h, level[h] + 1)]
  /\ UNCHANGED <<original, point, length, pc, data, index>>

Leave(h) ==
  /\ Barrier!Leave(h)
  /\ at' = [at EXCEPT ![h] = First(h, level[h] + 1)]
  /\ UNCHANGED <<original, point, length, pc, data, index>>

Step(h) == Pack(h) \/ Search(h) \/ Update(h) \/ Move(h) \/ Arrive(h) \/ Leave(h)

\* All levels done: main returns.  No other state may be without a next step.
Terminated ==
  /\ \A h \in Participant : level[h] = DEPTH
  /\ UNCHANGED vars

Next == Terminated \/ \E h \in Participant : Step(h)

Spec == Init /\ [][Next]_vars

-----------------------------------------------------------------------------
(* Properties                                                              *)

Working(h) == h \notin inside /\ level[h] < DEPTH /\ at[h] < POINTS

\* The slots of the pair hart h is merging.
Region(h) == at[h] .. at[h] + 2 * Interval(level[h]) - 1

\* report.md:14 "each software exclusive access to the portion of shared
\* array": no two harts ever work on overlapping parts.
RegionsDisjoint ==
  \A g, h \in Participant :
    g # h /\ Working(g) /\ Working(h) => Region(g) \cap Region(h) = {}

\* ... and no hart touches a slot outside its part: the two hulls it packs and
\* the merged one lie in it, and it lies in the array.
StaysInside ==
  \A h \in Participant :
    /\ Working(h) => Region(h) \subseteq Slot
    /\ pc[h] = "pack" /\ Working(h) =>
         /\ at[h] + length[at[h]] <= Other(h)
         /\ Other(h) + length[Other(h)] - 1 \in Region(h)
    /\ pc[h] = "move" => at[h] + index[h][1] + Moved(h) \in Region(h)

\* The chain stored at b is an upper hull of the original points b .. b+n-1:
\* it runs from the first to the last of them, through points of theirs, and
\* none of them is above any of its edges.
IsHullOf(chain, b, n) ==
  LET all == {original[i] : i \in b .. b + n - 1}
      m   == Len(chain)
  IN  /\ m > 0
      /\ chain[1] = original[b]
      /\ chain[m] = original[b + n - 1]
      /\ \A i \in 1 .. m - 1 :
           /\ chain[i] \in all
           /\ \A p \in all : Cross(Minus(chain[i + 1], chain[i]), Minus(p, chain[i])) <= 0

\* The points of index b .. b+n-1 that are not below any line between two of
\* their own.
OnHull(input, b, n) ==
  LET all == {input[i] : i \in b .. b + n - 1}
  IN  {p \in all : \A o, e \in all :
         o[1] < p[1] /\ p[1] < e[1] => Cross(Minus(e, o), Minus(p, o)) >= 0}

\* No part of the input has more of them than max, on any of depth levels.
\* Where its last point may be repeated, each level adds one, to two at least.
Narrow(input, depth, max) ==
  \A k \in 0 .. depth - 1, u \in DOMAIN input :
    LET n == Interval(k)
        b == u * n
        m == Cardinality(OnHull(input, b, n))
    IN  b \in DOMAIN input =>
          /\ m <= max
          /\ input[b + n - 1][2] = 0 => m + k <= max /\ 2 + k <= max

\* The hulls main packs have no more points than its arrays hold.  That depends
\* on the input: the second hull of a longer one would be cut off.
Fit ==
  \A h \in Participant : Working(h) /\ pc[h] = "pack" =>
    length[at[h]] <= MAX_HULL /\ length[Other(h)] <= MAX_HULL

\* A hart packs its pair only when both halves are finished hulls, whoever
\* merged them at the level before.
HalvesReady ==
  \A h \in Participant : Working(h) /\ pc[h] = "pack" =>
    LET n == Interval(level[h])
    IN  IsHullOf(HullAt(at[h]), at[h], n) /\ IsHullOf(HullAt(Other(h)), Other(h), n)

\* Neither the arrays of MAX_HULL points main packs into nor the buffer it
\* moves them through is too small, and the unsigned length never wraps.
BufferFits ==
  \A h \in Participant : pc[h] = "move" =>
    /\ Moved(h) \in 1 .. MAX_HULL
    /\ length[at[h]] \in 1 .. POINTS

\* README.md:2 "finding the upper convex hull for given points": what hart 0
\* prints begins with the hull of the whole input, whatever the others do.
PrintsHull == level[0] = DEPTH => IsHullOf(HullAt(0), 0, POINTS)
=============================================================================
