---------------------------- MODULE TangentSearch ----------------------------
(***************************************************************************)
(* The computation of the tangent searcher: the three loops of             *)
(* CTBSearcherL, CTBSearcherR and CTSearcherB, as operators.               *)
(*                                                                         *)
(* A hull is a function on Index whose values are points <<x, y>>, with x  *)
(* growing; main.c pads a shorter one on the right.  A counter that starts *)
(* at KEY and is decremented by every comparison that holds is KEY minus   *)
(* the number of those that hold.                                          *)
(*                                                                         *)
(* The first factors of the products are kept in sc_int<SCALE> and wrap;   *)
(* the second ones do not.  The products are cut to 2*SCALE bits, which    *)
(* loses nothing while both factors are differences of Coordinates.        *)
(***************************************************************************)
EXTENDS Integers, Sequences, FiniteSets

CONSTANTS
  BLOCK,   \* BLOCK_SIZE; also DEPTH_1_GAP, and the number of blocks of a hull
  SCALE    \* bits of a coordinate

ASSUME TangentAssumption ==
  /\ BLOCK \in Nat \ {0, 1}
  /\ SCALE \in Nat \ {0}

\* Arithmetic the provers do not know.
ASSUME WidthAssumption == 2^(SCALE - 1) \in Nat \ {0} /\ 2^SCALE = 2 * 2^(SCALE - 1)

MAX_HULL == BLOCK * BLOCK      \* MAX_HULL_SIZE
KEY      == BLOCK - 1          \* KEY_SIZE
Index    == 0 .. MAX_HULL - 1
Key      == 1 .. KEY
Offset   == 0 .. KEY

\* The coordinates whose differences do not overflow.
Coordinate == 0 .. 2^(SCALE - 1) - 1

Minus(p, o) == <<p[1] - o[1], p[2] - o[2]>>

\* sc_int<SCALE>
Wrap(v) ==
  LET m == v % 2^SCALE IN IF m < 2^(SCALE - 1) THEN m ELSE m - 2^SCALE

\* diff_x and diff_y
Diff(p, o) == <<Wrap(p[1] - o[1]), Wrap(p[2] - o[2])>>

Cross(d, e) == d[1] * e[2] - d[2] * e[1]

\* What is left of KEY when every key of the set has taken one off.
Descend(keys) == KEY - Cardinality(keys)

-----------------------------------------------------------------------------
(* CTBSearcherL: the block of r that holds the tangent point.              *)

\* q[k] is not above the line from o through its left neighbour.
FallsBehind(q, o, k) == Cross(Diff(q[k], o), Minus(q[k - 1], o)) >= 0

\* The point of q the tangent from o touches, in two steps.
TouchOnQ(q, o) ==
  LET d1 == Descend({k \in Key : FallsBehind(q, o, k * BLOCK)})
      d2 == Descend({k \in Key : FallsBehind(q, o, d1 * BLOCK + k)})
  IN  d1 * BLOCK + d2

\* Mutant: < for <=.
MBlockOfR(r, q) == BLOCK * Descend({i \in Key :
  LET o == r[i * BLOCK]
      t == q[TouchOnQ(q, o)]
  IN  Cross(Diff(t, o), Minus(t, r[i * BLOCK - 1])) < 0})

\* start_idx of CTBSearcherL.
BlockOfR(r, q) == BLOCK * Descend({i \in Key :
  LET o == r[i * BLOCK]
      t == q[TouchOnQ(q, o)]
  IN  Cross(Diff(t, o), Minus(t, r[i * BLOCK - 1])) <= 0})

-----------------------------------------------------------------------------
(* CTBSearcherR: the block of q, with the roles of r and q exchanged.      *)

TouchOnR(r, o) ==
  LET RisesTo(k) == Cross(Diff(o, r[k]), Minus(o, r[k - 1])) <= 0
      d1 == Descend({k \in Key : RisesTo(k * BLOCK)})
      d2 == Descend({k \in Key : RisesTo(d1 * BLOCK + k)})
  IN  d1 * BLOCK + d2

\* start_idx of CTBSearcherR.
BlockOfQ(r, q) == BLOCK * Descend({i \in Key :
  LET o == q[i * BLOCK]
      t == r[TouchOnR(r, o)]
  IN  Cross(Diff(o, t), Minus(q[i * BLOCK - 1], t)) >= 0})

\* The block a searcher sends on.
BlockAt(hull, start) == [i \in Offset |-> hull[start + i]]

-----------------------------------------------------------------------------
(* CTSearcherB: the tangent of the two blocks.                             *)

\* b_q_idxs[i]
TouchInBlock(rb, qb, i) == Descend({k \in Key : FallsBehind(qb, rb[i], k)})

\* b_r_idx
TangentInBlock(rb, qb) == Descend({i \in Key :
  LET t == qb[TouchInBlock(rb, qb, i)]
  IN  Cross(Diff(t, rb[i]), Minus(t, rb[i - 1])) <= 0})

\* The two results, in INDEX_RANGE bits.
IndicesOf(rb, qb, rstart, qstart) ==
  LET i == TangentInBlock(rb, qb)
  IN  << (i + rstart) % MAX_HULL, (TouchInBlock(rb, qb, i) + qstart) % MAX_HULL >>

\* What the searcher returns for a pair of hulls.
TangentIndices(r, q) ==
  LET rs == BlockOfR(r, q)
      qs == BlockOfQ(r, q)
  IN  IndicesOf(BlockAt(r, rs), BlockAt(q, qs), rs, qs)

-----------------------------------------------------------------------------
(* main.c                                                                  *)

\* Mutant: x is not repeated, so that the padding lies to the left.
MPadded(s) == [i \in Index |-> IF i < Len(s) THEN s[i + 1] ELSE <<0, 0>>]

\* The loops that fill data: a hull that is too short is continued with the
\* point below its last one, one that is too long is cut off.
Padded(s) == [i \in Index |-> IF i < Len(s) THEN s[i + 1] ELSE <<s[Len(s)][1], 0>>]
=============================================================================
