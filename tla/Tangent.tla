------------------------------- MODULE Tangent -------------------------------
(***************************************************************************)
(* One search of the tangent searcher: the two block searchers run side by *)
(* side, the third one when both have delivered.  The searches of module   *)
(* TangentSearch are compared with the definition of an upper tangent.     *)
(***************************************************************************)
EXTENDS TangentSearch

CONSTANTS RightHulls, LeftHulls   \* the hulls r and q are taken from

\* An upper hull from left to right; points in a line are allowed.
UpperHull(s) ==
  /\ Len(s) \in 1 .. MAX_HULL
  /\ \A i \in 1 .. Len(s) : s[i] \in Coordinate \X Coordinate
  /\ \A i \in 1 .. Len(s) - 1 : s[i][1] < s[i + 1][1]
  /\ \A i \in 2 .. Len(s) - 1 : Cross(Minus(s[i], s[i - 1]), Minus(s[i + 1], s[i])) <= 0

ASSUME HullsAssumption ==
  /\ \A s \in LeftHulls \cup RightHulls : UpperHull(s)
  /\ \A s \in LeftHulls, t \in RightHulls : s[Len(s)][1] < t[1][1]

VARIABLES
  r, q,      \* the two hulls, sequences of points
  rstart,    \* what CTBSearcherL has sent, or Pending
  qstart,    \* what CTBSearcherR has sent, or Pending
  result     \* the indices, or Pending

tangentVars == <<r, q, rstart, qstart, result>>

Pending == <<>>

TangentInit ==
  /\ r \in LeftHulls
  /\ q \in RightHulls
  /\ rstart = Pending /\ qstart = Pending /\ result = Pending

SearchL ==
  /\ rstart = Pending
  /\ rstart' = <<BlockOfR(Padded(r), Padded(q))>>
  /\ UNCHANGED <<r, q, qstart, result>>

SearchR ==
  /\ qstart = Pending
  /\ qstart' = <<BlockOfQ(Padded(r), Padded(q))>>
  /\ UNCHANGED <<r, q, rstart, result>>

SearchB ==
  /\ rstart # Pending /\ qstart # Pending
  /\ result = Pending
  /\ result' = IndicesOf(BlockAt(Padded(r), rstart[1]), BlockAt(Padded(q), qstart[1]),
                         rstart[1], qstart[1])
  /\ UNCHANGED <<r, q, rstart, qstart>>

TangentNext == SearchL \/ SearchR \/ SearchB

TangentSpec == TangentInit /\ [][TangentNext]_tangentVars

-----------------------------------------------------------------------------
(* Properties                                                              *)

\* No point of either hull is above the line through r[i] and q[j].
Supports(i, j) ==
  LET d == Minus(q[j], r[i])
  IN  /\ \A k \in 1 .. Len(r) : Cross(d, Minus(r[k], r[i])) <= 0
      /\ \A k \in 1 .. Len(q) : Cross(d, Minus(q[k], r[i])) <= 0

Tangents == {t \in (1 .. Len(r)) \X (1 .. Len(q)) : Supports(t[1], t[2])}

\* Where several points lie on the tangent, the leftmost one of each hull.
Leftmost == CHOOSE t \in Tangents : \A u \in Tangents : t[1] <= u[1] /\ t[2] <= u[2]

\* The block searchers, each on its own, find the block of the tangent point.
BlocksHit ==
  /\ rstart # Pending => Leftmost[1] - 1 \in rstart[1] .. rstart[1] + KEY
  /\ qstart # Pending => Leftmost[2] - 1 \in qstart[1] .. qstart[1] + KEY

\* README.md:2 "finding upper tangent of two ... upper convex hull": the result
\* is the upper tangent, never a padding point, with ties resolved to the left.
FindsTangent ==
  result # Pending => <<result[1] + 1, result[2] + 1>> = Leftmost
=============================================================================
