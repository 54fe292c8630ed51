---------------------------- MODULE TangentProofs ----------------------------
(***************************************************************************)
(* The searches of TangentSearch return the upper tangent, for any block   *)
(* size, any width of the coordinates and any two upper hulls that lie     *)
(* side by side.                                                           *)
(*                                                                         *)
(* The argument.  Seen from a point beside it, the neighbours of an upper  *)
(* hull rise up to the point where the tangent touches and fall behind it, *)
(* so that the comparisons which hold are those beyond some index, and     *)
(* counting them finds it (Counting, Blocks).  The touching point of the   *)
(* other hull tells whether the tangent point lies further on (TestOfR,    *)
(* TestOfQ), hence each block searcher stops at its block (BlockOfRIs,     *)
(* BlockOfQIs) and the third loop at the tangent (IndicesAre).  No         *)
(* difference of coordinates wraps (NoWrap), and padding only falls        *)
(* (PadFalls), so that it is never chosen.                                 *)
(*                                                                         *)
(* The second half is about two hulls which meet in one point on the x     *)
(* axis, as those of input.h do when a run of equal points ends there      *)
(* (MeetPoint, MeetFound).                                                 *)
(***************************************************************************)
EXTENDS Tangent, FiniteSetTheorems, WellFoundedInduction, TLAPS

-----------------------------------------------------------------------------
(* Induction: a set of natural numbers has a least element.                *)

Less == OpToRel(<, Nat)

LEMMA LeastElement ==
  ASSUME NEW T \in SUBSET Nat, T # {}
  PROVE  \E x \in T : \A y \in T : x <= y
<1>1. IsWellFoundedOn(Less, Nat)
  BY NatLessThanWellFounded, Zenon DEF Less
<1>2. PICK x \in T : \A y \in T : ~ (<<y, x>> \in Less)
  BY <1>1, WFMin
<1>3. \A y \in T : <<y, x>> \in Less <=> y < x
  BY <1>2 DEF Less, OpToRel
<1>4. \A y \in T : x \in Nat /\ y \in Nat /\ ~ (y < x)
  BY <1>2, <1>3
<1>5. \A y \in T : x <= y
  BY <1>4, SMT
<1> QED  BY <1>2, <1>5

-----------------------------------------------------------------------------
(* Directions.                                                             *)

Vec == Int \X Int

\* Products of sums, for the solver.
LEMMA Signs ==
  ASSUME NEW a \in Int, NEW b \in Int
  PROVE  /\ a * b \in Int
         /\ a >= 0 /\ b >= 0 => a * b >= 0
         /\ a >= 0 /\ b <= 0 => a * b <= 0
         /\ a > 0 /\ a * b <= 0 => b <= 0
         /\ a > 0 /\ a * b < 0 => b < 0
         /\ a > 0 /\ b < 0 => a * b < 0
BY SMT

LEMMA Slopes ==
  ASSUME NEW dx \in Int, NEW dy \in Int, NEW ex \in Int, NEW ey \in Int,
         NEW cx \in Int, NEW cy \in Int
  PROVE  ex * (dx * cy - dy * cx) = dx * (ex * cy - ey * cx) + cx * (dx * ey - dy * ex)
BY SMT

\* Of three directions, none of which points to the left, ...
LEMMA Steeper ==
  ASSUME NEW d \in Vec, NEW e \in Vec, NEW c \in Vec, d[1] > 0, e[1] > 0, c[1] >= 0,
         Cross(d, e) <= 0, Cross(e, c) <= 0
  PROVE  Cross(d, c) <= 0 /\ (Cross(d, e) < 0 /\ c[1] > 0 => Cross(d, c) < 0)
                          /\ (Cross(e, c) < 0 => Cross(d, c) < 0)
<1> DEFINE P == Cross(d, c)  U == Cross(e, c)  V == Cross(d, e)
<1>1. P \in Int /\ U \in Int /\ V \in Int /\ d[1] \in Int /\ e[1] \in Int /\ c[1] \in Int
      /\ d[2] \in Int /\ e[2] \in Int /\ c[2] \in Int
  BY SMT DEF Vec, Cross
<1>2. e[1] * P = d[1] * U + c[1] * V
  BY <1>1, Slopes DEF Cross
<1> HIDE DEF P, U, V
<1>3. d[1] * U <= 0 /\ c[1] * V <= 0 /\ (U < 0 => d[1] * U < 0)
      /\ (V < 0 /\ c[1] > 0 => c[1] * V < 0) /\ d[1] * U \in Int /\ c[1] * V \in Int
  BY <1>1, Signs DEF U, V
<1>4. e[1] * P <= 0 /\ (U < 0 => e[1] * P < 0) /\ (V < 0 /\ c[1] > 0 => e[1] * P < 0)
  BY <1>2, <1>3, SMT
<1>5. P <= 0 /\ (U < 0 => P < 0) /\ (V < 0 /\ c[1] > 0 => P < 0)
  BY <1>1, <1>4, Signs
<1> QED  BY <1>5 DEF P, U, V

LEMMA Vectors ==
  ASSUME NEW a \in Vec, NEW b \in Vec
  PROVE  /\ Minus(a, b) \in Vec
         /\ Minus(a, b)[1] = a[1] - b[1] /\ Minus(a, b)[2] = a[2] - b[2]
         /\ Cross(a, b) \in Int
         /\ Cross(a, b) = - Cross(b, a)
<1>1. a[1] \in Int /\ a[2] \in Int /\ b[1] \in Int /\ b[2] \in Int
  BY SMT DEF Vec
<1>2. Minus(a, b) \in Vec /\ Minus(a, b)[1] = a[1] - b[1] /\ Minus(a, b)[2] = a[2] - b[2]
  BY <1>1, SMT DEF Vec, Minus
<1>3. Cross(a, b) \in Int /\ Cross(a, b) = - Cross(b, a)
  BY <1>1, SMT DEF Cross
<1> QED  BY <1>2, <1>3

\* Cross is linear, and turns its sign with the order.
LEMMA CrossSums ==
  ASSUME NEW d \in Vec, NEW a \in Vec, NEW b \in Vec, NEW c \in Vec
  PROVE  /\ Cross(d, Minus(a, c)) = Cross(d, Minus(a, b)) + Cross(d, Minus(b, c))
         /\ Cross(Minus(a, c), d) = Cross(Minus(a, b), d) + Cross(Minus(b, c), d)
         /\ Cross(d, Minus(a, b)) = - Cross(d, Minus(b, a))
         /\ Cross(d, Minus(a, a)) = 0 /\ Cross(d, d) = 0
<1>1. /\ a[1] \in Int /\ a[2] \in Int /\ b[1] \in Int /\ b[2] \in Int
      /\ c[1] \in Int /\ c[2] \in Int /\ d[1] \in Int /\ d[2] \in Int
  BY SMT DEF Vec
<1>3. Cross(d, d) = 0
  BY <1>1, SMT DEF Cross
<1>4. Cross(d, Minus(a, c)) = Cross(d, Minus(a, b)) + Cross(d, Minus(b, c))
  BY <1>1, SMT DEF Cross, Minus
<1>5. Cross(Minus(a, c), d) = Cross(Minus(a, b), d) + Cross(Minus(b, c), d)
  BY <1>1, SMT DEF Cross, Minus
<1>6. Cross(d, Minus(a, b)) = - Cross(d, Minus(b, a))
  BY <1>1, SMT DEF Cross, Minus
<1>7. Cross(d, Minus(a, a)) = 0
  BY <1>1, SMT DEF Cross, Minus
<1> QED  BY <1>3, <1>4, <1>5, <1>6, <1>7
-----------------------------------------------------------------------------
(* Chains of points.                                                       *)

Inner == 1 .. MAX_HULL - 1

Edge(f, k) == Minus(f[k], f[k - 1])

\* What Padded makes of an upper hull of n points.
PaddedHull(f, n) ==
  /\ n \in 1 .. MAX_HULL
  /\ f \in [Index -> Coordinate \X Coordinate]
  /\ \A k \in 1 .. n - 1 : f[k - 1][1] < f[k][1]
  /\ \A k \in 1 .. n - 2 : Cross(Edge(f, k), Edge(f, k + 1)) <= 0
  /\ \A k \in n .. MAX_HULL - 1 : f[k] = <<f[n - 1][1], 0>>

LEMMA Sizes ==
  /\ BLOCK \in Nat \ {0, 1} /\ KEY \in Nat \ {0} /\ BLOCK = KEY + 1
  /\ MAX_HULL \in Nat /\ MAX_HULL > BLOCK /\ MAX_HULL = BLOCK * BLOCK
  /\ Index = 0 .. MAX_HULL - 1 /\ Inner \subseteq Index
  /\ \A k \in Inner : k \in Int /\ k \in Index /\ k - 1 \in Index
<1>1. BLOCK \in Nat /\ BLOCK >= 2
  BY TangentAssumption, SMT
<1>2. BLOCK * BLOCK > BLOCK /\ BLOCK * BLOCK \in Nat
  BY <1>1, SMT
<1> QED  BY <1>1, <1>2, SMT DEF KEY, MAX_HULL, Index, Inner

LEMMA Falling ==
  ASSUME NEW h \in [Index -> Int], NEW a \in Index, NEW b \in Index, a <= b,
         \A k \in a + 1 .. b : h[k] <= h[k - 1]
  PROVE  h[b] <= h[a]
<1> DEFINE Bad == {k \in Nat : a <= k /\ k <= b /\ h[k] > h[a]}
<1> SUFFICES ASSUME Bad # {} PROVE FALSE
  <2>1. b \in Nat
    BY Sizes, SMT
  <2>2. h[b] \in Int /\ h[a] \in Int /\ (b \notin Bad => ~ (h[b] > h[a]))
    BY <2>1
  <2> QED  BY <2>2, SMT
<1>1. PICK k \in Bad : \A l \in Bad : k <= l
  BY LeastElement
<1>2. k \in Nat /\ a <= k /\ k <= b /\ h[k] > h[a]
  BY <1>1
<1>3. k - 1 \in Nat /\ a <= k - 1 /\ k - 1 <= b /\ k \in a + 1 .. b /\ k - 1 \in Index /\ k \in Index
  <2>1. k # a
    BY <1>2, SMT
  <2> QED  BY <1>2, <2>1, Sizes, SMT
<1>4. k - 1 \notin Bad
  BY <1>1, <1>2, SMT
<1>5. ~ (h[k - 1] > h[a])
  BY <1>3, <1>4
<1>6. h[k] <= h[k - 1] /\ h[k] \in Int /\ h[k - 1] \in Int /\ h[a] \in Int
  BY <1>3
<1> QED  BY <1>2, <1>5, <1>6, SMT

\* The way from one point of a chain to a later one, seen from direction d.
LEMMA EdgeSums ==
  ASSUME NEW f \in [Index -> Vec], NEW d \in Vec,
         NEW a \in Index, NEW b \in Index, a <= b
  PROVE  /\ (\A k \in a + 1 .. b : Cross(d, Edge(f, k)) <= 0) => Cross(d, Minus(f[b], f[a])) <= 0
         /\ (\A k \in a + 1 .. b : Cross(d, Edge(f, k)) >= 0) => Cross(d, Minus(f[b], f[a])) >= 0
         /\ (\A k \in a + 1 .. b : Cross(d, Edge(f, k)) > 0) /\ a < b =>
               Cross(d, Minus(f[b], f[a])) > 0
<1> DEFINE up   == [k \in Index |-> Cross(d, Minus(f[k], f[a]))]
           down == [k \in Index |-> 0 - Cross(d, Minus(f[k], f[a]))]
<1>1. ASSUME NEW k \in Index PROVE up[k] \in Int /\ down[k] \in Int /\ down[k] = 0 - up[k]
  <2>1. Cross(d, Minus(f[k], f[a])) \in Int
    BY Vectors
  <2> QED  BY <2>1
<1>2. up \in [Index -> Int] /\ down \in [Index -> Int]
  BY <1>1
<1>3. up[a] = 0 /\ down[a] = 0
  <2>1. Cross(d, Minus(f[a], f[a])) = 0
    BY CrossSums
  <2>2. up[a] = 0 /\ down[a] = 0 - up[a]
    BY <1>1, <2>1
  <2> QED  BY <2>2, SMT
<1>4. ASSUME NEW k \in a + 1 .. b
      PROVE  /\ up[k] = up[k - 1] + Cross(d, Edge(f, k)) /\ Cross(d, Edge(f, k)) \in Int
             /\ k \in Index /\ k - 1 \in Index
  <2>1. k \in Index /\ k - 1 \in Index
    BY Sizes, SMT
  <2>2. Cross(d, Minus(f[k], f[a])) = Cross(d, Minus(f[k], f[k - 1])) + Cross(d, Minus(f[k - 1], f[a]))
    BY <2>1, CrossSums
  <2>3. Cross(d, Edge(f, k)) \in Int
    BY <2>1, Vectors DEF Edge
  <2>4. Cross(d, Minus(f[k - 1], f[a])) \in Int
    BY <2>1, Vectors
  <2> QED  BY <2>1, <2>2, <2>3, <2>4, SMT DEF Edge
<1> HIDE DEF up, down
<1>5. ASSUME \A k \in a + 1 .. b : Cross(d, Edge(f, k)) <= 0 PROVE up[b] <= 0
  <2>1. \A k \in a + 1 .. b : up[k] <= up[k - 1]
    BY <1>1, <1>4, <1>5, SMT
  <2> QED  BY <1>2, <1>3, <2>1, Falling
<1>6. ASSUME NEW c \in Index, a <= c, c <= b, \A k \in a + 1 .. c : Cross(d, Edge(f, k)) >= 0
      PROVE  up[c] >= 0
  <2>0. \A k \in a + 1 .. c : k \in a + 1 .. b
    BY <1>6, Sizes, SMT
  <2>1. \A k \in a + 1 .. c : down[k] <= down[k - 1]
    BY <1>1, <1>4, <1>6, <2>0, SMT
  <2>2. down[c] <= down[a]
    BY <1>2, <1>6, <2>1, Falling
  <2> QED  BY <1>1, <1>3, <2>2, SMT
<1>7. ASSUME \A k \in a + 1 .. b : Cross(d, Edge(f, k)) > 0, a < b PROVE up[b] > 0
  <2>1. b - 1 \in Index /\ a <= b - 1 /\ b - 1 <= b /\ b \in a + 1 .. b
    BY <1>7, Sizes, SMT
  <2>2. \A k \in a + 1 .. b - 1 : Cross(d, Edge(f, k)) >= 0
    BY <1>4, <1>7, Sizes, SMT
  <2>3. up[b - 1] >= 0
    BY <1>6, <2>1, <2>2
  <2> QED  BY <1>1, <1>4, <1>7, <2>1, <2>3, SMT
<1>8. b <= b /\ up[b] = Cross(d, Minus(f[b], f[a]))
  BY Sizes, SMT DEF up
<1> QED  BY <1>5, <1>6, <1>7, <1>8
LEMMA CoordinateInt ==
  /\ Coordinate \subseteq Nat /\ Coordinate \X Coordinate \subseteq Vec
  /\ \A p \in Coordinate \X Coordinate : p[1] \in Nat /\ p[2] \in Nat
<1>1. Coordinate \subseteq Nat
  BY WidthAssumption, SMT DEF Coordinate
<1>2. ASSUME NEW p \in Coordinate \X Coordinate
      PROVE  p \in Vec /\ p[1] \in Nat /\ p[2] \in Nat
  <2>1. p[1] \in Coordinate /\ p[2] \in Coordinate /\ p = <<p[1], p[2]>>
    OBVIOUS
  <2>2. p[1] \in Nat /\ p[2] \in Nat
    BY <1>1, <2>1
  <2> QED  BY <2>1, <2>2, SMT DEF Vec
<1> QED  BY <1>1, <1>2

LEMMA PaddedEdges ==
  ASSUME NEW f, NEW n, PaddedHull(f, n)
  PROVE  /\ f \in [Index -> Vec] /\ n \in Nat /\ n - 1 \in Index
         /\ \A k \in Inner :
              /\ Edge(f, k) \in Vec
              /\ Edge(f, k)[1] = f[k][1] - f[k - 1][1]
              /\ Edge(f, k)[2] = f[k][2] - f[k - 1][2]
              /\ k < n => Edge(f, k)[1] > 0
              /\ k >= n => Edge(f, k)[1] = 0 /\ Edge(f, k)[2] <= 0
<1>1. f \in [Index -> Coordinate \X Coordinate] /\ n \in Nat /\ n >= 1 /\ n <= MAX_HULL
  BY Sizes, SMT DEF PaddedHull
<1>2. f \in [Index -> Vec] /\ n - 1 \in Index
  BY <1>1, CoordinateInt, Sizes, SMT
<1>3. ASSUME NEW k \in Inner
      PROVE  /\ Edge(f, k) \in Vec
             /\ Edge(f, k)[1] = f[k][1] - f[k - 1][1]
             /\ Edge(f, k)[2] = f[k][2] - f[k - 1][2]
  <2>1. f[k] \in Vec /\ f[k - 1] \in Vec
    BY <1>2, Sizes
  <2> QED  BY <2>1, Vectors DEF Edge
<1>4. ASSUME NEW k \in Index PROVE f[k][1] \in Nat /\ f[k][2] \in Nat
  <2>1. f[k] \in Coordinate \X Coordinate
    BY <1>1
  <2> QED  BY <2>1, CoordinateInt, SMT
<1>5. ASSUME NEW k \in Inner, k < n PROVE Edge(f, k)[1] > 0
  <2>1. k \in 1 .. n - 1 /\ k \in Index /\ k - 1 \in Index
    BY <1>1, <1>5, Sizes, SMT DEF Inner
  <2>2. f[k - 1][1] < f[k][1]
    BY <2>1 DEF PaddedHull
  <2> QED  BY <1>3, <1>4, <2>1, <2>2, SMT
<1>6. ASSUME NEW k \in Inner, k >= n PROVE Edge(f, k)[1] = 0 /\ Edge(f, k)[2] <= 0
  <2>1. k \in n .. MAX_HULL - 1 /\ k \in Index /\ k - 1 \in Index
    BY <1>1, <1>6, Sizes, SMT DEF Inner
  <2>2. f[k] = <<f[n - 1][1], 0>>
    BY <2>1 DEF PaddedHull
  <2>3. CASE k = n
    BY <1>2, <1>3, <1>4, <2>1, <2>2, <2>3, SMT
  <2>4. CASE k # n
    <3>1. k - 1 \in n .. MAX_HULL - 1
      BY <1>1, <2>1, <2>4, Sizes, SMT
    <3>2. f[k - 1] = <<f[n - 1][1], 0>>
      BY <3>1 DEF PaddedHull
    <3> QED  BY <1>2, <1>3, <1>4, <2>2, <3>2, SMT
  <2> QED  BY <2>3, <2>4
<1> QED  BY <1>1, <1>2, <1>3, <1>5, <1>6

LEMMA PadFalls ==
  ASSUME NEW f, NEW n, PaddedHull(f, n), NEW d \in Vec, d[1] > 0, NEW k \in Inner, k >= n
  PROVE  Cross(d, Edge(f, k)) <= 0
<1>1. Edge(f, k)[1] = 0 /\ Edge(f, k)[2] <= 0 /\ Edge(f, k)[2] \in Int /\ d[1] \in Int /\ d[2] \in Int
  BY PaddedEdges, SMT DEF Vec
<1>2. d[1] * Edge(f, k)[2] <= 0 /\ d[1] * Edge(f, k)[2] \in Int /\ d[2] * 0 = 0
  BY <1>1, Signs, SMT
<1> QED  BY <1>1, <1>2, SMT DEF Cross

\* Seen from any direction to the right, the edges of a hull turn down once.
LEMMA TurnsDown ==
  ASSUME NEW f, NEW n, PaddedHull(f, n), NEW d \in Vec, d[1] > 0,
         NEW j \in Inner, NEW k \in Inner, j <= k, Cross(d, Edge(f, j)) <= 0
  PROVE  Cross(d, Edge(f, k)) <= 0
<1>1. ASSUME NEW l \in Inner, l >= n PROVE Cross(d, Edge(f, l)) <= 0
  BY <1>1, PadFalls
<1>2. ASSUME NEW l \in Inner, l + 1 \in Inner, Cross(d, Edge(f, l)) <= 0
      PROVE  Cross(d, Edge(f, l + 1)) <= 0
  <2>1. CASE l + 1 >= n
    BY <1>1, <1>2, <2>1
  <2>2. CASE l + 1 < n
    <3>1. l \in 1 .. n - 2 /\ l < n /\ l \in Int /\ n \in Int
      BY <2>2, PaddedEdges, SMT DEF Inner
    <3>2. Cross(Edge(f, l), Edge(f, l + 1)) <= 0
      BY <3>1 DEF PaddedHull
    <3>3. /\ Edge(f, l) \in Vec /\ Edge(f, l)[1] > 0
          /\ Edge(f, l + 1) \in Vec /\ Edge(f, l + 1)[1] > 0
      BY <1>2, <2>2, <3>1, PaddedEdges
    <3>4. Edge(f, l + 1)[1] >= 0
      BY <3>3, SMT DEF Vec
    <3> QED  BY <1>2, <3>2, <3>3, <3>4, Steeper
  <2>3. n \in Int /\ l \in Int
    BY PaddedEdges, SMT DEF Inner
  <2> QED  BY <2>1, <2>2, <2>3, SMT
<1> DEFINE Bad == {l \in Nat : l \in Inner /\ j <= l /\ ~ (Cross(d, Edge(f, l)) <= 0)}
<1> SUFFICES ASSUME Bad # {} PROVE FALSE
  <2>1. k \in Nat
    BY SMT DEF Inner
  <2>2. k \notin Bad
    OBVIOUS
  <2> QED  BY <2>1, <2>2
<1>3. PICK l \in Bad : \A m \in Bad : l <= m
  BY LeastElement
<1>4. l \in Nat /\ l \in Inner /\ j <= l /\ ~ (Cross(d, Edge(f, l)) <= 0) /\ l # j
  BY <1>3
<1>5. l - 1 \in Nat /\ l - 1 \in Inner /\ j <= l - 1 /\ (l - 1) + 1 = l /\ ~ (l <= l - 1)
  BY <1>4, Sizes, SMT DEF Inner
<1>6. Cross(d, Edge(f, l - 1)) <= 0
  BY <1>3, <1>5
<1> QED  BY <1>2, <1>4, <1>5, <1>6

\* Points of a hull from left to right, none of them to the left of the first
\* or to the right of the last.
LEMMA LeftToRight ==
  ASSUME NEW f, NEW n, PaddedHull(f, n), NEW j \in Index, NEW k \in Index, j <= k
  PROVE  f[j][1] <= f[k][1]
<1> DEFINE d == <<0, -1>>
<1>1. d \in Vec /\ f \in [Index -> Vec]
  BY PaddedEdges, SMT DEF Vec
<1>2. ASSUME NEW e \in Vec PROVE Cross(d, e) = e[1] /\ e[1] \in Int
  BY SMT DEF Cross, Vec
<1> HIDE DEF d
<1>3. ASSUME NEW l \in j + 1 .. k PROVE Cross(d, Edge(f, l)) >= 0
  <2>1. l \in Inner /\ l \in Int /\ n \in Int
    BY Sizes, PaddedEdges, SMT DEF Inner
  <2>2. Edge(f, l) \in Vec /\ Edge(f, l)[1] >= 0
    <3>1. Edge(f, l) \in Vec /\ Edge(f, l)[1] \in Int
      BY <2>1, PaddedEdges, SMT DEF Vec
    <3>2. Edge(f, l)[1] > 0 \/ Edge(f, l)[1] = 0
      BY <2>1, PaddedEdges, SMT
    <3> QED  BY <3>1, <3>2, SMT
  <2> QED  BY <1>2, <2>2
<1>4. Cross(d, Minus(f[k], f[j])) >= 0
  BY <1>1, <1>3, EdgeSums
<1>5. f[k] \in Vec /\ f[j] \in Vec
  BY <1>1
<1>6. Minus(f[k], f[j]) \in Vec /\ Minus(f[k], f[j])[1] = f[k][1] - f[j][1]
  BY <1>5, Vectors
<1> QED  BY <1>2, <1>4, <1>5, <1>6, SMT DEF Vec
-----------------------------------------------------------------------------
(* The comparisons of the searchers, said with edges.                      *)

LEMMA Triangle ==
  ASSUME NEW a \in Vec, NEW b \in Vec, NEW c \in Vec
  PROVE  /\ Cross(Minus(b, c), Minus(a, c)) = 0 - Cross(Minus(b, c), Minus(b, a))
         /\ Cross(Minus(a, c), Minus(b, a)) = Cross(Minus(b, c), Minus(b, a))
         /\ Cross(Minus(c, a), Minus(c, b)) = Cross(Minus(c, a), Minus(a, b))
<1>1. /\ a[1] \in Int /\ a[2] \in Int /\ b[1] \in Int /\ b[2] \in Int
      /\ c[1] \in Int /\ c[2] \in Int
  BY SMT DEF Vec
<1>2. Cross(Minus(b, c), Minus(a, c)) = 0 - Cross(Minus(b, c), Minus(b, a))
  BY <1>1, SMT DEF Cross, Minus
<1>3. Cross(Minus(a, c), Minus(b, a)) = Cross(Minus(b, c), Minus(b, a))
  BY <1>1, SMT DEF Cross, Minus
<1>4. Cross(Minus(c, a), Minus(c, b)) = Cross(Minus(c, a), Minus(a, b))
  BY <1>1, SMT DEF Cross, Minus
<1> QED  BY <1>2, <1>3, <1>4

LEMMA Modulo ==
  ASSUME NEW v \in Int, NEW m \in Nat \ {0}
  PROVE  /\ 0 <= v /\ v < 2 * m => v % (2 * m) = v
         /\ v < 0 /\ - m < v => v % (2 * m) = v + 2 * m
BY SMT

\* While coordinates are not negative, sc_int<SCALE> holds their differences.
LEMMA NoWrap ==
  ASSUME NEW p \in Coordinate \X Coordinate, NEW o \in Coordinate \X Coordinate
  PROVE  Diff(p, o) = Minus(p, o)
<1> DEFINE m == 2^(SCALE - 1)
<1>1. m \in Nat \ {0} /\ 2^SCALE = 2 * m
  BY WidthAssumption
<1>2. ASSUME NEW c \in Coordinate PROVE c \in Nat /\ c < m
  <2> HIDE DEF m
  <2> QED  BY <1>1, SMT DEF Coordinate, m
<1>3. ASSUME NEW a \in Coordinate, NEW b \in Coordinate PROVE Wrap(a - b) = a - b
  <2>1. a - b \in Int /\ - m < a - b /\ a - b < m
    BY <1>1, <1>2, SMT
  <2>2. Wrap(a - b) = IF (a - b) % (2 * m) < m THEN (a - b) % (2 * m)
                      ELSE ((a - b) % (2 * m)) - 2 * m
    BY <1>1 DEF Wrap
  <2> HIDE DEF m
  <2>3. CASE a - b >= 0
    <3>1. (a - b) % (2 * m) = a - b
      BY <1>1, <2>1, <2>3, Modulo, SMT
    <3> QED  BY <1>1, <2>1, <2>2, <3>1, SMT
  <2>4. CASE a - b < 0
    <3>1. (a - b) % (2 * m) = a - b + 2 * m
      BY <1>1, <2>1, <2>4, Modulo, SMT
    <3> QED  BY <1>1, <2>1, <2>2, <2>4, <3>1, SMT
  <2> QED  BY <2>1, <2>3, <2>4, SMT
<1>4. p[1] \in Coordinate /\ p[2] \in Coordinate /\ o[1] \in Coordinate /\ o[2] \in Coordinate
  OBVIOUS
<1> QED  BY <1>3, <1>4 DEF Diff, Minus

\* A condition that stays true to the right has a last place where it is false.
LEMMA Threshold ==
  ASSUME NEW F \in SUBSET Inner, NEW n \in 1 .. MAX_HULL,
         \A k \in Inner : k >= n => k \in F,
         \A k \in F : k + 1 \in Inner => k + 1 \in F
  PROVE  \E t \in 0 .. n - 1 : \A k \in Inner : k \in F <=> k > t
<1>1. n \in Nat /\ MAX_HULL \in Nat /\ n >= 1 /\ n <= MAX_HULL
  BY Sizes, SMT
<1>2. PICK u \in F \cup {n} : \A k \in F \cup {n} : u <= k
  <2>1. F \cup {n} \subseteq Nat /\ F \cup {n} # {}
    BY <1>1, SMT DEF Inner
  <2> QED  BY <2>1, LeastElement
<1>3. u \in Nat /\ u >= 1 /\ u <= n
  <2>1. u \in Nat /\ u >= 1
    BY <1>1, <1>2, SMT DEF Inner
  <2> QED  BY <1>2, <2>1
<1>4. ASSUME NEW k \in Inner, k > u - 1 PROVE k \in F
  <2> DEFINE Bad == {l \in Nat : l \in Inner /\ l >= u /\ l \notin F}
  <2> SUFFICES ASSUME k \notin F PROVE FALSE
    OBVIOUS
  <2>1. k \in Nat /\ k >= u
    BY <1>1, <1>3, <1>4, SMT DEF Inner
  <2>2. k \in Bad
    BY <2>1
  <2>3. PICK l \in Bad : \A x \in Bad : l <= x
    BY <2>2, LeastElement
  <2>4. l \in Nat /\ l \in Inner /\ l >= u /\ l \notin F
    BY <2>3
  <2>5. l < n
    BY <1>1, <2>4, SMT
  <2>6. l # u
    BY <1>2, <1>3, <2>4, <2>5, SMT
  <2>7. l - 1 \in Nat /\ l - 1 \in Inner /\ l - 1 >= u /\ (l - 1) + 1 = l /\ ~ (l <= l - 1)
    BY <1>1, <1>3, <2>4, <2>6, SMT DEF Inner
  <2>8. l - 1 \in F
    BY <2>3, <2>7
  <2> QED  BY <2>4, <2>7, <2>8
<1>5. ASSUME NEW k \in F PROVE k > u - 1
  <2>1. u <= k /\ k \in Nat
    BY <1>1, <1>2, SMT DEF Inner
  <2> QED  BY <1>3, <2>1, SMT
<1>6. u - 1 \in 0 .. n - 1
  BY <1>1, <1>3, SMT
<1> QED  BY <1>4, <1>5, <1>6

LEMMA NoneBeyond ==
  ASSUME NEW f, NEW n, PaddedHull(f, n), NEW k \in Index
  PROVE  f[k][1] <= f[n - 1][1]
<1>1. n \in Nat /\ n - 1 \in Index /\ k \in Int /\ MAX_HULL \in Int
  BY PaddedEdges, Sizes, SMT
<1>2. CASE k <= n - 1
  BY <1>1, <1>2, LeftToRight
<1>3. CASE k > n - 1
  <2>1. k \in n .. MAX_HULL - 1
    BY <1>1, <1>3, Sizes, SMT
  <2>2. f[k][1] = f[n - 1][1] /\ f[n - 1][1] \in Int
    <3>1. f[k] = <<f[n - 1][1], 0>>
      BY <2>1 DEF PaddedHull
    <3>2. f[n - 1] \in Vec
      BY <1>1, PaddedEdges
    <3> QED  BY <3>1, <3>2, SMT DEF Vec
  <2> QED  BY <2>2, SMT
<1> QED  BY <1>1, <1>2, <1>3, SMT

LEMMA TriangleRight ==
  ASSUME NEW a \in Vec, NEW b \in Vec, NEW c \in Vec
  PROVE  Cross(Minus(c, a), Minus(b, a)) = Cross(Minus(c, b), Minus(b, a))
<1>1. /\ a[1] \in Int /\ a[2] \in Int /\ b[1] \in Int /\ b[2] \in Int
      /\ c[1] \in Int /\ c[2] \in Int
  BY SMT DEF Vec
<1> QED  BY <1>1, SMT DEF Cross, Minus

-----------------------------------------------------------------------------
(* The tangent from a point, and the tangent of two hulls.                 *)

\* Among the points lo .. hi of a hull the one before the edges that fall
\* behind, seen from o on its left, is the highest, and the first such.
LEMMA Highest ==
  ASSUME NEW g, NEW m, PaddedHull(g, m), NEW o \in Vec, o[1] < g[0][1],
         NEW lo \in Index, NEW hi \in Index, NEW t \in lo .. hi,
         \A k \in lo + 1 .. hi : Cross(Minus(g[k], o), Edge(g, k)) <= 0 <=> k > t,
         NEW b \in lo .. hi
  PROVE  /\ Cross(Minus(g[t], o), Minus(g[b], o)) <= 0
         /\ b < t => Cross(Minus(g[t], o), Minus(g[b], o)) < 0
<1> DEFINE d == Minus(g[t], o)
<1>1. t \in Index /\ b \in Index /\ t \in Int /\ b \in Int /\ lo \in Int /\ hi \in Int /\ 0 \in Index
  BY Sizes, SMT
<1>2. g \in [Index -> Vec]
  BY PaddedEdges
<1>3. d \in Vec /\ d[1] > 0
  <2>0. 0 <= t
    BY <1>1, Sizes, SMT
  <2>1. g[0][1] <= g[t][1]
    BY <1>1, <2>0, LeftToRight
  <2>2. g[t] \in Vec /\ g[0] \in Vec
    BY <1>1, <1>2
  <2>3. d \in Vec /\ d[1] = g[t][1] - o[1]
    BY <2>2, Vectors
  <2> HIDE DEF d
  <2> QED  BY <2>1, <2>2, <2>3, SMT DEF Vec
<1>4. \A k \in Inner : Edge(g, k) \in Vec /\ Cross(d, Edge(g, k)) \in Int
  BY <1>3, PaddedEdges, Vectors
<1>5. g[t] \in Vec /\ g[b] \in Vec
  BY <1>1, <1>2
<1>6. Cross(d, Minus(g[b], o)) = Cross(d, Minus(g[b], g[t]))
  <2>1. Cross(d, Minus(g[b], o)) = Cross(d, Minus(g[b], g[t])) + Cross(d, Minus(g[t], o))
    BY <1>3, <1>5, CrossSums
  <2>2. Cross(d, Minus(g[t], o)) = 0
    BY <1>3, CrossSums
  <2>3. Cross(d, Minus(g[b], g[t])) \in Int
    BY <1>3, <1>5, Vectors
  <2> QED  BY <2>1, <2>2, <2>3, SMT
<1>7. CASE b >= t
  <2>1. ASSUME NEW k \in t + 1 .. b PROVE Cross(d, Edge(g, k)) <= 0
    <3>1. /\ t + 1 \in Inner /\ t + 1 \in lo + 1 .. hi /\ t + 1 > t /\ t + 1 <= k /\ k \in Inner
          /\ (t + 1) - 1 = t
      BY <1>1, Sizes, SMT DEF Inner
    <3>2. Cross(Minus(g[t + 1], o), Edge(g, t + 1)) <= 0
      BY <3>1
    <3>3. g[t + 1] \in Vec
      BY <1>2, <3>1, Sizes
    <3>4. Cross(d, Edge(g, t + 1)) <= 0
      BY <1>5, <3>1, <3>2, <3>3, Triangle DEF Edge
    <3> QED  BY <1>3, <3>1, <3>4, TurnsDown
  <2>2. Cross(d, Minus(g[b], g[t])) <= 0
    BY <1>1, <1>2, <1>3, <1>7, <2>1, EdgeSums
  <2> QED  BY <1>1, <1>6, <1>7, <2>2, SMT
<1>8. CASE b < t
  <2>1. ASSUME NEW k \in b + 1 .. t PROVE Cross(d, Edge(g, k)) > 0
    <3>1. t \in Inner /\ t \in lo + 1 .. hi /\ ~ (t > t) /\ k <= t /\ k \in Inner
      BY <1>1, <1>8, Sizes, SMT DEF Inner
    <3>2. ~ (Cross(d, Edge(g, t)) <= 0)
      BY <3>1
    <3>3. ~ (Cross(d, Edge(g, k)) <= 0)
      BY <1>3, <3>1, <3>2, TurnsDown
    <3> QED  BY <1>4, <3>1, <3>3, SMT
  <2>2. Cross(d, Minus(g[t], g[b])) > 0
    BY <1>1, <1>2, <1>3, <1>8, <2>1, EdgeSums
  <2>3. Cross(d, Minus(g[b], g[t])) = 0 - Cross(d, Minus(g[t], g[b]))
        /\ Cross(d, Minus(g[t], g[b])) \in Int
    <3>1. Cross(d, Minus(g[b], g[t])) = - Cross(d, Minus(g[t], g[b]))
      BY <1>3, <1>5, CrossSums
    <3>2. Cross(d, Minus(g[t], g[b])) \in Int
      BY <1>3, <1>5, Vectors
    <3> QED  BY <3>1, <3>2, SMT
  <2> QED  BY <1>6, <2>2, <2>3, SMT
<1> QED  BY <1>1, <1>7, <1>8, SMT

\* Where the line from o on the left touches a hull.
LEMMA TouchExists ==
  ASSUME NEW g, NEW m, PaddedHull(g, m), NEW o \in Vec, o[1] < g[0][1]
  PROVE  \E t \in 0 .. m - 1 :
           \A k \in Inner : Cross(Minus(g[k], o), Edge(g, k)) <= 0 <=> k > t
<1> DEFINE Falls(k) == Cross(Minus(g[k], o), Edge(g, k)) <= 0
           F == {k \in Inner : Falls(k)}
<1>1. ASSUME NEW k \in Inner
      PROVE  /\ Minus(g[k], o) \in Vec /\ Minus(g[k], o)[1] > 0
             /\ k + 1 \in Inner /\ Falls(k) => Falls(k + 1)
             /\ k >= m => Falls(k)
  <2>1. k \in Index /\ k - 1 \in Index /\ 0 \in Index /\ 0 <= k /\ k \in Int /\ (k + 1) - 1 = k
    BY Sizes, SMT DEF Inner
  <2>2. g[k] \in Vec /\ g[0] \in Vec /\ g[0][1] <= g[k][1]
    BY <2>1, PaddedEdges, LeftToRight
  <2>3. Minus(g[k], o) \in Vec /\ Minus(g[k], o)[1] = g[k][1] - o[1]
    BY <2>2, Vectors
  <2>4. Minus(g[k], o)[1] > 0
    BY <2>2, <2>3, SMT DEF Vec
  <2>5. ASSUME k + 1 \in Inner, Falls(k) PROVE Falls(k + 1)
    <3>1. Cross(Minus(g[k], o), Edge(g, k + 1)) <= 0
      BY <2>1, <2>3, <2>4, <2>5, TurnsDown, SMT
    <3>2. g[k + 1] \in Vec
      BY <2>5, PaddedEdges, Sizes
    <3>3. Cross(Minus(g[k], o), Edge(g, k + 1)) = Cross(Minus(g[k + 1], o), Edge(g, k + 1))
      BY <2>1, <2>2, <3>2, Triangle DEF Edge
    <3> QED  BY <3>1, <3>3
  <2>6. ASSUME k >= m PROVE Falls(k)
    BY <2>3, <2>4, <2>6, PadFalls
  <2> QED  BY <2>3, <2>4, <2>5, <2>6
<1> HIDE DEF Falls
<1>2. m \in 1 .. MAX_HULL
  BY DEF PaddedHull
<1>3. \A k \in Inner : k >= m => k \in F
  BY <1>1
<1>4. \A k \in F : k + 1 \in Inner => k + 1 \in F
  BY <1>1
<1>5. \E t \in 0 .. m - 1 : \A k \in Inner : k \in F <=> k > t
  BY <1>2, <1>3, <1>4, Threshold
<1> QED  BY <1>5 DEF Falls

\* The same, from o on the right.
LEMMA RiseExists ==
  ASSUME NEW f, NEW n, PaddedHull(f, n), NEW o \in Vec, f[n - 1][1] < o[1]
  PROVE  \E t \in 0 .. n - 1 :
           \A k \in Inner : Cross(Minus(o, f[k]), Edge(f, k)) <= 0 <=> k > t
<1> DEFINE Falls(k) == Cross(Minus(o, f[k]), Edge(f, k)) <= 0
           F == {k \in Inner : Falls(k)}
<1>1. ASSUME NEW k \in Inner
      PROVE  /\ k + 1 \in Inner /\ Falls(k) => Falls(k + 1)
             /\ k >= n => Falls(k)
  <2>1. k \in Index /\ k \in Int /\ (k + 1) - 1 = k /\ n - 1 \in Index
    BY Sizes, PaddedEdges, SMT DEF Inner
  <2>2. f[k] \in Vec /\ f[n - 1] \in Vec /\ f[k][1] <= f[n - 1][1]
    BY <2>1, PaddedEdges, NoneBeyond
  <2>3. Minus(o, f[k]) \in Vec /\ Minus(o, f[k])[1] = o[1] - f[k][1]
    BY <2>2, Vectors
  <2>4. Minus(o, f[k])[1] > 0
    BY <2>2, <2>3, SMT DEF Vec
  <2>5. ASSUME k + 1 \in Inner, Falls(k) PROVE Falls(k + 1)
    <3>1. Cross(Minus(o, f[k]), Edge(f, k + 1)) <= 0
      BY <2>1, <2>3, <2>4, <2>5, TurnsDown, SMT
    <3>2. f[k + 1] \in Vec
      BY <2>5, PaddedEdges, Sizes
    <3>3. Cross(Minus(o, f[k]), Edge(f, k + 1)) = Cross(Minus(o, f[k + 1]), Edge(f, k + 1))
      BY <2>1, <2>2, <3>2, TriangleRight DEF Edge
    <3> QED  BY <3>1, <3>3
  <2>6. ASSUME k >= n PROVE Falls(k)
    BY <2>3, <2>4, <2>6, PadFalls
  <2> QED  BY <2>5, <2>6
<1> HIDE DEF Falls
<1>2. n \in 1 .. MAX_HULL
  BY DEF PaddedHull
<1>3. \A k \in Inner : k >= n => k \in F
  BY <1>1
<1>4. \A k \in F : k + 1 \in Inner => k + 1 \in F
  BY <1>1
<1>5. \E t \in 0 .. n - 1 : \A k \in Inner : k \in F <=> k > t
  BY <1>2, <1>3, <1>4, Threshold
<1> QED  BY <1>5 DEF Falls
\* The line from f[i] to g[j] is above every edge before the two points and not
\* above any edge after them.
IsTangent(f, g, i, j) ==
  /\ i \in Index /\ j \in Index
  /\ \A k \in Inner : /\ Cross(Minus(g[j], f[i]), Edge(f, k)) <= 0 <=> k > i
                      /\ Cross(Minus(g[j], f[i]), Edge(g, k)) <= 0 <=> k > j

\* Two hulls side by side.
Apart(f, n, g, m) == PaddedHull(f, n) /\ PaddedHull(g, m) /\ f[n - 1][1] < g[0][1]

LEMMA Between ==
  ASSUME NEW f, NEW n, NEW g, NEW m, Apart(f, n, g, m), NEW i \in Index, NEW j \in Index
  PROVE  /\ PaddedHull(f, n) /\ PaddedHull(g, m)
         /\ f[i] \in Vec /\ g[j] \in Vec
         /\ f[i][1] < g[0][1] /\ f[n - 1][1] < g[j][1]
         /\ Minus(g[j], f[i]) \in Vec /\ Minus(g[j], f[i])[1] > 0
<1>1. PaddedHull(f, n) /\ PaddedHull(g, m) /\ f[n - 1][1] < g[0][1]
  BY DEF Apart
<1>2. n - 1 \in Index /\ 0 \in Index /\ 0 <= j
  BY <1>1, PaddedEdges, Sizes, SMT
<1>3. f[i] \in Vec /\ f[n - 1] \in Vec /\ g[j] \in Vec /\ g[0] \in Vec
  BY <1>1, <1>2, PaddedEdges
<1>4. f[i][1] <= f[n - 1][1] /\ g[0][1] <= g[j][1]
  BY <1>1, <1>2, NoneBeyond, LeftToRight
<1>5. f[i][1] < g[0][1] /\ f[n - 1][1] < g[j][1] /\ g[j][1] - f[i][1] > 0
  BY <1>1, <1>3, <1>4, SMT DEF Vec
<1>6. Minus(g[j], f[i]) \in Vec /\ Minus(g[j], f[i])[1] = g[j][1] - f[i][1]
  BY <1>3, Vectors
<1> QED  BY <1>1, <1>3, <1>5, <1>6

\* A condition that is false at t and true at the next place, and stays true,
\* is true after t and only there.
LEMMA Turning ==
  ASSUME NEW f, NEW n, PaddedHull(f, n), NEW d \in Vec, d[1] > 0, NEW t \in Index,
         t \in Inner => ~ (Cross(d, Edge(f, t)) <= 0),
         t + 1 \in Inner => Cross(d, Edge(f, t + 1)) <= 0
  PROVE  \A k \in Inner : Cross(d, Edge(f, k)) <= 0 <=> k > t
<1> TAKE k \in Inner
<1>1. k \in Int /\ t \in Int
  BY Sizes, SMT
<1>2. ASSUME k > t PROVE Cross(d, Edge(f, k)) <= 0
  <2>1. t + 1 \in Inner /\ t + 1 <= k
    BY <1>1, <1>2, Sizes, SMT DEF Inner
  <2> QED  BY <2>1, TurnsDown
<1>3. ASSUME Cross(d, Edge(f, k)) <= 0 PROVE k > t
  <2> SUFFICES ASSUME ~ (k > t) PROVE FALSE
    OBVIOUS
  <2>1. t \in Inner /\ k <= t
    BY <1>1, Sizes, SMT DEF Inner
  <2> QED  BY <1>3, <2>1, TurnsDown
<1> QED  BY <1>2, <1>3

\* The tangent from a point, which touches another hull, touches the first one
\* at that point when ...
LEMMA TangentFrom ==
  ASSUME NEW f, NEW n, NEW g, NEW m, Apart(f, n, g, m), NEW i \in Index, NEW j \in Index,
         \A k \in Inner : Cross(Minus(g[k], f[i]), Edge(g, k)) <= 0 <=> k > j
  PROVE  \A k \in Inner : Cross(Minus(g[j], f[i]), Edge(g, k)) <= 0 <=> k > j
<1>1. PaddedHull(g, m) /\ Minus(g[j], f[i]) \in Vec /\ Minus(g[j], f[i])[1] > 0
  BY Between
<1>2. ASSUME j \in Inner PROVE ~ (Cross(Minus(g[j], f[i]), Edge(g, j)) <= 0)
  <2>1. ~ (j > j)
    BY <1>2, Sizes, SMT
  <2> QED  BY <1>2, <2>1
<1>3. ASSUME j + 1 \in Inner PROVE Cross(Minus(g[j], f[i]), Edge(g, j + 1)) <= 0
  <2>1. j + 1 > j /\ (j + 1) - 1 = j /\ j + 1 \in Index
    BY <1>3, Sizes, SMT
  <2>2. Cross(Minus(g[j + 1], f[i]), Edge(g, j + 1)) <= 0
    BY <1>3, <2>1
  <2>3. f[i] \in Vec /\ g[j] \in Vec /\ g[j + 1] \in Vec
    BY <2>1, Between
  <2> QED  BY <2>1, <2>2, <2>3, Triangle DEF Edge
<1> QED  BY <1>1, <1>2, <1>3, Turning
LEMMA EdgeSteeper ==
  ASSUME NEW f, NEW n, PaddedHull(f, n), NEW d \in Vec, NEW e \in Vec, d[1] > 0, e[1] > 0,
         NEW k \in Inner, Cross(d, e) <= 0, Cross(e, Edge(f, k)) <= 0
  PROVE  Cross(d, Edge(f, k)) <= 0
<1>1. Edge(f, k) \in Vec /\ Edge(f, k)[1] \in Int /\ n \in Int /\ k \in Int
  BY PaddedEdges, SMT DEF Vec, Inner
<1>2. Edge(f, k)[1] > 0 \/ Edge(f, k)[1] = 0
  BY <1>1, PaddedEdges, SMT
<1>3. Edge(f, k)[1] >= 0
  BY <1>1, <1>2, SMT
<1> QED  BY <1>1, <1>3, Steeper

\* Seen from the end of an edge, a point to the right is above it as well as
\* seen from its start.
LEMMA EitherEnd ==
  ASSUME NEW f, NEW n, NEW g, NEW m, Apart(f, n, g, m), NEW k \in Inner, NEW t \in Index
  PROVE  Cross(Minus(g[t], f[k - 1]), Edge(f, k)) = Cross(Minus(g[t], f[k]), Edge(f, k))
<1>1. f[k] \in Vec /\ f[k - 1] \in Vec /\ g[t] \in Vec
  BY Sizes, Between
<1> QED  BY <1>1, TriangleRight DEF Edge

LEMMA WholeTouch ==
  ASSUME NEW f, NEW n, NEW g, NEW m, Apart(f, n, g, m), NEW i \in Index
  PROVE  \E t \in 0 .. m - 1 :
           /\ t \in Index
           /\ \A k \in Inner : Cross(Minus(g[k], f[i]), Edge(g, k)) <= 0 <=> k > t
           /\ \A b \in Index : /\ Cross(Minus(g[t], f[i]), Minus(g[b], f[i])) <= 0
                               /\ b < t => Cross(Minus(g[t], f[i]), Minus(g[b], f[i])) < 0
<1>1. 0 \in Index /\ PaddedHull(g, m) /\ f[i] \in Vec /\ f[i][1] < g[0][1]
  BY Between, Sizes, SMT
<1>2. PICK t \in 0 .. m - 1 :
        \A k \in Inner : Cross(Minus(g[k], f[i]), Edge(g, k)) <= 0 <=> k > t
  BY <1>1, TouchExists
<1> DEFINE hi == MAX_HULL - 1
<1>3. 0 \in Index /\ hi \in Index /\ t \in 0 .. hi /\ t \in Index
  BY <1>1, PaddedEdges, Sizes, SMT
<1>4. \A k \in 0 + 1 .. hi : k \in Inner
  BY SMT DEF Inner
<1>5. \A b \in Index : b \in 0 .. hi
  BY Sizes, SMT
<1>6. \A k \in 0 + 1 .. hi : Cross(Minus(g[k], f[i]), Edge(g, k)) <= 0 <=> k > t
  BY <1>2, <1>4
<1> HIDE DEF hi
<1>7. \A b \in Index : /\ Cross(Minus(g[t], f[i]), Minus(g[b], f[i])) <= 0
                       /\ b < t => Cross(Minus(g[t], f[i]), Minus(g[b], f[i])) < 0
  BY <1>1, <1>3, <1>5, <1>6, Highest
<1> QED  BY <1>2, <1>3, <1>7

\* Two hulls side by side have a tangent.
LEMMA TangentExists ==
  ASSUME NEW f, NEW n, NEW g, NEW m, Apart(f, n, g, m)
  PROVE  \E i \in 0 .. n - 1, j \in 0 .. m - 1 : IsTangent(f, g, i, j)
<1> DEFINE Touch(i, t) ==
             /\ \A k \in Inner : Cross(Minus(g[k], f[i]), Edge(g, k)) <= 0 <=> k > t
             /\ \A b \in Index : Cross(Minus(g[t], f[i]), Minus(g[b], f[i])) <= 0
           Under(i) == \E t \in Index : Touch(i, t) /\ Cross(Minus(g[t], f[i]), Edge(f, i)) <= 0
           F == {i \in Inner : Under(i)}
<1>1. PaddedHull(f, n) /\ PaddedHull(g, m) /\ n \in 1 .. MAX_HULL
  BY DEF Apart, PaddedHull
<1>2. ASSUME NEW i \in Index PROVE \E t \in 0 .. m - 1 : t \in Index /\ Touch(i, t)
  <2>1. PICK t \in 0 .. m - 1 :
          /\ t \in Index
          /\ \A k \in Inner : Cross(Minus(g[k], f[i]), Edge(g, k)) <= 0 <=> k > t
          /\ \A b \in Index : Cross(Minus(g[t], f[i]), Minus(g[b], f[i])) <= 0
    BY WholeTouch
  <2> QED  BY <2>1
<1>3. ASSUME NEW i \in Index, NEW t \in Index, NEW t2 \in Index, NEW k \in Inner,
             Touch(i, t2), Cross(Minus(g[t], f[i]), Edge(f, k)) <= 0
      PROVE  Cross(Minus(g[t2], f[i]), Edge(f, k)) <= 0
  <2>1. Cross(Minus(g[t2], f[i]), Minus(g[t], f[i])) <= 0
    BY <1>3
  <2>2. /\ Minus(g[t2], f[i]) \in Vec /\ Minus(g[t2], f[i])[1] > 0
        /\ Minus(g[t], f[i]) \in Vec /\ Minus(g[t], f[i])[1] > 0
    BY Between
  <2> QED  BY <1>1, <1>3, <2>1, <2>2, EdgeSteeper
<1> HIDE DEF Touch
<1>4. ASSUME NEW i \in Inner, i >= n PROVE Under(i)
  <2>1. i \in Index
    BY Sizes
  <2>2. PICK t \in Index : Touch(i, t)
    BY <1>2, <2>1
  <2>3. Minus(g[t], f[i]) \in Vec /\ Minus(g[t], f[i])[1] > 0
    BY <2>1, Between
  <2>4. Cross(Minus(g[t], f[i]), Edge(f, i)) <= 0
    BY <1>1, <1>4, <2>3, PadFalls
  <2> QED  BY <2>2, <2>4
<1>5. ASSUME NEW i \in Inner, i + 1 \in Inner, Under(i) PROVE Under(i + 1)
  <2>1. i \in Index /\ i + 1 \in Index /\ i <= i + 1 /\ (i + 1) - 1 = i
    BY <1>5, Sizes, SMT
  <2>2. PICK t \in Index : Touch(i, t) /\ Cross(Minus(g[t], f[i]), Edge(f, i)) <= 0
    BY <1>5
  <2>3. Minus(g[t], f[i]) \in Vec /\ Minus(g[t], f[i])[1] > 0
    BY <2>1, Between
  <2>4. Cross(Minus(g[t], f[i]), Edge(f, i + 1)) <= 0
    BY <1>1, <1>5, <2>1, <2>2, <2>3, TurnsDown
  <2>5. Cross(Minus(g[t], f[i + 1]), Edge(f, i + 1)) <= 0
    BY <1>5, <2>1, <2>4, EitherEnd
  <2>6. PICK t2 \in Index : Touch(i + 1, t2)
    BY <1>2, <2>1
  <2>7. Cross(Minus(g[t2], f[i + 1]), Edge(f, i + 1)) <= 0
    BY <1>3, <1>5, <2>1, <2>5, <2>6
  <2> QED  BY <2>6, <2>7
<1>6. PICK i \in 0 .. n - 1 : \A k \in Inner : k \in F <=> k > i
  <2>1. \A k \in Inner : k >= n => k \in F
    BY <1>4
  <2>2. \A k \in F : k + 1 \in Inner => k + 1 \in F
    BY <1>5
  <2> QED  BY <1>1, <2>1, <2>2, Threshold
<1>7. i \in Index
  BY <1>1, Sizes, SMT
<1>8. PICK j \in 0 .. m - 1 : j \in Index /\ Touch(i, j)
  BY <1>2, <1>7
<1>9. Minus(g[j], f[i]) \in Vec /\ Minus(g[j], f[i])[1] > 0
  BY <1>7, <1>8, Between
<1>10. ASSUME i \in Inner PROVE ~ (Cross(Minus(g[j], f[i]), Edge(f, i)) <= 0)
  <2>1. ~ (i > i)
    BY <1>7, Sizes, SMT
  <2> QED  BY <1>6, <1>8, <1>10, <2>1
<1>11. ASSUME i + 1 \in Inner PROVE Cross(Minus(g[j], f[i]), Edge(f, i + 1)) <= 0
  <2>1. i + 1 > i /\ (i + 1) - 1 = i
    BY <1>7, Sizes, SMT
  <2>2. PICK t \in Index : Cross(Minus(g[t], f[i + 1]), Edge(f, i + 1)) <= 0
    BY <1>6, <1>11, <2>1
  <2>3. Cross(Minus(g[t], f[i]), Edge(f, i + 1)) <= 0
    BY <1>11, <2>1, <2>2, EitherEnd
  <2> QED  BY <1>3, <1>7, <1>8, <1>11, <2>3
<1>12. \A k \in Inner : Cross(Minus(g[j], f[i]), Edge(f, k)) <= 0 <=> k > i
  BY <1>1, <1>7, <1>9, <1>10, <1>11, Turning
<1>13. \A k \in Inner : Cross(Minus(g[j], f[i]), Edge(g, k)) <= 0 <=> k > j
  <2>1. \A k \in Inner : Cross(Minus(g[k], f[i]), Edge(g, k)) <= 0 <=> k > j
    BY <1>8 DEF Touch
  <2> QED  BY <1>7, <1>8, <2>1, TangentFrom
<1>14. IsTangent(f, g, i, j)
  BY <1>7, <1>8, <1>12, <1>13 DEF IsTangent
<1> QED  BY <1>6, <1>8, <1>14
\* A line in a direction in which the edges of a hull turn down after s[t] ...
LEMMA Supporting ==
  ASSUME NEW s, NEW len, PaddedHull(s, len), NEW d \in Vec, d[1] > 0,
         NEW t \in Index, NEW k \in Index,
         \A l \in Inner : Cross(d, Edge(s, l)) <= 0 <=> l > t
  PROVE  Cross(d, Minus(s[k], s[t])) <= 0 /\ (k < t => Cross(d, Minus(s[k], s[t])) < 0)
<1>1. s \in [Index -> Vec] /\ s[t] \in Vec /\ s[k] \in Vec /\ t \in Int /\ k \in Int
  <2>1. s \in [Index -> Vec]
    BY PaddedEdges
  <2> QED  BY <2>1, Sizes, SMT
<1>2. CASE k >= t
  <2>1. \A l \in t + 1 .. k : l \in Inner /\ l > t
    BY <1>1, Sizes, SMT DEF Inner
  <2>2. \A l \in t + 1 .. k : Cross(d, Edge(s, l)) <= 0
    BY <2>1
  <2>3. t <= k /\ ~ (k < t)
    BY <1>1, <1>2, SMT
  <2> QED  BY <1>1, <2>2, <2>3, EdgeSums
<1>3. CASE k < t
  <2>1. ASSUME NEW l \in k + 1 .. t PROVE Cross(d, Edge(s, l)) > 0
    <3>1. l \in Inner /\ ~ (l > t)
      BY <1>1, Sizes, SMT DEF Inner
    <3>2. Edge(s, l) \in Vec
      BY <3>1, PaddedEdges
    <3>3. Cross(d, Edge(s, l)) \in Int
      BY <3>2, Vectors
    <3>4. ~ (Cross(d, Edge(s, l)) <= 0)
      BY <3>1
    <3> QED  BY <3>3, <3>4, SMT
  <2>2. Cross(d, Minus(s[t], s[k])) > 0
    <3>1. k <= t
      BY <1>1, <1>3, SMT
    <3> QED  BY <1>1, <1>3, <2>1, <3>1, EdgeSums
  <2>3. Cross(d, Minus(s[k], s[t])) = - Cross(d, Minus(s[t], s[k]))
    BY <1>1, CrossSums
  <2>4. Minus(s[t], s[k]) \in Vec
    BY <1>1, Vectors
  <2>5. Cross(d, Minus(s[t], s[k])) \in Int
    BY <2>4, Vectors
  <2> QED  BY <2>2, <2>3, <2>5, SMT
<1> QED  BY <1>1, <1>2, <1>3, SMT

\* What a tangent is good for: every point is on it or below it, and the
\* points before the two it touches are below it.
LEMMA UnderTangent ==
  ASSUME NEW f, NEW n, NEW g, NEW m, Apart(f, n, g, m), NEW i, NEW j, IsTangent(f, g, i, j),
         NEW k \in Index
  PROVE  LET d == Minus(g[j], f[i])
         IN  /\ Cross(d, Minus(f[k], f[i])) <= 0 /\ (k < i => Cross(d, Minus(f[k], f[i])) < 0)
             /\ Cross(d, Minus(g[k], f[i])) <= 0 /\ (k < j => Cross(d, Minus(g[k], f[i])) < 0)
<1> DEFINE d == Minus(g[j], f[i])
<1>1. i \in Index /\ j \in Index /\ k \in Int /\ i \in Int /\ j \in Int
  BY Sizes, SMT DEF IsTangent
<1>2. d \in Vec /\ d[1] > 0 /\ PaddedHull(f, n) /\ PaddedHull(g, m)
  BY <1>1, Between
<1>3. \A l \in Inner : /\ Cross(d, Edge(f, l)) <= 0 <=> l > i
                       /\ Cross(d, Edge(g, l)) <= 0 <=> l > j
  BY DEF IsTangent
<1>4. f[i] \in Vec /\ g[j] \in Vec /\ f[k] \in Vec /\ g[k] \in Vec
  BY <1>1, Between
<1> HIDE DEF d
<1>6. Cross(d, Minus(f[k], f[i])) <= 0 /\ (k < i => Cross(d, Minus(f[k], f[i])) < 0)
  BY <1>1, <1>2, <1>3, Supporting
<1>7. Cross(d, Minus(g[k], g[j])) <= 0 /\ (k < j => Cross(d, Minus(g[k], g[j])) < 0)
  BY <1>1, <1>2, <1>3, Supporting
<1>8. Cross(d, Minus(g[k], f[i])) = Cross(d, Minus(g[k], g[j]))
  <2>1. Cross(d, Minus(g[k], f[i])) = Cross(d, Minus(g[k], g[j])) + Cross(d, Minus(g[j], f[i]))
    BY <1>2, <1>4, CrossSums
  <2>2. Cross(d, Minus(g[j], f[i])) = 0
    BY <1>2, CrossSums DEF d
  <2>3. Minus(g[k], g[j]) \in Vec
    BY <1>4, Vectors
  <2>4. Cross(d, Minus(g[k], g[j])) \in Int
    BY <1>2, <2>3, Vectors
  <2> QED  BY <2>1, <2>2, <2>4, SMT
<1> QED  BY <1>6, <1>7, <1>8 DEF d

\* The tangent is also the tangent from each of the two points it touches.
LEMMA TouchesBoth ==
  ASSUME NEW f, NEW n, NEW g, NEW m, Apart(f, n, g, m), NEW i, NEW j, IsTangent(f, g, i, j),
         NEW k \in Inner
  PROVE  /\ Cross(Minus(g[j], f[k]), Edge(f, k)) <= 0 <=> k > i
         /\ Cross(Minus(g[k], f[i]), Edge(g, k)) <= 0 <=> k > j
<1>1. i \in Index /\ j \in Index /\ i \in Int /\ j \in Int /\ k \in Int
  BY Sizes, SMT DEF IsTangent
<1>2. /\ PaddedHull(f, n) /\ PaddedHull(g, m)
      /\ f[i] \in Vec /\ g[j] \in Vec /\ f[i][1] < g[0][1] /\ f[n - 1][1] < g[j][1]
  BY <1>1, Between
<1>3. PICK s \in 0 .. n - 1 :
        \A l \in Inner : Cross(Minus(g[j], f[l]), Edge(f, l)) <= 0 <=> l > s
  BY <1>2, RiseExists
<1>4. PICK t \in 0 .. m - 1 :
        \A l \in Inner : Cross(Minus(g[l], f[i]), Edge(g, l)) <= 0 <=> l > t
  BY <1>2, TouchExists
<1>5. \A l \in Inner : /\ Cross(Minus(g[j], f[i]), Edge(f, l)) <= 0 <=> l > i
                       /\ Cross(Minus(g[j], f[i]), Edge(g, l)) <= 0 <=> l > j
  BY DEF IsTangent
<1>6. s \in Int /\ s \in Index /\ t \in Int /\ t \in Index
  <2>1. n - 1 \in Index /\ n \in Nat /\ m - 1 \in Index /\ m \in Nat
    BY <1>2, PaddedEdges
  <2> QED  BY <2>1, Sizes, SMT
<1>7. s >= i
  <2> SUFFICES ASSUME s < i PROVE FALSE
    BY <1>1, <1>6, SMT
  <2>1. i \in Inner /\ i > s /\ ~ (i > i)
    BY <1>1, <1>6, Sizes, SMT DEF Inner
  <2> QED  BY <1>3, <1>5, <2>1
<1>8. s <= i
  <2> SUFFICES ASSUME s > i PROVE FALSE
    BY <1>1, <1>6, SMT
  <2>1. i + 1 \in Inner /\ ~ (i + 1 > s) /\ i + 1 > i /\ (i + 1) - 1 = i
    BY <1>1, <1>6, Sizes, SMT DEF Inner
  <2>2. Cross(Minus(g[j], f[i]), Edge(f, i + 1)) <= 0
    BY <1>5, <2>1
  <2>3. Cross(Minus(g[j], f[i + 1]), Edge(f, i + 1)) <= 0
    BY <1>1, <2>1, <2>2, EitherEnd
  <2> QED  BY <1>3, <2>1, <2>3
<1>9. t >= j
  <2> SUFFICES ASSUME t < j PROVE FALSE
    BY <1>1, <1>6, SMT
  <2>1. j \in Inner /\ j > t /\ ~ (j > j)
    BY <1>1, <1>6, Sizes, SMT DEF Inner
  <2> QED  BY <1>4, <1>5, <2>1
<1>10. t <= j
  <2> SUFFICES ASSUME t > j PROVE FALSE
    BY <1>1, <1>6, SMT
  <2>1. j + 1 \in Inner /\ ~ (j + 1 > t) /\ j + 1 > j /\ (j + 1) - 1 = j /\ j + 1 \in Index
    BY <1>1, <1>6, Sizes, SMT DEF Inner
  <2>2. Cross(Minus(g[j], f[i]), Edge(g, j + 1)) <= 0
    BY <1>5, <2>1
  <2>3. g[j + 1] \in Vec
    BY <1>1, <2>1, Between
  <2>4. Cross(Minus(g[j + 1], f[i]), Edge(g, j + 1)) <= 0
    BY <1>2, <2>1, <2>2, <2>3, Triangle DEF Edge
  <2> QED  BY <1>4, <2>1, <2>4
<1>11. s = i /\ t = j
  BY <1>1, <1>6, <1>7, <1>8, <1>9, <1>10, SMT
<1> QED  BY <1>3, <1>4, <1>11
-----------------------------------------------------------------------------
(* The tests of the three searchers.                                       *)

\* CTBSearcherL and CTSearcherB: the edge before f[i] falls behind the line to
\* its point of g, if that is no lower than the tangent point, exactly when f[i]
\* comes after the tangent point of f.
LEMMA TestOfR ==
  ASSUME NEW f, NEW n, NEW g, NEW m, Apart(f, n, g, m), NEW i, NEW j, IsTangent(f, g, i, j),
         NEW k \in Inner, NEW t \in Index,
         k > i => Cross(Minus(g[t], f[k]), Minus(g[j], f[k])) <= 0
  PROVE  Cross(Minus(g[t], f[k]), Edge(f, k)) <= 0 <=> k > i
<1>1. i \in Index /\ j \in Index /\ i \in Int /\ k \in Int /\ k \in Index
  BY Sizes, SMT DEF IsTangent
<1>2. /\ Minus(g[t], f[k]) \in Vec /\ Minus(g[t], f[k])[1] > 0
      /\ Minus(g[j], f[k]) \in Vec /\ Minus(g[j], f[k])[1] > 0
      /\ Minus(g[t], f[i]) \in Vec /\ Minus(g[t], f[i])[1] > 0
      /\ Minus(g[j], f[i]) \in Vec /\ Minus(g[j], f[i])[1] > 0
      /\ PaddedHull(f, n) /\ g[t] \in Vec /\ f[n - 1][1] < g[t][1]
  BY <1>1, Between
<1>3. ASSUME k > i PROVE Cross(Minus(g[t], f[k]), Edge(f, k)) <= 0
  <2>1. Cross(Minus(g[j], f[k]), Edge(f, k)) <= 0
    BY <1>3, TouchesBoth
  <2> QED  BY <1>2, <1>3, <2>1, EdgeSteeper
<1>4. ASSUME Cross(Minus(g[t], f[k]), Edge(f, k)) <= 0, ~ (k > i) PROVE FALSE
  <2>1. PICK s \in 0 .. n - 1 :
          \A l \in Inner : Cross(Minus(g[t], f[l]), Edge(f, l)) <= 0 <=> l > s
    BY <1>2, RiseExists
  <2>2. k > s /\ n \in Nat
    BY <1>2, <1>4, <2>1, PaddedEdges
  <2>3. i \in Inner /\ i > s /\ ~ (i > i)
    BY <1>1, <1>4, <2>2, Sizes, SMT DEF Inner
  <2>4. Cross(Minus(g[t], f[i]), Edge(f, i)) <= 0
    BY <2>1, <2>3
  <2>5. Cross(Minus(g[j], f[i]), Minus(g[t], f[i])) <= 0
    BY UnderTangent
  <2>6. Cross(Minus(g[j], f[i]), Edge(f, i)) <= 0
    BY <1>2, <2>3, <2>4, <2>5, EdgeSteeper
  <2> QED  BY <2>3, <2>6 DEF IsTangent
<1> QED  BY <1>3, <1>4

LEMMA Opposite ==
  ASSUME NEW a \in Vec, NEW b \in Vec, NEW c \in Vec
  PROVE  Cross(Minus(c, a), Minus(c, b)) = Cross(Minus(c, b), Minus(a, b))
<1>1. /\ a[1] \in Int /\ a[2] \in Int /\ b[1] \in Int /\ b[2] \in Int
      /\ c[1] \in Int /\ c[2] \in Int
  BY SMT DEF Vec
<1> QED  BY <1>1, SMT DEF Cross, Minus

\* The line through g[k] that touches f: of all points of f the one it touches
\* is seen under the lowest slope.
LEMMA LowestSlope ==
  ASSUME NEW f, NEW n, NEW g, NEW m, Apart(f, n, g, m), NEW k \in Index,
         NEW s \in Index, NEW b \in Index,
         \A l \in Inner : Cross(Minus(g[k], f[l]), Edge(f, l)) <= 0 <=> l > s
  PROVE  Cross(Minus(g[k], f[b]), Minus(g[k], f[s])) <= 0
<1> DEFINE d == Minus(g[k], f[s])
<1>1. /\ PaddedHull(f, n) /\ d \in Vec /\ d[1] > 0
      /\ f[s] \in Vec /\ f[b] \in Vec /\ g[k] \in Vec
  BY Between
<1>2. s \in Inner => ~ (Cross(d, Edge(f, s)) <= 0)
  <2>1. ~ (s > s)
    BY Sizes, SMT
  <2> QED  BY <2>1
<1>3. ASSUME s + 1 \in Inner PROVE Cross(d, Edge(f, s + 1)) <= 0
  <2>1. s + 1 > s /\ (s + 1) - 1 = s
    BY Sizes, SMT
  <2>2. Cross(Minus(g[k], f[s + 1]), Edge(f, s + 1)) <= 0
    BY <1>3, <2>1
  <2> QED  BY <1>3, <2>1, <2>2, EitherEnd
<1> HIDE DEF d
<1>4. \A l \in Inner : Cross(d, Edge(f, l)) <= 0 <=> l > s
  BY <1>1, <1>2, <1>3, Turning
<1>5. Cross(d, Minus(f[b], f[s])) <= 0
  BY <1>1, <1>4, Supporting
<1> QED  BY <1>1, <1>5, Opposite DEF d

\* CTBSearcherR: the edge before g[k] falls behind the line that touches f
\* exactly when g[k] comes after the tangent point of g.
LEMMA TestOfQ ==
  ASSUME NEW f, NEW n, NEW g, NEW m, Apart(f, n, g, m), NEW i, NEW j, IsTangent(f, g, i, j),
         NEW k \in Inner, NEW s \in Index,
         \A l \in Inner : Cross(Minus(g[k], f[l]), Edge(f, l)) <= 0 <=> l > s
  PROVE  Cross(Minus(g[k], f[s]), Edge(g, k)) <= 0 <=> k > j
<1> DEFINE d == Minus(g[j], f[i])
<1>1. i \in Index /\ j \in Index /\ j \in Int /\ k \in Int /\ k \in Index
  BY Sizes, SMT DEF IsTangent
<1>2. /\ d \in Vec /\ d[1] > 0 /\ PaddedHull(g, m)
      /\ f[s] \in Vec /\ f[i] \in Vec /\ g[j] \in Vec /\ f[s][1] < g[0][1]
  BY <1>1, Between
<1>3. ASSUME NEW l \in Index, NEW o \in Index
      PROVE  Minus(g[l], f[o]) \in Vec /\ Minus(g[l], f[o])[1] > 0
  BY Between
<1>4. ASSUME k > j PROVE Cross(Minus(g[k], f[s]), Edge(g, k)) <= 0
  <2>1. PICK t \in 0 .. m - 1 :
          \A l \in Inner : Cross(Minus(g[l], f[s]), Edge(g, l)) <= 0 <=> l > t
    BY <1>2, TouchExists
  <2>2. t \in Int /\ t < MAX_HULL
    <3>1. m - 1 \in Index /\ m \in Nat
      BY <1>2, PaddedEdges
    <3> QED  BY <3>1, Sizes, SMT
  <2>3. j + 1 \in Inner /\ (j + 1) - 1 = j /\ j + 1 > j /\ j + 1 \in Index
    BY <1>1, <1>4, Sizes, SMT DEF Inner
  <2>4. Cross(d, Edge(g, j + 1)) <= 0
    BY <2>3 DEF IsTangent
  <2>5. Cross(Minus(g[j], f[s]), d) <= 0
    <3>1. Cross(d, Minus(f[s], f[i])) <= 0
      BY UnderTangent
    <3> QED  BY <1>2, <3>1, Opposite
  <2>6. Cross(Minus(g[j], f[s]), Edge(g, j + 1)) <= 0
    BY <1>1, <1>2, <1>3, <2>3, <2>4, <2>5, EdgeSteeper
  <2>7. g[j + 1] \in Vec
    BY <2>3, Between
  <2>8. Cross(Minus(g[j + 1], f[s]), Edge(g, j + 1)) <= 0
    BY <1>2, <2>3, <2>6, <2>7, Triangle DEF Edge
  <2>9. j + 1 > t
    BY <2>1, <2>3, <2>8
  <2>10. k > t
    BY <1>1, <1>4, <2>2, <2>9, SMT
  <2> QED  BY <2>1, <2>10
<1>5. ASSUME Cross(Minus(g[k], f[s]), Edge(g, k)) <= 0 PROVE k > j
  <2>1. Cross(Minus(g[k], f[i]), Minus(g[k], f[s])) <= 0
    BY <1>1, LowestSlope
  <2>2. Cross(Minus(g[k], f[i]), Edge(g, k)) <= 0
    BY <1>1, <1>2, <1>3, <1>5, <2>1, EdgeSteeper
  <2> QED  BY <2>2, TouchesBoth
<1> QED  BY <1>4, <1>5
-----------------------------------------------------------------------------
(* What the loops compute.                                                 *)

\* A loop whose comparisons hold from c + 1 on stops at c.
LEMMA Counting ==
  ASSUME NEW c \in Offset, NEW keys, \A k \in Key : k \in keys <=> k > c, keys \subseteq Key
  PROVE  Descend(keys) = c
<1>1. c \in Nat /\ c <= KEY /\ KEY \in Nat
  BY Sizes, SMT DEF Offset
<1>2. keys = c + 1 .. KEY
  <2>1. \A k \in Key : k \in c + 1 .. KEY <=> k > c
    BY <1>1, SMT DEF Key
  <2>2. c + 1 .. KEY \subseteq Key
    BY <1>1, SMT DEF Key
  <2> QED  BY <2>1, <2>2
<1>3. Cardinality(c + 1 .. KEY) = IF c + 1 > KEY THEN 0 ELSE KEY - (c + 1) + 1
  BY <1>1, FS_Interval
<1>4. Cardinality(c + 1 .. KEY) = KEY - c
  BY <1>1, <1>3, SMT
<1> QED  BY <1>1, <1>2, <1>4, SMT DEF Descend

\* Block and offset of an index.
LEMMA Blocks ==
  ASSUME NEW t \in Index
  PROVE  \E a \in Offset, c \in Offset :
           /\ t = a * BLOCK + c
           /\ a * BLOCK \in Index
           /\ \A k \in Key : /\ k * BLOCK \in Inner /\ a * BLOCK + k \in Inner
                             /\ k * BLOCK > t <=> k > a
                             /\ a * BLOCK + k > t <=> k > c
<1> DEFINE a == t \div BLOCK
           c == t % BLOCK
<1>1. BLOCK \in Nat /\ BLOCK > 0 /\ BLOCK = KEY + 1 /\ KEY \in Nat /\ KEY > 0
      /\ MAX_HULL = BLOCK * BLOCK /\ t \in Nat /\ t < MAX_HULL
  BY Sizes, SMT
<1>2. t = a * BLOCK + c /\ a \in Nat /\ c \in 0 .. BLOCK - 1
  BY <1>1, SMT
<1> HIDE DEF a, c
<1>3. c \in Offset /\ c \in Nat /\ c < BLOCK
  BY <1>1, <1>2, SMT DEF Offset
<1>4. a < BLOCK
  <2> SUFFICES ASSUME a >= BLOCK PROVE FALSE
    BY <1>1, <1>2, SMT
  <2>1. PICK e \in Nat : a = BLOCK + e
    <3>1. a - BLOCK \in Nat
      BY <1>1, <1>2, SMT
    <3> QED  BY <1>1, <1>2, <3>1, SMT
  <2>2. a * BLOCK = BLOCK * BLOCK + e * BLOCK /\ e * BLOCK >= 0
    BY <1>1, <2>1, SMT
  <2> QED  BY <1>1, <1>2, <1>3, <2>2, SMT
<1>5. a \in Offset
  BY <1>1, <1>2, <1>4, SMT DEF Offset
<1>6. ASSUME NEW k \in Nat, NEW l \in Nat, k < l PROVE k * BLOCK + BLOCK <= l * BLOCK
                                                /\ k * BLOCK \in Nat /\ l * BLOCK \in Nat
  <2>1. PICK e \in Nat : l = k + 1 + e
    <3>1. l - k - 1 \in Nat
      BY <1>6, SMT
    <3> QED  BY <3>1, SMT
  <2>2. l * BLOCK = k * BLOCK + BLOCK + e * BLOCK /\ e * BLOCK >= 0
    BY <1>1, <2>1, SMT
  <2> QED  BY <1>1, <2>2, SMT
<1>7. a * BLOCK + BLOCK <= MAX_HULL /\ a * BLOCK \in Nat
  BY <1>1, <1>2, <1>4, <1>6
<1>8. a * BLOCK \in Index
  BY <1>1, <1>7, Sizes, SMT
<1>9. ASSUME NEW k \in Key
      PROVE  /\ k * BLOCK \in Inner /\ a * BLOCK + k \in Inner
             /\ k * BLOCK > t <=> k > a
             /\ a * BLOCK + k > t <=> k > c
  <2>1. k \in Nat /\ 0 < k /\ k < BLOCK /\ 0 \in Nat
    BY <1>1, SMT DEF Key
  <2>2. k * BLOCK \in Nat /\ k * BLOCK + BLOCK <= MAX_HULL /\ 0 * BLOCK + BLOCK <= k * BLOCK
        /\ 0 * BLOCK = 0
    BY <1>1, <1>6, <2>1, SMT
  <2>3. k * BLOCK \in Inner /\ a * BLOCK + k \in Inner
    BY <1>1, <1>7, <2>1, <2>2, SMT DEF Inner
  <2>4. a * BLOCK + k > t <=> k > c
    BY <1>2, <1>3, <1>7, <2>1, SMT
  <2>5. ASSUME k > a PROVE k * BLOCK > t
    <3>1. a * BLOCK + BLOCK <= k * BLOCK
      BY <1>2, <1>6, <2>1, <2>5
    <3> QED  BY <1>1, <1>2, <1>3, <1>7, <2>2, <3>1, SMT
  <2>6. ASSUME ~ (k > a) PROVE ~ (k * BLOCK > t)
    <3>1. k = a \/ k < a
      BY <1>2, <2>1, <2>6, SMT
    <3>2. k * BLOCK <= a * BLOCK
      <4>1. CASE k = a
        BY <1>7, <4>1, SMT
      <4>2. CASE k < a
        <5>1. k * BLOCK + BLOCK <= a * BLOCK
          BY <1>2, <1>6, <2>1, <4>2
        <5> QED  BY <1>1, <1>7, <2>2, <5>1, SMT
      <4> QED  BY <3>1, <4>1, <4>2
    <3> QED  BY <1>1, <1>2, <1>3, <1>7, <2>2, <3>2, SMT
  <2> QED  BY <2>3, <2>4, <2>5, <2>6
<1> QED  BY <1>2, <1>3, <1>5, <1>8, <1>9

LEMMA Comparisons ==
  ASSUME NEW f, NEW n, NEW g, NEW m, Apart(f, n, g, m), NEW i \in Index, NEW k \in Inner
  PROVE  /\ Diff(g[k], f[i]) = Minus(g[k], f[i]) /\ Diff(g[i], f[k]) = Minus(g[i], f[k])
         /\ FallsBehind(g, f[i], k) <=> Cross(Minus(g[k], f[i]), Edge(g, k)) <= 0
         /\ Cross(Minus(g[i], f[k]), Minus(g[i], f[k - 1])) <= 0
              <=> Cross(Minus(g[i], f[k]), Edge(f, k)) <= 0
         /\ Cross(Minus(g[k], f[i]), Minus(g[k - 1], f[i])) >= 0
              <=> Cross(Minus(g[k], f[i]), Edge(g, k)) <= 0
<1>1. PaddedHull(f, n) /\ PaddedHull(g, m) /\ k \in Index /\ k - 1 \in Index
  BY Between, Sizes
<1>2. /\ f[i] \in Coordinate \X Coordinate /\ g[k] \in Coordinate \X Coordinate
      /\ f[k] \in Coordinate \X Coordinate /\ g[i] \in Coordinate \X Coordinate
  BY <1>1 DEF PaddedHull
<1>3. Diff(g[k], f[i]) = Minus(g[k], f[i]) /\ Diff(g[i], f[k]) = Minus(g[i], f[k])
  BY <1>2, NoWrap
<1>4. /\ f[i] \in Vec /\ g[k] \in Vec /\ g[k - 1] \in Vec
      /\ g[i] \in Vec /\ f[k] \in Vec /\ f[k - 1] \in Vec
  BY <1>1, Between
<1>5. Cross(Minus(g[k], f[i]), Minus(g[k - 1], f[i])) = 0 - Cross(Minus(g[k], f[i]), Edge(g, k))
  BY <1>4, Triangle DEF Edge
<1>6. Cross(Minus(g[k], f[i]), Edge(g, k)) \in Int
  <2>1. Minus(g[k], f[i]) \in Vec /\ Edge(g, k) \in Vec
    BY <1>1, <1>4, Vectors, PaddedEdges
  <2> QED  BY <2>1, Vectors
<1>7. Cross(Minus(g[k], f[i]), Minus(g[k - 1], f[i])) >= 0
        <=> Cross(Minus(g[k], f[i]), Edge(g, k)) <= 0
  BY <1>5, <1>6, SMT
<1>8. FallsBehind(g, f[i], k) <=> Cross(Minus(g[k], f[i]), Edge(g, k)) <= 0
  BY <1>3, <1>7 DEF FallsBehind
<1>9. Cross(Minus(g[i], f[k]), Minus(g[i], f[k - 1])) = Cross(Minus(g[i], f[k]), Edge(f, k))
  BY <1>4, Triangle DEF Edge
<1> QED  BY <1>3, <1>7, <1>8, <1>9

\* The two loops of CTBSearcherL find where the line from f[i] touches g.
LEMMA TouchOnQIs ==
  ASSUME NEW f, NEW n, NEW g, NEW m, Apart(f, n, g, m), NEW i \in Index, NEW t \in Index,
         \A k \in Inner : Cross(Minus(g[k], f[i]), Edge(g, k)) <= 0 <=> k > t
  PROVE  TouchOnQ(g, f[i]) = t
<1>1. PICK a \in Offset, c \in Offset :
        /\ t = a * BLOCK + c
        /\ \A k \in Key : /\ k * BLOCK \in Inner /\ a * BLOCK + k \in Inner
                          /\ k * BLOCK > t <=> k > a
                          /\ a * BLOCK + k > t <=> k > c
  BY Blocks
<1>2. \A k \in Inner : FallsBehind(g, f[i], k) <=> k > t
  BY Comparisons
<1>3. Descend({k \in Key : FallsBehind(g, f[i], k * BLOCK)}) = a
  <2>1. \A k \in Key : k \in {l \in Key : FallsBehind(g, f[i], l * BLOCK)} <=> k > a
    BY <1>1, <1>2
  <2> QED  BY <2>1, Counting
<1>4. Descend({k \in Key : FallsBehind(g, f[i], a * BLOCK + k)}) = c
  <2>1. \A k \in Key : k \in {l \in Key : FallsBehind(g, f[i], a * BLOCK + l)} <=> k > c
    BY <1>1, <1>2
  <2> QED  BY <2>1, Counting
<1> QED  BY <1>1, <1>3, <1>4 DEF TouchOnQ

\* The two loops of CTBSearcherR find where the line from g[i] touches f.
LEMMA TouchOnRIs ==
  ASSUME NEW f, NEW n, NEW g, NEW m, Apart(f, n, g, m), NEW i \in Index, NEW t \in Index,
         \A k \in Inner : Cross(Minus(g[i], f[k]), Edge(f, k)) <= 0 <=> k > t
  PROVE  TouchOnR(f, g[i]) = t
<1> DEFINE RisesTo(k) == Cross(Diff(g[i], f[k]), Minus(g[i], f[k - 1])) <= 0
<1>1. PICK a \in Offset, c \in Offset :
        /\ t = a * BLOCK + c
        /\ \A k \in Key : /\ k * BLOCK \in Inner /\ a * BLOCK + k \in Inner
                          /\ k * BLOCK > t <=> k > a
                          /\ a * BLOCK + k > t <=> k > c
  BY Blocks
<1>2. \A k \in Inner : RisesTo(k) <=> k > t
  BY Comparisons
<1>3. TouchOnR(f, g[i]) = Descend({k \in Key : RisesTo(k * BLOCK)}) * BLOCK
        + Descend({k \in Key : RisesTo(Descend({l \in Key : RisesTo(l * BLOCK)}) * BLOCK + k)})
  BY DEF TouchOnR
<1> HIDE DEF RisesTo
<1>4. Descend({k \in Key : RisesTo(k * BLOCK)}) = a
  <2>1. \A k \in Key : k \in {l \in Key : RisesTo(l * BLOCK)} <=> k > a
    BY <1>1, <1>2
  <2> QED  BY <2>1, Counting
<1>5. Descend({k \in Key : RisesTo(a * BLOCK + k)}) = c
  <2>1. \A k \in Key : k \in {l \in Key : RisesTo(a * BLOCK + l)} <=> k > c
    BY <1>1, <1>2
  <2> QED  BY <2>1, Counting
<1> QED  BY <1>1, <1>3, <1>4, <1>5
\* The start of the block of an index, and the index in that block.
InBlockAt(start, t) == /\ start \in Index /\ t - start \in Offset
                       /\ \A k \in Key : start + k \in Inner

LEMMA BlockOf ==
  ASSUME NEW t \in Index, NEW keys, keys \subseteq Key,
         \A k \in Key : k \in keys <=> k * BLOCK > t
  PROVE  InBlockAt(BLOCK * Descend(keys), t)
<1>1. PICK a \in Offset, c \in Offset :
        /\ t = a * BLOCK + c
        /\ a * BLOCK \in Index
        /\ \A k \in Key : a * BLOCK + k \in Inner /\ (k * BLOCK > t <=> k > a)
  BY Blocks
<1>2. \A k \in Key : k \in keys <=> k > a
  BY <1>1
<1>3. Descend(keys) = a
  BY <1>2, Counting
<1>4. BLOCK * a = a * BLOCK /\ t - a * BLOCK = c
  <2>1. a \in Int /\ c \in Int /\ BLOCK \in Int
    BY Sizes, SMT DEF Offset
  <2> QED  BY <1>1, <2>1, SMT
<1> QED  BY <1>1, <1>3, <1>4 DEF InBlockAt

\* CTBSearcherL finds the block of the tangent point of f, ...
LEMMA BlockOfRIs ==
  ASSUME NEW f, NEW n, NEW g, NEW m, Apart(f, n, g, m), NEW i, NEW j, IsTangent(f, g, i, j)
  PROVE  InBlockAt(BlockOfR(f, g), i)
<1> DEFINE Test(k) == LET o == f[k * BLOCK]
                          t == g[TouchOnQ(g, o)]
                      IN  Cross(Diff(t, o), Minus(t, f[k * BLOCK - 1])) <= 0
           keys == {k \in Key : Test(k)}
<1>1. i \in Index /\ j \in Index
  BY DEF IsTangent
<1>2. \A k \in Key : k * BLOCK \in Inner
  BY <1>1, Blocks
<1>3. ASSUME NEW k \in Key PROVE Test(k) <=> k * BLOCK > i
  <2> DEFINE l == k * BLOCK
  <2>1. l \in Inner /\ l \in Index
    BY <1>2, Sizes
  <2> HIDE DEF l
  <2>2. PICK t \in Index :
          /\ \A x \in Inner : Cross(Minus(g[x], f[l]), Edge(g, x)) <= 0 <=> x > t
          /\ \A b \in Index : Cross(Minus(g[t], f[l]), Minus(g[b], f[l])) <= 0
    BY <2>1, WholeTouch
  <2>3. TouchOnQ(g, f[l]) = t
    BY <2>1, <2>2, TouchOnQIs
  <2>4. Cross(Diff(g[t], f[l]), Minus(g[t], f[l - 1])) <= 0
          <=> Cross(Minus(g[t], f[l]), Edge(f, l)) <= 0
    BY <2>1, Comparisons
  <2>5. Cross(Minus(g[t], f[l]), Edge(f, l)) <= 0 <=> l > i
    BY <1>1, <2>1, <2>2, TestOfR
  <2> QED  BY <2>3, <2>4, <2>5 DEF l
<1>4. BlockOfR(f, g) = BLOCK * Descend(keys)
  BY DEF BlockOfR
<1> HIDE DEF Test
<1>5. InBlockAt(BLOCK * Descend(keys), i)
  BY <1>1, <1>3, BlockOf
<1> QED  BY <1>4, <1>5

\* ... and CTBSearcherR that of g, ...
LEMMA BlockOfQIs ==
  ASSUME NEW f, NEW n, NEW g, NEW m, Apart(f, n, g, m), NEW i, NEW j, IsTangent(f, g, i, j)
  PROVE  InBlockAt(BlockOfQ(f, g), j)
<1> DEFINE Test(k) == LET o == g[k * BLOCK]
                          t == f[TouchOnR(f, o)]
                      IN  Cross(Diff(o, t), Minus(g[k * BLOCK - 1], t)) >= 0
           keys == {k \in Key : Test(k)}
<1>1. i \in Index /\ j \in Index
  BY DEF IsTangent
<1>2. \A k \in Key : k * BLOCK \in Inner
  BY <1>1, Blocks
<1>3. ASSUME NEW k \in Key PROVE Test(k) <=> k * BLOCK > j
  <2> DEFINE l == k * BLOCK
  <2>1. l \in Inner /\ l \in Index
    BY <1>2, Sizes
  <2> HIDE DEF l
  <2>2. PICK s \in 0 .. n - 1 :
          \A x \in Inner : Cross(Minus(g[l], f[x]), Edge(f, x)) <= 0 <=> x > s
    <3>1. PaddedHull(f, n) /\ g[l] \in Vec /\ f[n - 1][1] < g[l][1]
      BY <1>1, <2>1, Between
    <3> QED  BY <3>1, RiseExists
  <2>3. s \in Index
    <3>1. PaddedHull(f, n)
      BY DEF Apart
    <3>2. n - 1 \in Index /\ n \in Nat
      BY <3>1, PaddedEdges
    <3> QED  BY <2>2, <3>2, Sizes, SMT
  <2>4. TouchOnR(f, g[l]) = s
    BY <2>1, <2>2, <2>3, TouchOnRIs
  <2>5. Cross(Diff(g[l], f[s]), Minus(g[l - 1], f[s])) >= 0
          <=> Cross(Minus(g[l], f[s]), Edge(g, l)) <= 0
    BY <2>1, <2>3, Comparisons
  <2>6. Cross(Minus(g[l], f[s]), Edge(g, l)) <= 0 <=> l > j
    BY <2>1, <2>2, <2>3, TestOfQ
  <2> QED  BY <2>4, <2>5, <2>6 DEF l
<1>4. BlockOfQ(f, g) = BLOCK * Descend(keys)
  BY DEF BlockOfQ
<1> HIDE DEF Test
<1>5. InBlockAt(BLOCK * Descend(keys), j)
  BY <1>1, <1>3, BlockOf
<1> QED  BY <1>4, <1>5

\* ... and CTSearcherB the two points in the blocks.
LEMMA IndicesAre ==
  ASSUME NEW f, NEW n, NEW g, NEW m, Apart(f, n, g, m), NEW i, NEW j, IsTangent(f, g, i, j),
         NEW rs, NEW qs, InBlockAt(rs, i), InBlockAt(qs, j)
  PROVE  IndicesOf(BlockAt(f, rs), BlockAt(g, qs), rs, qs) = <<i, j>>
<1> DEFINE rb == BlockAt(f, rs)
           qb == BlockAt(g, qs)
           hi == qs + KEY
<1>1. i \in Index /\ j \in Index /\ rs \in Index /\ qs \in Index
      /\ i \in Nat /\ j \in Nat /\ rs \in Nat /\ qs \in Nat /\ KEY \in Nat /\ KEY > 0
      /\ i - rs \in Offset /\ j - qs \in Offset
  BY Sizes, SMT DEF IsTangent, InBlockAt
<1>2. ASSUME NEW k \in Key
      PROVE  /\ k \in Nat /\ k \in Offset /\ k - 1 \in Offset /\ k <= KEY /\ k > 0
             /\ rs + k \in Inner /\ rs + k \in Index /\ rs + (k - 1) = (rs + k) - 1
             /\ qs + k \in Inner /\ qs + k \in Index /\ qs + (k - 1) = (qs + k) - 1
  <2>1. rs + k \in Inner /\ qs + k \in Inner
    BY DEF InBlockAt
  <2> QED  BY <1>1, <2>1, Sizes, SMT DEF Key, Offset
<1>3. hi \in Index /\ hi \in Nat /\ qs <= hi
  <2>1. KEY \in Key
    BY <1>1, SMT DEF Key
  <2> QED  BY <1>1, <1>2, <2>1, SMT
<1>4. ASSUME NEW k \in Offset PROVE /\ rs + k \in Index /\ qs + k \in Index
                                  /\ rb[k] = f[rs + k] /\ qb[k] = g[qs + k] /\ k \in Nat
  <2>1. k = 0 \/ k \in Key
    BY <1>1, SMT DEF Key, Offset
  <2>2. k \in Nat /\ (k = 0 => rs + k = rs /\ qs + k = qs)
    BY <1>1, SMT DEF Offset
  <2> QED  BY <1>1, <1>2, <2>1, <2>2 DEF BlockAt
<1> HIDE DEF rb, qb
<1>5. ASSUME NEW e \in Offset, NEW t \in Index,
             \A k \in Inner : Cross(Minus(g[k], f[rs + e]), Edge(g, k)) <= 0 <=> k > t
      PROVE  \E c \in Offset :
               /\ TouchInBlock(rb, qb, e) = c
               /\ \A k \in Key : qs + k > t <=> k > c
               /\ t - qs \in Offset => c = t - qs
  <2> DEFINE keys == {k \in Key : FallsBehind(qb, rb[e], k)}
             c == IF t < qs THEN 0 ELSE IF t - qs > KEY THEN KEY ELSE t - qs
  <2>1. t \in Nat /\ e \in Nat
    BY <1>4, Sizes, SMT
  <2>2. c \in Offset /\ \A k \in Key : qs + k > t <=> k > c
    BY <1>1, <2>1, SMT DEF Offset, Key
  <2>3. t - qs \in Offset => c = t - qs
    BY <1>1, <2>1, SMT DEF Offset
  <2>4. ASSUME NEW k \in Key PROVE k \in keys <=> k > c
    <3>1. qb[k] = g[qs + k] /\ qb[k - 1] = g[(qs + k) - 1] /\ rb[e] = f[rs + e] /\ rs + e \in Index
      BY <1>2, <1>4
    <3>2. FallsBehind(qb, rb[e], k) <=> FallsBehind(g, f[rs + e], qs + k)
      BY <3>1 DEF FallsBehind
    <3>3. FallsBehind(g, f[rs + e], qs + k) <=> qs + k > t
      BY <1>2, <1>5, <3>1, Comparisons
    <3> QED  BY <2>2, <3>2, <3>3
  <2> HIDE DEF c
  <2>5. Descend(keys) = c
    BY <2>2, <2>4, Counting
  <2>6. TouchInBlock(rb, qb, e) = c
    BY <2>5 DEF TouchInBlock
  <2> QED  BY <2>2, <2>3, <2>6
<1>6. ASSUME NEW k \in Key
      PROVE  LET t == qb[TouchInBlock(rb, qb, k)]
             IN  Cross(Diff(t, rb[k]), Minus(t, rb[k - 1])) <= 0 <=> k > i - rs
  <2> DEFINE l == rs + k
  <2>1. k \in Offset /\ k - 1 \in Offset /\ l \in Inner /\ l \in Index /\ rs + (k - 1) = l - 1
    BY <1>2
  <2>2. rb[k] = f[l] /\ rb[k - 1] = f[l - 1]
    BY <1>4, <2>1
  <2>3. PICK t \in Index : \A x \in Inner : Cross(Minus(g[x], f[l]), Edge(g, x)) <= 0 <=> x > t
    BY <2>1, WholeTouch
  <2>4. PICK c \in Offset :
          TouchInBlock(rb, qb, k) = c /\ \A x \in Key : qs + x > t <=> x > c
    BY <1>5, <2>1, <2>3
  <2>5. qb[c] = g[qs + c] /\ qs + c \in Index /\ c \in Nat /\ c <= KEY
    BY <1>1, <1>4, SMT DEF Offset
  <2> HIDE DEF l
  <2>6. Cross(Minus(g[qs + c], f[l]), Minus(g[j], f[l])) <= 0
    <3>1. ASSUME NEW x \in qs + 1 .. hi
          PROVE  Cross(Minus(g[x], f[l]), Edge(g, x)) <= 0 <=> x > qs + c
      <4>1. x \in Nat /\ x - qs \in Key /\ qs + (x - qs) = x
        BY <1>1, SMT DEF Key
      <4>2. x \in Inner
        BY <1>2, <4>1
      <4>3. x > t <=> x - qs > c
        BY <2>4, <4>1
      <4>4. x - qs > c <=> x > qs + c
        BY <1>1, <2>5, <4>1, SMT
      <4> QED  BY <2>3, <4>2, <4>3, <4>4
    <3>2. qs + c \in qs .. hi /\ j \in qs .. hi
      BY <1>1, <2>5, SMT DEF Offset
    <3>3. PaddedHull(g, m) /\ f[l] \in Vec /\ f[l][1] < g[0][1]
      BY <1>1, <2>1, Between
    <3> HIDE DEF hi
    <3> QED  BY <1>1, <1>3, <3>1, <3>2, <3>3, Highest
  <2>7. Cross(Diff(g[qs + c], f[l]), Minus(g[qs + c], f[l - 1])) <= 0
          <=> Cross(Minus(g[qs + c], f[l]), Edge(f, l)) <= 0
    BY <2>1, <2>5, Comparisons
  <2>8. Cross(Minus(g[qs + c], f[l]), Edge(f, l)) <= 0 <=> l > i
    BY <2>1, <2>5, <2>6, TestOfR
  <2>9. l > i <=> k > i - rs
    BY <1>1, <1>2, SMT DEF l
  <2> QED  BY <2>2, <2>4, <2>5, <2>7, <2>8, <2>9
<1>7. TangentInBlock(rb, qb) = i - rs
  <2> DEFINE Test(k) == LET t == qb[TouchInBlock(rb, qb, k)]
                        IN  Cross(Diff(t, rb[k]), Minus(t, rb[k - 1])) <= 0
             keys == {k \in Key : Test(k)}
  <2>1. \A k \in Key : Test(k) <=> k > i - rs
    BY <1>6
  <2>2. TangentInBlock(rb, qb) = Descend(keys)
    BY DEF TangentInBlock
  <2> HIDE DEF Test
  <2>3. Descend(keys) = i - rs
    BY <1>1, <2>1, Counting
  <2> QED  BY <2>2, <2>3
<1>8. TouchInBlock(rb, qb, i - rs) = j - qs
  <2>1. rs + (i - rs) = i
    BY <1>1, SMT
  <2>2. \A k \in Inner : Cross(Minus(g[k], f[i]), Edge(g, k)) <= 0 <=> k > j
    BY TouchesBoth
  <2> QED  BY <1>1, <1>5, <2>1, <2>2
<1>9. (i - rs) + rs = i /\ (j - qs) + qs = j /\ i % MAX_HULL = i /\ j % MAX_HULL = j
  <2>1. i < MAX_HULL /\ j < MAX_HULL /\ MAX_HULL \in Nat
    BY <1>1, Sizes, SMT
  <2> HIDE DEF MAX_HULL
  <2> QED  BY <1>1, <2>1, SMT
<1>10. IndicesOf(rb, qb, rs, qs) = <<((i - rs) + rs) % MAX_HULL, ((j - qs) + qs) % MAX_HULL>>
  BY <1>7, <1>8 DEF IndicesOf
<1> QED  BY <1>9, <1>10 DEF rb, qb
\* The searcher returns the tangent of two hulls side by side.
LEMMA TangentFound ==
  ASSUME NEW f, NEW n, NEW g, NEW m, Apart(f, n, g, m)
  PROVE  \E i \in 0 .. n - 1, j \in 0 .. m - 1 :
           /\ IsTangent(f, g, i, j)
           /\ InBlockAt(BlockOfR(f, g), i) /\ InBlockAt(BlockOfQ(f, g), j)
           /\ TangentIndices(f, g) = <<i, j>>
<1>1. PICK i \in 0 .. n - 1, j \in 0 .. m - 1 : IsTangent(f, g, i, j)
  BY TangentExists
<1>2. InBlockAt(BlockOfR(f, g), i) /\ InBlockAt(BlockOfQ(f, g), j)
  BY <1>1, BlockOfRIs, BlockOfQIs
<1>3. TangentIndices(f, g) = <<i, j>>
  BY <1>1, <1>2, IndicesAre DEF TangentIndices
<1> QED  BY <1>1, <1>2, <1>3

-----------------------------------------------------------------------------
(* Two hulls that meet in a point on the x axis, which is then the same as *)
(* the padding of the left one.                                            *)

Meet(f, n, g, m) ==
  PaddedHull(f, n) /\ PaddedHull(g, m) /\ f[n - 1] = g[0] /\ g[0][2] = 0

LEMMA Offsets ==
  ASSUME NEW keys, keys \subseteq Key
  PROVE  Descend(keys) \in Offset
<1>1. KEY \in Nat /\ Key = 1 .. KEY
  BY Sizes DEF Key
<1>2. IsFiniteSet(1 .. KEY) /\ Cardinality(1 .. KEY) = IF 1 > KEY THEN 0 ELSE KEY - 1 + 1
  BY <1>1, FS_Interval
<1>3. Cardinality(1 .. KEY) = KEY
  BY <1>1, <1>2, Sizes, SMT
<1>4. Cardinality(keys) <= KEY /\ IsFiniteSet(keys)
  BY <1>1, <1>2, <1>3, FS_Subset
<1>5. Cardinality(keys) \in Nat
  BY <1>4, FS_CardinalityType
<1> QED  BY <1>1, <1>4, <1>5, SMT DEF Descend, Offset

LEMMA AllKeys ==
  ASSUME NEW keys, keys = Key
  PROVE  Descend(keys) = 0
<1>1. 0 \in Offset /\ \A k \in Key : k > 0
  BY Sizes, SMT DEF Offset, Key
<1> QED  BY <1>1, Counting

LEMMA Located ==
  ASSUME NEW a \in Offset, NEW c \in Offset
  PROVE  a * BLOCK + c \in Index
<1>1. BLOCK \in Nat /\ BLOCK > 0 /\ a \in Nat /\ c \in Nat /\ a <= BLOCK - 1 /\ c <= BLOCK - 1
      /\ MAX_HULL = BLOCK * BLOCK
  BY Sizes, SMT DEF Offset
<1>2. PICK e \in Nat : BLOCK = a + 1 + e
  <2>1. BLOCK - 1 - a \in Nat
    BY <1>1, SMT
  <2> QED  BY <1>1, <2>1, SMT
<1>3. BLOCK * BLOCK = a * BLOCK + BLOCK + e * BLOCK /\ e * BLOCK >= 0 /\ a * BLOCK >= 0
      /\ a * BLOCK \in Int /\ e * BLOCK \in Int
  BY <1>1, <1>2, SMT
<1> HIDE DEF MAX_HULL
<1> QED  BY <1>1, <1>3, Sizes, SMT

\* The slopes to the points of a hull fall, seen from its first point.
LEMMA ChordsFall ==
  ASSUME NEW g, NEW m, PaddedHull(g, m), NEW l \in Inner
  PROVE  Cross(Minus(g[l], g[0]), Minus(g[l - 1], g[0])) >= 0
<1> DEFINE E == Edge(g, l)
<1>1. 0 \in Index /\ l \in Index /\ l - 1 \in Index /\ 0 <= l /\ l \in Int
  BY Sizes, SMT DEF Inner
<1>2. g \in [Index -> Vec] /\ m \in Nat
  BY PaddedEdges
<1>3. E \in Vec /\ g[0] \in Vec /\ g[l] \in Vec /\ g[l - 1] \in Vec
  BY <1>1, <1>2, PaddedEdges
<1>4. ASSUME NEW k \in 0 + 1 .. l PROVE Cross(E, Edge(g, k)) >= 0
  <2>1. k \in Inner /\ k <= l /\ k <= k /\ k \in Int
    BY <1>1, Sizes, SMT DEF Inner
  <2>2. Edge(g, k) \in Vec /\ Edge(g, k) = Edge(g, k)
    BY <2>1, PaddedEdges
  <2>3. CASE k < m
    <3>1. Edge(g, k)[1] > 0
      BY <2>1, <2>3, PaddedEdges
    <3>2. Cross(Edge(g, k), Edge(g, k)) <= 0
      <4>1. Cross(Edge(g, k), Edge(g, k)) = 0
        BY <2>2, CrossSums
      <4> QED  BY <4>1, SMT
    <3>3. Cross(Edge(g, k), E) <= 0
      BY <2>1, <2>2, <3>1, <3>2, TurnsDown
    <3>4. Cross(E, Edge(g, k)) = - Cross(Edge(g, k), E) /\ Cross(Edge(g, k), E) \in Int
      BY <1>3, <2>2, Vectors
    <3> QED  BY <3>3, <3>4, SMT
  <2>4. CASE k >= m
    <3>1. l >= m
      BY <1>1, <1>2, <2>1, <2>4, SMT
    <3>2. Edge(g, k)[1] = 0 /\ E[1] = 0
      BY <2>1, <2>4, <3>1, PaddedEdges
    <3>3. E[2] \in Int /\ Edge(g, k)[2] \in Int
      BY <1>3, <2>2, SMT DEF Vec
    <3> HIDE DEF E
    <3> QED  BY <3>2, <3>3, SMT DEF Cross
  <2> QED  BY <1>2, <2>1, <2>3, <2>4, SMT
<1> HIDE DEF E
<1>5. Cross(E, Minus(g[l], g[0])) >= 0
  BY <1>1, <1>2, <1>3, <1>4, EdgeSums
<1>6. Minus(g[l], g[0]) \in Vec
  BY <1>3, Vectors
<1>7. Cross(Minus(g[l], g[0]), E) = - Cross(E, Minus(g[l], g[0])) /\ Cross(E, Minus(g[l], g[0])) \in Int
  BY <1>3, <1>6, Vectors
<1>8. Cross(Minus(g[l], g[0]), Minus(g[l - 1], g[0])) = 0 - Cross(Minus(g[l], g[0]), E)
  BY <1>3, Triangle DEF E, Edge
<1> QED  BY <1>5, <1>7, <1>8, SMT
\* Behind the point where they meet the left hull is all padding.
LEMMA MeetTail ==
  ASSUME NEW f, NEW n, NEW g, NEW m, Meet(f, n, g, m), NEW k \in Index
  PROVE  /\ n - 1 \in Index /\ n \in Nat /\ n >= 1
         /\ k >= n - 1 => f[k] = g[0]
<1>1. PaddedHull(f, n) /\ n - 1 \in Index /\ n \in Nat /\ k \in Int
  BY PaddedEdges, Sizes, SMT DEF Meet
<1>2. n >= 1
  BY <1>1, Sizes, SMT
<1>3. ASSUME k >= n - 1 PROVE f[k] = g[0]
  <2>1. CASE k = n - 1
    BY <2>1 DEF Meet
  <2>2. CASE k # n - 1
    <3>1. k \in n .. MAX_HULL - 1
      BY <1>1, <1>3, <2>2, Sizes, SMT
    <3>2. f[k] = <<g[0][1], 0>> /\ g[0][2] = 0
      BY <3>1 DEF Meet, PaddedHull
    <3>3. g[0] \in Coordinate \X Coordinate
      <4>1. 0 \in Index
        BY Sizes, SMT
      <4> QED  BY <4>1 DEF Meet, PaddedHull
    <3> QED  BY <3>2, <3>3
  <2> QED  BY <2>1, <2>2
<1> QED  BY <1>1, <1>2, <1>3

\* If there is nothing else on the left, the two points are the tangent.
LEMMA MeetPoint ==
  ASSUME NEW f, NEW g, NEW m, Meet(f, 1, g, m)
  PROVE  TangentIndices(f, g) = <<0, 0>>
<1>1. ASSUME NEW k \in Index PROVE f[k] = g[0]
  <2>1. k >= 1 - 1
    BY Sizes, SMT
  <2> QED  BY <2>1, MeetTail
<1>2. ASSUME NEW k \in Index PROVE g[k] \in Coordinate \X Coordinate /\ g[k] \in Vec
  BY CoordinateInt DEF Meet, PaddedHull
<1>3. 0 \in Index /\ 0 \in Offset /\ PaddedHull(g, m)
  BY Sizes, SMT DEF Offset, Meet
<1>4. ASSUME NEW a \in Index, NEW b \in Index
      PROVE  Diff(g[a], g[b]) = Minus(g[a], g[b])
  BY <1>2, NoWrap
<1>5. ASSUME NEW t \in Index
      PROVE  Cross(Diff(g[t], g[0]), Minus(g[t], g[0])) <= 0
  <2>1. Minus(g[t], g[0]) \in Vec
    BY <1>2, <1>3, Vectors
  <2>2. Cross(Minus(g[t], g[0]), Minus(g[t], g[0])) = 0
    BY <2>1, CrossSums
  <2> QED  BY <1>3, <1>4, <2>2, SMT
<1>6. ASSUME NEW k \in Key, NEW a \in Offset
      PROVE  k * BLOCK \in Inner /\ k * BLOCK \in Index /\ k * BLOCK - 1 \in Index
             /\ a * BLOCK + k \in Index /\ a * BLOCK + k - 1 \in Index
             /\ k \in Inner /\ k \in Index /\ k - 1 \in Index /\ k \in Offset
  <2>1. k * BLOCK \in Inner
    BY <1>3, Blocks
  <2>2. k \in Offset /\ k - 1 \in Offset /\ a \in Int /\ k \in Int
    BY Sizes, SMT DEF Key, Offset
  <2>3. a * BLOCK + k \in Index /\ a * BLOCK + (k - 1) \in Index
    BY <2>2, Located
  <2>4. a * BLOCK + k - 1 = a * BLOCK + (k - 1)
    BY <2>2, Sizes, SMT
  <2>5. k \in Inner
    BY Sizes, SMT DEF Key, Inner
  <2> QED  BY <2>1, <2>2, <2>3, <2>4, <2>5, Sizes
<1>7. ASSUME NEW k \in Inner PROVE Cross(Diff(g[k], g[0]), Minus(g[k - 1], g[0])) >= 0
  <2>1. k \in Index
    BY Sizes
  <2>2. Diff(g[k], g[0]) = Minus(g[k], g[0])
    BY <1>3, <1>4, <2>1
  <2> QED  BY <1>3, <2>2, ChordsFall
<1>8. ASSUME NEW o PROVE TouchOnQ(g, o) \in Index
  <2> DEFINE d1 == Descend({k \in Key : FallsBehind(g, o, k * BLOCK)})
             d2 == Descend({k \in Key : FallsBehind(g, o, d1 * BLOCK + k)})
  <2>1. d1 \in Offset
    BY Offsets
  <2>2. d2 \in Offset
    BY Offsets
  <2>3. TouchOnQ(g, o) = d1 * BLOCK + d2
    BY DEF TouchOnQ
  <2> HIDE DEF d1, d2
  <2> QED  BY <2>1, <2>2, <2>3, Located
<1>9. BlockOfR(f, g) = 0
  <2> DEFINE Test(k) == LET o == f[k * BLOCK]
                            t == g[TouchOnQ(g, o)]
                        IN  Cross(Diff(t, o), Minus(t, f[k * BLOCK - 1])) <= 0
             keys == {k \in Key : Test(k)}
  <2>1. ASSUME NEW k \in Key PROVE Test(k)
    <3>1. f[k * BLOCK] = g[0] /\ f[k * BLOCK - 1] = g[0]
      BY <1>1, <1>3, <1>6
    <3> QED  BY <1>5, <1>8, <3>1
  <2>2. BlockOfR(f, g) = BLOCK * Descend(keys)
    BY DEF BlockOfR
  <2> HIDE DEF Test
  <2>3. keys = Key
    BY <2>1
  <2>4. Descend(keys) = 0
    BY <2>3, AllKeys
  <2> QED  BY <2>2, <2>4, Sizes, SMT
<1>10. ASSUME NEW l \in Index PROVE TouchOnR(f, g[l]) \in Index
  <2> DEFINE RisesTo(k) == Cross(Diff(g[l], f[k]), Minus(g[l], f[k - 1])) <= 0
             d1 == Descend({k \in Key : RisesTo(k * BLOCK)})
             d2 == Descend({k \in Key : RisesTo(d1 * BLOCK + k)})
  <2>1. d1 \in Offset
    BY Offsets
  <2>2. d2 \in Offset
    BY Offsets
  <2>3. TouchOnR(f, g[l]) = d1 * BLOCK + d2
    BY DEF TouchOnR
  <2> HIDE DEF d1, d2
  <2> QED  BY <2>1, <2>2, <2>3, Located
<1>11. BlockOfQ(f, g) = 0
  <2> DEFINE Test(k) == LET o == g[k * BLOCK]
                            t == f[TouchOnR(f, o)]
                        IN  Cross(Diff(o, t), Minus(g[k * BLOCK - 1], t)) >= 0
             keys == {k \in Key : Test(k)}
  <2>1. ASSUME NEW k \in Key PROVE Test(k)
    <3>1. k * BLOCK \in Inner /\ k * BLOCK \in Index
      BY <1>3, <1>6
    <3>2. f[TouchOnR(f, g[k * BLOCK])] = g[0]
      BY <1>1, <1>10, <3>1
    <3> QED  BY <1>7, <3>1, <3>2
  <2>2. BlockOfQ(f, g) = BLOCK * Descend(keys)
    BY DEF BlockOfQ
  <2> HIDE DEF Test
  <2>3. keys = Key
    BY <2>1
  <2>4. Descend(keys) = 0
    BY <2>3, AllKeys
  <2> QED  BY <2>2, <2>4, Sizes, SMT
<1> DEFINE rb == BlockAt(f, 0)
           qb == BlockAt(g, 0)
<1>12. ASSUME NEW k \in Offset PROVE rb[k] = g[0] /\ qb[k] = g[k] /\ k \in Index
  <2>1. k \in Index /\ 0 + k = k
    BY Sizes, SMT DEF Offset
  <2> QED  BY <1>1, <2>1 DEF BlockAt
<1>13. ASSUME NEW k \in Key PROVE k \in Offset /\ k - 1 \in Offset /\ k \in Inner
  BY Sizes, SMT DEF Key, Offset, Inner
<1> HIDE DEF rb, qb
<1>14. TangentInBlock(rb, qb) = 0
  <2> DEFINE Test(k) == LET t == qb[TouchInBlock(rb, qb, k)]
                        IN  Cross(Diff(t, rb[k]), Minus(t, rb[k - 1])) <= 0
             keys == {k \in Key : Test(k)}
  <2>1. ASSUME NEW k \in Key PROVE Test(k)
    <3>1. TouchInBlock(rb, qb, k) \in Offset
      BY Offsets DEF TouchInBlock
    <3> QED  BY <1>5, <1>12, <1>13, <3>1
  <2>2. TangentInBlock(rb, qb) = Descend(keys)
    BY DEF TangentInBlock
  <2> HIDE DEF Test
  <2>3. keys = Key
    BY <2>1
  <2> QED  BY <2>2, <2>3, AllKeys
<1>15. TouchInBlock(rb, qb, 0) = 0
  <2> DEFINE keys == {k \in Key : FallsBehind(qb, rb[0], k)}
  <2>1. ASSUME NEW k \in Key PROVE FallsBehind(qb, rb[0], k)
    BY <1>3, <1>7, <1>12, <1>13 DEF FallsBehind
  <2>2. keys = Key
    BY <2>1
  <2> QED  BY <2>2, AllKeys DEF TouchInBlock
<1>16. 0 + 0 = 0 /\ 0 % MAX_HULL = 0
  <2>1. MAX_HULL \in Nat /\ MAX_HULL > 0
    BY Sizes, SMT
  <2> HIDE DEF MAX_HULL
  <2> QED  BY <2>1, SMT
<1>17. IndicesOf(rb, qb, 0, 0) = <<0, 0>>
  BY <1>14, <1>15, <1>16 DEF IndicesOf
<1> QED  BY <1>9, <1>11, <1>17 DEF TangentIndices, rb, qb
\* The left hull without the point where they meet.
Cut(f, n) == [k \in Index |-> IF k < n - 1 THEN f[k] ELSE <<f[n - 2][1], 0>>]

LEMMA CutIsHull ==
  ASSUME NEW f, NEW n, NEW g, NEW m, Meet(f, n, g, m), n # 1
  PROVE  /\ n - 1 \in Nat /\ n - 2 \in Index /\ n - 1 \in Inner
         /\ \A k \in Index : k < n - 1 => Cut(f, n)[k] = f[k]
         /\ Apart(Cut(f, n), n - 1, g, m)
<1> DEFINE h == Cut(f, n)
<1>1. PaddedHull(f, n) /\ PaddedHull(g, m) /\ f[n - 1] = g[0]
  BY DEF Meet
<1>2. n \in Nat /\ n >= 2 /\ n - 2 \in Index /\ n - 1 \in Inner /\ n - 1 \in 1 .. MAX_HULL
      /\ n - 1 \in 1 .. n - 1 /\ (n - 1) - 1 = n - 2
  <2>1. n \in Nat /\ n - 1 \in Index
    BY <1>1, PaddedEdges
  <2> QED  BY <2>1, Sizes, SMT DEF Inner
<1>3. ASSUME NEW k \in Index
      PROVE  /\ k < n - 1 => h[k] = f[k]
             /\ ~ (k < n - 1) => h[k] = <<f[n - 2][1], 0>>
  BY DEF Cut
<1>4. \A k \in Index : f[k] \in Coordinate \X Coordinate
  BY <1>1 DEF PaddedHull
<1>5. h \in [Index -> Coordinate \X Coordinate]
  <2>1. 0 \in Coordinate
    BY WidthAssumption, SMT DEF Coordinate
  <2>2. f[n - 2][1] \in Coordinate
    BY <1>2, <1>4
  <2>3. \A k \in Index : h[k] \in Coordinate \X Coordinate
    BY <1>3, <1>4, <2>1, <2>2
  <2> QED  BY <2>3 DEF Cut
<1>6. ASSUME NEW k \in 1 .. (n - 1) - 1 PROVE h[k - 1] = f[k - 1] /\ h[k] = f[k] /\ k \in 1 .. n - 1
  <2>1. k \in Index /\ k - 1 \in Index /\ k < n - 1 /\ k - 1 < n - 1 /\ k \in 1 .. n - 1
    BY <1>2, Sizes, SMT
  <2> QED  BY <1>3, <2>1
<1>7. \A k \in 1 .. (n - 1) - 1 : h[k - 1][1] < h[k][1]
  BY <1>1, <1>6 DEF PaddedHull
<1>8. ASSUME NEW k \in 1 .. (n - 1) - 2 PROVE Cross(Edge(h, k), Edge(h, k + 1)) <= 0
  <2>1. k \in 1 .. (n - 1) - 1 /\ k + 1 \in 1 .. (n - 1) - 1 /\ k \in 1 .. n - 2 /\ (k + 1) - 1 = k
    BY <1>2, SMT
  <2>2. Edge(h, k) = Edge(f, k) /\ Edge(h, k + 1) = Edge(f, k + 1)
    BY <1>6, <2>1 DEF Edge
  <2> QED  BY <1>1, <2>1, <2>2 DEF PaddedHull
<1>9. (n - 1) - 1 = n - 2 /\ n - 2 < n - 1 /\ h[n - 2] = f[n - 2]
  BY <1>2, <1>3, SMT
<1>10. ASSUME NEW k \in n - 1 .. MAX_HULL - 1 PROVE h[k] = <<h[(n - 1) - 1][1], 0>>
  <2>1. k \in Index /\ ~ (k < n - 1)
    BY <1>2, Sizes, SMT
  <2> QED  BY <1>3, <1>9, <2>1
<1> HIDE DEF h
<1>11. PaddedHull(h, n - 1)
  BY <1>2, <1>5, <1>7, <1>8, <1>10 DEF PaddedHull
<1>12. h[(n - 1) - 1][1] < g[0][1]
  <2>1. f[(n - 1) - 1][1] < f[n - 1][1]
    BY <1>1, <1>2 DEF PaddedHull
  <2> QED  BY <1>1, <1>9, <2>1
<1>13. Apart(h, n - 1, g, m)
  BY <1>1, <1>11, <1>12 DEF Apart
<1> QED  BY <1>2, <1>3, <1>13 DEF h

LEMMA GroundEdge ==
  ASSUME NEW p \in Coordinate \X Coordinate, NEW s \in Coordinate \X Coordinate,
         NEW o \in Coordinate \X Coordinate, o[2] = 0, p[1] <= o[1], o[1] <= s[1]
  PROVE  /\ Cross(Minus(s, o), Minus(o, p)) <= 0
         /\ Cross(Minus(s, p), Minus(o, p)) <= 0
         /\ Cross(Minus(s, o), Minus(s, p)) <= 0
<1>1. /\ p[1] \in Nat /\ p[2] \in Nat /\ s[1] \in Nat /\ s[2] \in Nat
      /\ o[1] \in Nat /\ o[2] \in Nat
  BY CoordinateInt
<1> DEFINE a == s[1] - o[1]
           b == s[2]
           c == o[1] - p[1]
           e == p[2]
<1>2. a \in Nat /\ b \in Nat /\ c \in Nat /\ e \in Nat
  BY <1>1, SMT
<1>3. a * e \in Nat /\ b * c \in Nat
  BY <1>2, SMT
<1>4. Cross(Minus(s, o), Minus(o, p)) = 0 - a * e - b * c
  BY <1>1, SMT DEF Cross, Minus
<1>5. /\ Cross(Minus(s, p), Minus(o, p)) = Cross(Minus(s, o), Minus(o, p))
      /\ Cross(Minus(s, o), Minus(s, p)) = Cross(Minus(s, o), Minus(o, p))
  <2>1. Cross(Minus(s, p), Minus(o, p)) = Cross(Minus(s, o), Minus(o, p))
    BY <1>1, SMT DEF Cross, Minus
  <2>2. Cross(Minus(s, o), Minus(s, p)) = Cross(Minus(s, o), Minus(o, p))
    BY <1>1, SMT DEF Cross, Minus
  <2> QED  BY <2>1, <2>2
<1> HIDE DEF a, b, c, e
<1>6. Cross(Minus(s, o), Minus(o, p)) <= 0
  BY <1>3, <1>4, SMT
<1> QED  BY <1>5, <1>6

\* The searchers do not notice the difference: from the point where they meet
\* on, the comparisons hold for both.
LEMMA CutUnnoticed ==
  ASSUME NEW f, NEW n, NEW g, NEW m, Meet(f, n, g, m), n # 1, NEW t \in Index, NEW k \in Inner
  PROVE  /\ Cross(Diff(g[t], f[k]), Minus(g[t], f[k - 1])) <= 0
              <=> Cross(Diff(g[t], Cut(f, n)[k]), Minus(g[t], Cut(f, n)[k - 1])) <= 0
         /\ k >= n - 1 =>
              /\ Cross(Diff(g[t], f[k]), Minus(g[t], f[k - 1])) <= 0
              /\ Cross(Diff(g[t], Cut(f, n)[k]), Minus(g[t], Cut(f, n)[k - 1])) <= 0
<1> DEFINE h == Cut(f, n)
<1>1. /\ n - 1 \in Nat /\ n - 2 \in Index /\ n - 1 \in Inner
      /\ \A l \in Index : l < n - 1 => h[l] = f[l]
      /\ Apart(h, n - 1, g, m)
  BY CutIsHull
<1> HIDE DEF h
<1>2. k \in Index /\ k - 1 \in Index /\ k \in Int /\ 0 \in Index /\ 0 <= t
  BY Sizes, SMT DEF Inner
<1>3. CASE k < n - 1
  <2>1. k - 1 < n - 1 /\ ~ (k >= n - 1)
    BY <1>1, <1>2, <1>3, SMT
  <2>2. h[k] = f[k] /\ h[k - 1] = f[k - 1]
    BY <1>1, <1>2, <1>3, <2>1
  <2> QED  BY <2>1, <2>2 DEF h
<1>4. CASE k >= n - 1
  <2>1. Cross(Diff(g[t], h[k]), Minus(g[t], h[k - 1])) <= 0
    <3>1. PaddedHull(h, n - 1)
      BY <1>1 DEF Apart
    <3>2. Minus(g[t], h[k]) \in Vec /\ Minus(g[t], h[k])[1] > 0
      BY <1>1, <1>2, Between
    <3>3. Cross(Minus(g[t], h[k]), Edge(h, k)) <= 0
      BY <1>4, <3>1, <3>2, PadFalls
    <3>4. /\ Diff(g[t], h[k]) = Minus(g[t], h[k])
          /\ Cross(Minus(g[t], h[k]), Minus(g[t], h[k - 1])) <= 0
               <=> Cross(Minus(g[t], h[k]), Edge(h, k)) <= 0
      BY <1>1, Comparisons
    <3> QED  BY <3>3, <3>4
  <2>2. f[k] = g[0]
    BY <1>2, <1>4, MeetTail
  <2>3. PaddedHull(f, n) /\ PaddedHull(g, m) /\ g[0][2] = 0
    BY DEF Meet
  <2>4. /\ f[k] \in Coordinate \X Coordinate /\ f[k - 1] \in Coordinate \X Coordinate
        /\ g[t] \in Coordinate \X Coordinate
    BY <1>2, <2>3 DEF PaddedHull
  <2>5. f[k - 1][1] <= f[k][1] /\ g[0][1] <= g[t][1]
    <3>1. k - 1 <= k
      BY <1>2, SMT
    <3> QED  BY <1>2, <2>3, <3>1, LeftToRight
  <2>6. Cross(Minus(g[t], f[k]), Minus(g[t], f[k - 1])) <= 0
    BY <2>2, <2>3, <2>4, <2>5, GroundEdge
  <2>7. Cross(Diff(g[t], f[k]), Minus(g[t], f[k - 1])) <= 0
    BY <2>4, <2>6, NoWrap
  <2> QED  BY <2>1, <2>7 DEF h
<1> QED  BY <1>1, <1>2, <1>3, <1>4, SMT
\* If there is, the searcher returns the tangent all the same.
LEMMA MeetFound ==
  ASSUME NEW f, NEW n, NEW g, NEW m, Meet(f, n, g, m), n # 1
  PROVE  \E i \in 0 .. n - 2, j \in 0 .. m - 1 :
           /\ IsTangent(f, g, i, j)
           /\ Minus(g[j], f[i])[1] > 0
           /\ TangentIndices(f, g) = <<i, j>>
<1> DEFINE h == Cut(f, n)
           Test(s, t, k) == Cross(Diff(g[t], s[k]), Minus(g[t], s[k - 1])) <= 0
<1>1. /\ n \in Nat /\ n - 1 \in Nat /\ n - 2 \in Index /\ n - 1 \in Inner
      /\ \A l \in Index : l < n - 1 => h[l] = f[l]
      /\ Apart(h, n - 1, g, m)
  <2>1. n \in Nat
    BY PaddedEdges DEF Meet
  <2> QED  BY <2>1, CutIsHull
<1>2. ASSUME NEW t \in Index, NEW k \in Inner
      PROVE  Test(f, t, k) <=> Test(h, t, k)
  BY CutUnnoticed
<1>3. ASSUME NEW t \in Index, NEW k \in Inner, k >= n - 1
      PROVE  Test(f, t, k) /\ Test(h, t, k)
  BY <1>3, CutUnnoticed
<1> HIDE DEF h
<1>4. PICK i \in 0 .. (n - 1) - 1, j \in 0 .. m - 1 :
        /\ IsTangent(h, g, i, j)
        /\ InBlockAt(BlockOfR(h, g), i) /\ InBlockAt(BlockOfQ(h, g), j)
        /\ TangentIndices(h, g) = <<i, j>>
  BY <1>1, TangentFound
<1>5. i \in Index /\ j \in Index /\ i \in Nat /\ i < n - 1 /\ i \in 0 .. n - 2 /\ h[i] = f[i]
  <2>1. i \in Index /\ j \in Index
    BY <1>4 DEF IsTangent
  <2>2. i \in Nat /\ i < n - 1 /\ i \in 0 .. n - 2
    BY <1>1, <1>4, SMT
  <2> QED  BY <1>1, <2>1, <2>2
<1>6. ASSUME NEW k \in Inner, k < n - 1
      PROVE  k \in Index /\ k - 1 \in Index /\ f[k] = h[k] /\ f[k - 1] = h[k - 1]
  <2>1. k \in Index /\ k - 1 \in Index /\ k - 1 < n - 1
    BY <1>1, <1>6, Sizes, SMT DEF Inner
  <2> QED  BY <1>1, <1>6, <2>1
<1>7. ASSUME NEW o PROVE TouchOnQ(g, o) \in Index
  <2> DEFINE d1 == Descend({k \in Key : FallsBehind(g, o, k * BLOCK)})
             d2 == Descend({k \in Key : FallsBehind(g, o, d1 * BLOCK + k)})
  <2>1. d1 \in Offset
    BY Offsets
  <2>2. d2 \in Offset
    BY Offsets
  <2>3. TouchOnQ(g, o) = d1 * BLOCK + d2
    BY DEF TouchOnQ
  <2> HIDE DEF d1, d2
  <2> QED  BY <2>1, <2>2, <2>3, Located
<1>8. ASSUME NEW k \in Inner
      PROVE  Test(f, TouchOnQ(g, f[k]), k) <=> Test(h, TouchOnQ(g, h[k]), k)
  <2>1. CASE k < n - 1
    <3>1. f[k] = h[k] /\ f[k - 1] = h[k - 1]
      BY <1>6, <2>1
    <3> QED  BY <3>1
  <2>2. CASE ~ (k < n - 1)
    <3>1. k >= n - 1
      BY <1>1, <2>2, SMT DEF Inner
    <3> QED  BY <1>3, <1>7, <3>1
  <2> QED  BY <2>1, <2>2
<1>9. \A k \in Key : k * BLOCK \in Inner
  BY <1>5, Blocks
<1>10. BlockOfR(f, g) = BlockOfR(h, g)
  <2> DEFINE keys(s) == {k \in Key : Test(s, TouchOnQ(g, s[k * BLOCK]), k * BLOCK)}
  <2>1. keys(f) = keys(h)
    BY <1>8, <1>9
  <2>2. BlockOfR(f, g) = BLOCK * Descend(keys(f)) /\ BlockOfR(h, g) = BLOCK * Descend(keys(h))
    BY DEF BlockOfR
  <2> QED  BY <2>1, <2>2
<1>11. ASSUME NEW l \in Index PROVE TouchOnR(f, g[l]) = TouchOnR(h, g[l])
  <2> DEFINE d1(s) == Descend({k \in Key : Test(s, l, k * BLOCK)})
             d2(s) == Descend({k \in Key : Test(s, l, d1(s) * BLOCK + k)})
  <2>1. d1(f) = d1(h)
    <3>1. {k \in Key : Test(f, l, k * BLOCK)} = {k \in Key : Test(h, l, k * BLOCK)}
      BY <1>2, <1>9
    <3> QED  BY <3>1
  <2>2. d1(h) \in Offset
    BY Offsets
  <2>3. \A a \in Offset, k \in Key : a * BLOCK + k \in Inner
    <3> SUFFICES ASSUME NEW a \in Offset, NEW k \in Key PROVE a * BLOCK + k \in Inner
      OBVIOUS
    <3>1. k \in Offset /\ k \in Nat /\ k > 0 /\ a \in Nat
      BY Sizes, SMT DEF Key, Offset
    <3>2. a * BLOCK + k \in Index
      BY <3>1, Located
    <3>3. a * BLOCK \in Nat
      BY <3>1, Sizes, SMT
    <3> QED  BY <3>1, <3>2, <3>3, Sizes, SMT DEF Inner
  <2>4. d2(f) = d2(h)
    <3> DEFINE a == d1(h)
    <3>1. a \in Offset
      BY <2>2
    <3> HIDE DEF a
    <3>2. {k \in Key : Test(f, l, a * BLOCK + k)} = {k \in Key : Test(h, l, a * BLOCK + k)}
      BY <1>2, <2>3, <3>1
    <3> QED  BY <2>1, <3>2 DEF a
  <2>5. TouchOnR(f, g[l]) = d1(f) * BLOCK + d2(f) /\ TouchOnR(h, g[l]) = d1(h) * BLOCK + d2(h)
    BY DEF TouchOnR
  <2> QED  BY <2>1, <2>4, <2>5
<1>12. ASSUME NEW l \in Index
       PROVE  TouchOnR(h, g[l]) \in Index /\ TouchOnR(h, g[l]) < n - 1
  <2>1. PICK s \in 0 .. (n - 1) - 1 :
          \A k \in Inner : Cross(Minus(g[l], h[k]), Edge(h, k)) <= 0 <=> k > s
    <3>1. PaddedHull(h, n - 1) /\ g[l] \in Vec /\ h[(n - 1) - 1][1] < g[l][1]
      BY <1>1, <1>5, Between
    <3> QED  BY <3>1, RiseExists
  <2>2. s \in Index /\ s < n - 1
    BY <1>1, <2>1, Sizes, SMT
  <2> QED  BY <1>1, <2>1, <2>2, TouchOnRIs
<1>13. BlockOfQ(f, g) = BlockOfQ(h, g)
  <2> DEFINE Late(s, l) == LET t == s[TouchOnR(s, g[l])]
                           IN  Cross(Diff(g[l], t), Minus(g[l - 1], t)) >= 0
             keys(s) == {k \in Key : Late(s, k * BLOCK)}
  <2>1. ASSUME NEW k \in Key PROVE Late(f, k * BLOCK) <=> Late(h, k * BLOCK)
    <3>1. k * BLOCK \in Index
      BY <1>9, Sizes
    <3>2. f[TouchOnR(f, g[k * BLOCK])] = h[TouchOnR(h, g[k * BLOCK])]
      BY <1>1, <1>11, <1>12, <3>1
    <3> QED  BY <3>2
  <2>2. BlockOfQ(f, g) = BLOCK * Descend(keys(f)) /\ BlockOfQ(h, g) = BLOCK * Descend(keys(h))
    BY DEF BlockOfQ
  <2> HIDE DEF Late
  <2>3. keys(f) = keys(h)
    BY <2>1
  <2> QED  BY <2>2, <2>3
<1> DEFINE rs == BlockOfR(h, g)
           qs == BlockOfQ(h, g)
           rf == BlockAt(f, rs)
           rh == BlockAt(h, rs)
           qb == BlockAt(g, qs)
<1>14. rs \in Index /\ qs \in Index /\ i - rs \in Offset /\ rs + (i - rs) = i /\ j - qs \in Offset
       /\ (\A k \in Key : rs + k \in Inner /\ qs + k \in Inner)
  <2>1. InBlockAt(rs, i) /\ InBlockAt(qs, j)
    BY <1>4
  <2> HIDE DEF rs, qs
  <2>2. rs \in Index /\ qs \in Index /\ i - rs \in Offset /\ j - qs \in Offset
       /\ (\A k \in Key : rs + k \in Inner /\ qs + k \in Inner)
    BY <2>1 DEF InBlockAt
  <2>3. rs + (i - rs) = i
    BY <1>5, <2>2, Sizes, SMT
  <2> QED  BY <2>2, <2>3
<1>15. IndicesOf(rh, qb, rs, qs) = <<i, j>>
  BY <1>1, <1>4, IndicesAre
<1>16. TangentIndices(f, g) = IndicesOf(rf, qb, rs, qs)
  BY <1>10, <1>13 DEF TangentIndices
<1> HIDE DEF rs, qs
<1>17. ASSUME NEW k \in Offset
       PROVE  rf[k] = f[rs + k] /\ rh[k] = h[rs + k] /\ qb[k] = g[qs + k]
              /\ rs + k \in Index /\ qs + k \in Index
  <2>1. k = 0 \/ k \in Key
    BY Sizes, SMT DEF Key, Offset
  <2>2. k = 0 => rs + k = rs /\ qs + k = qs
    BY <1>14, Sizes, SMT
  <2> QED  BY <1>14, <2>1, <2>2, Sizes DEF BlockAt
<1> HIDE DEF rf, rh, qb
<1>18. ASSUME NEW k \in Key
       PROVE  LET t == qb[TouchInBlock(rf, qb, k)]
                  u == qb[TouchInBlock(rh, qb, k)]
              IN  Cross(Diff(t, rf[k]), Minus(t, rf[k - 1])) <= 0
                    <=> Cross(Diff(u, rh[k]), Minus(u, rh[k - 1])) <= 0
  <2>1. k \in Offset /\ k - 1 \in Offset /\ rs + k \in Inner /\ rs + (k - 1) = (rs + k) - 1
    BY <1>14, Sizes, SMT DEF Key, Offset
  <2>2. rf[k] = f[rs + k] /\ rf[k - 1] = f[(rs + k) - 1]
        /\ rh[k] = h[rs + k] /\ rh[k - 1] = h[(rs + k) - 1]
    BY <1>17, <2>1
  <2>3. CASE rs + k < n - 1
    <3>1. rf[k] = rh[k] /\ rf[k - 1] = rh[k - 1]
      BY <1>6, <2>1, <2>2, <2>3
    <3> QED  BY <3>1 DEF TouchInBlock
  <2>4. CASE ~ (rs + k < n - 1)
    <3>1. rs + k >= n - 1
      BY <1>1, <2>1, <2>4, SMT DEF Inner
    <3>2. TouchInBlock(rf, qb, k) \in Offset /\ TouchInBlock(rh, qb, k) \in Offset
      BY Offsets DEF TouchInBlock
    <3>3. ASSUME NEW c \in Offset
          PROVE  Cross(Diff(qb[c], rf[k]), Minus(qb[c], rf[k - 1])) <= 0
                 /\ Cross(Diff(qb[c], rh[k]), Minus(qb[c], rh[k - 1])) <= 0
      BY <1>3, <1>17, <2>1, <2>2, <3>1
    <3> QED  BY <3>2, <3>3
  <2> QED  BY <2>3, <2>4
<1>19. TangentInBlock(rf, qb) = TangentInBlock(rh, qb)
  <2> DEFINE In(b, k) == LET t == qb[TouchInBlock(b, qb, k)]
                         IN  Cross(Diff(t, b[k]), Minus(t, b[k - 1])) <= 0
             keys(b) == {k \in Key : In(b, k)}
  <2>1. TangentInBlock(rf, qb) = Descend(keys(rf)) /\ TangentInBlock(rh, qb) = Descend(keys(rh))
    BY DEF TangentInBlock
  <2>2. \A k \in Key : In(rf, k) <=> In(rh, k)
    BY <1>18
  <2> HIDE DEF In
  <2>3. keys(rf) = keys(rh)
    BY <2>2
  <2> QED  BY <2>1, <2>3
<1> DEFINE c == TangentInBlock(rh, qb)
<1>20. c \in Offset
  BY Offsets DEF TangentInBlock
<1> HIDE DEF c
<1>21. rs + c = i
  <2>1. (c + rs) % MAX_HULL = i
    BY <1>15 DEF IndicesOf, c
  <2>2. c + rs \in Nat /\ c + rs < MAX_HULL /\ MAX_HULL \in Nat /\ c + rs = rs + c
    BY <1>14, <1>17, <1>20, Sizes, SMT DEF Offset
  <2> HIDE DEF MAX_HULL
  <2> QED  BY <2>1, <2>2, SMT
<1>22. rf[c] = rh[c]
  BY <1>5, <1>17, <1>20, <1>21
<1>23. IndicesOf(rf, qb, rs, qs) = IndicesOf(rh, qb, rs, qs)
  BY <1>19, <1>22 DEF IndicesOf, TouchInBlock, c
<1> DEFINE d == Minus(g[j], f[i])
<1>24. d \in Vec /\ d[1] > 0
  BY <1>1, <1>5, Between
<1>25. PaddedHull(f, n) /\ n \in Nat /\ f[n - 1] = g[0] /\ g[0][2] = 0 /\ PaddedHull(g, m)
  BY PaddedEdges DEF Meet
<1>26. ASSUME NEW k \in Inner, k >= n - 1 PROVE Cross(d, Edge(f, k)) <= 0
  <2>1. CASE k >= n
    BY <1>24, <1>25, <2>1, PadFalls
  <2>2. CASE k = n - 1
    <3>1. n - 2 \in Index /\ n - 1 \in Index /\ (n - 1) - 1 = n - 2 /\ 0 \in Index /\ 0 <= j
          /\ n - 2 <= n - 1
      <4>1. n - 1 \in Index /\ 0 \in Index /\ 0 <= j
        BY <1>1, <1>5, Sizes, SMT
      <4> QED  BY <1>1, <4>1, SMT
    <3>2. CASE i = n - 2
      <4>1. /\ f[n - 2] \in Coordinate \X Coordinate /\ g[0] \in Coordinate \X Coordinate
            /\ g[j] \in Coordinate \X Coordinate
        BY <1>5, <1>25, <3>1 DEF PaddedHull
      <4>2. f[n - 2][1] <= f[n - 1][1] /\ g[0][1] <= g[j][1]
        BY <1>5, <1>25, <3>1, LeftToRight
      <4>3. Cross(Minus(g[j], f[n - 2]), Minus(g[0], f[n - 2])) <= 0
        BY <1>25, <4>1, <4>2, GroundEdge
      <4> QED  BY <1>25, <2>2, <3>1, <3>2, <4>3 DEF Edge
    <3>3. CASE i # n - 2
      <4>1. n - 2 \in Inner /\ n - 2 > i /\ n - 2 < n - 1
        BY <1>1, <1>5, <3>1, <3>3, Sizes, SMT DEF Inner
      <4>2. Cross(d, Edge(h, n - 2)) <= 0
        BY <1>4, <1>5, <4>1 DEF IsTangent
      <4>3. Edge(h, n - 2) = Edge(f, n - 2)
        BY <1>6, <4>1 DEF Edge
      <4> QED  BY <1>1, <1>24, <1>25, <2>2, <3>1, <4>1, <4>2, <4>3, TurnsDown
    <3> QED  BY <3>2, <3>3
  <2> QED  BY <1>1, <1>25, <1>26, <2>1, <2>2, SMT DEF Inner
<1>27. IsTangent(f, g, i, j)
  <2>1. ASSUME NEW k \in Inner PROVE Cross(d, Edge(f, k)) <= 0 <=> k > i
    <3>1. CASE k < n - 1
      <4>1. Edge(f, k) = Edge(h, k)
        BY <1>6, <3>1 DEF Edge
      <4> QED  BY <1>4, <1>5, <4>1 DEF IsTangent
    <3>2. CASE ~ (k < n - 1)
      <4>1. k >= n - 1 /\ k > i
        BY <1>1, <1>5, <3>2, SMT DEF Inner
      <4> QED  BY <1>26, <4>1
    <3> QED  BY <3>1, <3>2
  <2>2. ASSUME NEW k \in Inner PROVE Cross(d, Edge(g, k)) <= 0 <=> k > j
    BY <1>4, <1>5 DEF IsTangent
  <2> QED  BY <1>5, <2>1, <2>2 DEF IsTangent
<1> QED  BY <1>4, <1>5, <1>15, <1>16, <1>23, <1>24, <1>27
-----------------------------------------------------------------------------
(* The tangent in terms of the sequences.                                  *)

\* An upper hull whose last point, if it lies on the x axis, may be repeated.
Shape(s, n) ==
  /\ n \in 1 .. Len(s)
  /\ \A i \in 1 .. Len(s) : s[i] \in Coordinate \X Coordinate
  /\ \A i \in 1 .. n - 1 : s[i][1] < s[i + 1][1]
  /\ \A i \in 2 .. n - 1 : Cross(Minus(s[i], s[i - 1]), Minus(s[i + 1], s[i])) <= 0
  /\ \A i \in n + 1 .. Len(s) : s[i] = s[n] /\ s[n][2] = 0

LEMMA ShapeIsHull ==
  ASSUME NEW s, NEW n, Shape(s, n), Len(s) \in 1 .. MAX_HULL
  PROVE  /\ PaddedHull(Padded(s), n)
         /\ Len(s) \in Nat /\ Len(s) >= 1 /\ Len(s) <= MAX_HULL
         /\ \A k \in 0 .. Len(s) - 1 : k \in Index /\ Padded(s)[k] = s[k + 1]
<1> DEFINE len == Len(s)
           f == Padded(s)
<1>1. /\ len \in Nat /\ len >= 1 /\ len <= MAX_HULL /\ n \in 1 .. MAX_HULL
      /\ n \in Nat /\ n >= 1 /\ n <= len /\ n \in 1 .. len
  BY Sizes, SMT DEF Shape
<1>2. \A i \in 1 .. len : s[i] \in Coordinate \X Coordinate
  BY DEF Shape
<1>3. ASSUME NEW k \in Index
      PROVE  /\ k \in Nat
             /\ k < len => f[k] = s[k + 1] /\ k + 1 \in 1 .. len
             /\ k >= len => f[k] = <<s[len][1], 0>>
  <2>1. k \in Nat /\ (k < len => k + 1 \in 1 .. len) /\ (k >= len => ~ (k < len))
    BY <1>1, Sizes, SMT
  <2> QED  BY <2>1 DEF Padded
<1>4. \A k \in 0 .. len - 1 : k \in Index /\ k < len
  BY <1>1, Sizes, SMT
<1>5. ASSUME NEW k \in Index PROVE f[k] \in Coordinate \X Coordinate
  <2>1. CASE k < len
    BY <1>2, <1>3, <2>1
  <2>2. CASE k >= len
    <3>1. len \in 1 .. len /\ 0 \in Coordinate
      BY <1>1, WidthAssumption, SMT DEF Coordinate
    <3> QED  BY <1>2, <1>3, <2>2, <3>1
  <2> QED  BY <1>1, <1>3, <2>1, <2>2, SMT
<1>6. f \in [Index -> Coordinate \X Coordinate]
  BY <1>5 DEF Padded
<1>7. ASSUME NEW k \in 1 .. n - 1 PROVE f[k - 1][1] < f[k][1]
  <2>1. k \in 0 .. len - 1 /\ k - 1 \in 0 .. len - 1 /\ (k - 1) + 1 = k
    BY <1>1, SMT
  <2>2. f[k - 1] = s[k] /\ f[k] = s[k + 1]
    BY <1>3, <1>4, <2>1
  <2> QED  BY <2>1, <2>2 DEF Shape
<1>8. ASSUME NEW k \in 1 .. n - 2 PROVE Cross(Edge(f, k), Edge(f, k + 1)) <= 0
  <2>1. /\ k - 1 \in 0 .. len - 1 /\ k \in 0 .. len - 1 /\ k + 1 \in 0 .. len - 1
        /\ (k - 1) + 1 = k /\ (k + 1) - 1 = k /\ k + 1 \in 2 .. n - 1
    BY <1>1, SMT
  <2>2. f[k - 1] = s[k] /\ f[k] = s[k + 1] /\ f[k + 1] = s[(k + 1) + 1]
    BY <1>3, <1>4, <2>1
  <2>3. Cross(Minus(s[k + 1], s[(k + 1) - 1]), Minus(s[(k + 1) + 1], s[k + 1])) <= 0
    BY <2>1 DEF Shape
  <2> QED  BY <2>1, <2>2, <2>3 DEF Edge
<1>9. f[n - 1] = s[n] /\ (n < len => s[n] = <<s[n][1], 0>> /\ s[len] = s[n])
  <2>1. n - 1 \in Index /\ n - 1 < len /\ (n - 1) + 1 = n
    BY <1>1, Sizes, SMT
  <2>2. ASSUME n < len PROVE s[n] = <<s[n][1], 0>> /\ s[len] = s[n]
    <3>1. len \in n + 1 .. len
      BY <1>1, <2>2, SMT
    <3>2. s[len] = s[n] /\ s[n][2] = 0
      BY <3>1 DEF Shape
    <3> QED  BY <1>1, <1>2, <3>2
  <2> QED  BY <1>3, <2>1, <2>2
<1>10. ASSUME NEW k \in n .. MAX_HULL - 1 PROVE f[k] = <<f[n - 1][1], 0>>
  <2>1. k \in Index /\ k \in Nat /\ k >= n
    BY <1>1, Sizes, SMT
  <2>2. CASE k >= len
    <3>1. f[k] = <<s[len][1], 0>> /\ (n < len \/ n = len)
      BY <1>1, <1>3, <2>1, <2>2, SMT
    <3> QED  BY <1>9, <3>1
  <2>3. CASE k < len
    <3>1. k + 1 \in n + 1 .. len /\ n < len
      BY <1>1, <2>1, <2>3, SMT
    <3>2. f[k] = s[n]
      BY <1>3, <2>1, <2>3, <3>1 DEF Shape
    <3> QED  BY <1>9, <3>1, <3>2
  <2> QED  BY <1>1, <2>1, <2>2, <2>3, SMT
<1>11. PaddedHull(f, n)
  BY <1>1, <1>6, <1>7, <1>8, <1>10 DEF PaddedHull
<1> QED  BY <1>1, <1>3, <1>4, <1>11

LEMMA PaddedIsHull ==
  ASSUME NEW s, UpperHull(s)
  PROVE  /\ PaddedHull(Padded(s), Len(s)) /\ Len(s) \in Nat /\ Len(s) >= 1 /\ Len(s) <= MAX_HULL
         /\ \A k \in 0 .. Len(s) - 1 : k \in Index /\ Padded(s)[k] = s[k + 1]
<1>1. Len(s) \in 1 .. MAX_HULL /\ Len(s) \in 1 .. Len(s) /\ Len(s) + 1 .. Len(s) = {}
  <2>1. Len(s) \in 1 .. MAX_HULL
    BY DEF UpperHull
  <2> QED  BY <2>1, Sizes, SMT
<1>2. Shape(s, Len(s))
  BY <1>1 DEF UpperHull, Shape
<1> QED  BY <1>1, <1>2, ShapeIsHull

LEMMA StrictlyRight ==
  ASSUME NEW f, NEW n, PaddedHull(f, n), NEW j \in Index, NEW k \in Index, j < k, k < n
  PROVE  f[j][1] < f[k][1]
<1>1. k \in Inner /\ k \in Int /\ j <= k - 1 /\ k - 1 \in Index
  BY Sizes, SMT DEF Inner
<1>2. f[j][1] <= f[k - 1][1]
  BY <1>1, LeftToRight
<1>3. f[j] \in Vec /\ f[k] \in Vec /\ f[k - 1] \in Vec
  BY <1>1, PaddedEdges
<1>4. Edge(f, k)[1] = f[k][1] - f[k - 1][1] /\ Edge(f, k)[1] > 0
  BY <1>1, PaddedEdges
<1> QED  BY <1>2, <1>3, <1>4, SMT DEF Vec

\* Another line with every point on it or below it touches neither hull before
\* the tangent does.
LEMMA NoneBefore ==
  ASSUME NEW f, NEW n, NEW g, NEW m, Apart(f, n, g, m), NEW i, NEW j, IsTangent(f, g, i, j),
         NEW a \in Index, NEW b \in Index, a < n, i < n, j < m,
         Cross(Minus(g[b], f[a]), Minus(f[i], f[a])) <= 0,
         Cross(Minus(g[b], f[a]), Minus(g[j], f[a])) <= 0
  PROVE  i <= a /\ j <= b
<1> DEFINE d == Minus(g[j], f[i])
           e == Minus(g[b], f[a])
           w == Minus(g[b], f[i])
           u == Minus(f[i], f[a])
           v == Minus(g[j], g[b])
           x == Minus(f[a], f[i])
<1>1. i \in Index /\ j \in Index /\ i \in Int /\ j \in Int /\ a \in Int /\ b \in Int
  BY Sizes, SMT DEF IsTangent
<1>2. /\ PaddedHull(f, n) /\ PaddedHull(g, m)
      /\ f[i] \in Vec /\ g[j] \in Vec /\ f[a] \in Vec /\ g[b] \in Vec
      /\ d \in Vec /\ d[1] > 0 /\ e \in Vec /\ e[1] > 0 /\ w \in Vec /\ w[1] > 0
  BY <1>1, Between
<1>3. u \in Vec /\ v \in Vec /\ x \in Vec
  BY <1>2, Vectors
<1>4. /\ Cross(d, x) <= 0 /\ (a < i => Cross(d, x) < 0)
      /\ Cross(d, w) <= 0 /\ (b < j => Cross(d, w) < 0)
  BY UnderTangent
<1>5. /\ Cross(e, u) = Cross(w, u) /\ Cross(e, Minus(g[j], f[a])) = Cross(e, v)
      /\ Cross(d, u) = 0 - Cross(d, x) /\ Cross(e, u) = 0 - Cross(e, x)
      /\ Cross(d, v) = 0 - Cross(d, w) /\ Cross(d, e) = 0 - Cross(e, d)
      /\ Cross(d, u) = 0 - Cross(u, d) /\ Cross(w, u) = 0 - Cross(u, w)
      /\ Cross(d, v) = 0 - Cross(v, d)
  <2>1. /\ f[i][1] \in Int /\ f[i][2] \in Int /\ f[a][1] \in Int /\ f[a][2] \in Int
        /\ g[j][1] \in Int /\ g[j][2] \in Int /\ g[b][1] \in Int /\ g[b][2] \in Int
    BY <1>2, SMT DEF Vec
  <2>2. Cross(e, u) = Cross(w, u)
    BY <2>1, SMT DEF Cross, Minus
  <2>3. Cross(e, Minus(g[j], f[a])) = Cross(e, v)
    BY <2>1, SMT DEF Cross, Minus
  <2>4. Cross(d, u) = 0 - Cross(d, x) /\ Cross(e, u) = 0 - Cross(e, x)
    BY <2>1, SMT DEF Cross, Minus
  <2>5. Cross(d, v) = 0 - Cross(d, w)
    BY <2>1, SMT DEF Cross, Minus
  <2>6. Cross(d, e) = 0 - Cross(e, d) /\ Cross(d, u) = 0 - Cross(u, d)
    BY <2>1, SMT DEF Cross, Minus
  <2>7. Cross(w, u) = 0 - Cross(u, w) /\ Cross(d, v) = 0 - Cross(v, d)
    BY <2>1, SMT DEF Cross, Minus
  <2> QED  BY <2>2, <2>3, <2>4, <2>5, <2>6, <2>7
<1>6. /\ Cross(d, x) \in Int /\ Cross(d, w) \in Int /\ Cross(e, x) \in Int /\ Cross(e, v) \in Int
      /\ Cross(w, u) \in Int /\ Cross(u, w) \in Int /\ Cross(u, d) \in Int /\ Cross(v, d) \in Int
      /\ Cross(e, d) \in Int /\ Cross(d, e) \in Int
  <2> HIDE DEF d, e, w, u, v, x
  <2> QED  BY <1>2, <1>3, Vectors
<1>7. /\ u[1] = f[i][1] - f[a][1] /\ x[1] = f[a][1] - f[i][1] /\ v[1] = g[j][1] - g[b][1]
      /\ f[i][1] \in Int /\ f[a][1] \in Int /\ g[j][1] \in Int /\ g[b][1] \in Int
  <2>1. f[i][1] \in Int /\ f[a][1] \in Int /\ g[j][1] \in Int /\ g[b][1] \in Int
    BY <1>2, SMT DEF Vec
  <2> QED  BY <1>2, <2>1, Vectors
<1>8. Cross(e, u) <= 0 /\ Cross(e, v) <= 0
  BY <1>5
<1> HIDE DEF d, e, w, u, v, x
<1>9. i <= a
  <2> SUFFICES ASSUME a < i PROVE FALSE
    BY <1>1, SMT
  <2>1. f[a][1] < f[i][1]
    BY <1>1, <1>2, StrictlyRight
  <2>2. u[1] > 0 /\ w[1] >= 0 /\ Cross(u, d) < 0 /\ Cross(u, d) <= 0
    BY <1>2, <1>4, <1>5, <1>6, <1>7, <2>1, SMT DEF Vec
  <2>3. Cross(u, w) < 0
    BY <1>2, <1>3, <1>4, <2>2, Steeper
  <2>4. Cross(w, u) <= 0 /\ Cross(w, u) = 0 - Cross(u, w)
    BY <1>5, <1>8
  <2> QED  BY <1>6, <2>3, <2>4, SMT
<1>10. ASSUME b < j PROVE FALSE
  <2>1. g[b][1] < g[j][1]
    BY <1>1, <1>2, <1>10, StrictlyRight
  <2>2. v[1] > 0 /\ d[1] >= 0 /\ e[1] >= 0 /\ Cross(v, d) < 0 /\ Cross(v, d) <= 0
    BY <1>2, <1>4, <1>5, <1>6, <1>7, <1>10, <2>1, SMT DEF Vec
  <2>3. Cross(e, d) < 0
    BY <1>2, <1>3, <1>8, <2>2, Steeper
  <2>4. CASE a = i
    <3>1. Cross(d, e) < 0
      BY <1>4, <1>10, <2>4 DEF e, w
    <3> QED  BY <1>5, <1>6, <2>3, <3>1, SMT
  <2>5. CASE i < a
    <3>1. f[i][1] < f[a][1]
      BY <1>1, <1>2, <2>5, StrictlyRight
    <3>2. x[1] > 0 /\ Cross(x, e) <= 0
      <4>1. Cross(x, e) = 0 - Cross(e, x)
        <5>1. Cross(x, e) = - Cross(e, x)
          BY <1>2, <1>3, Vectors
        <5> QED  BY <1>6, <5>1, SMT
      <4> QED  BY <1>5, <1>6, <1>7, <1>8, <3>1, <4>1, SMT
    <3>3. Cross(d, e) <= 0
      BY <1>2, <1>3, <1>4, <2>2, <3>2, Steeper
    <3> QED  BY <1>5, <1>6, <2>3, <3>3, SMT
  <2> QED  BY <1>1, <1>9, <2>4, <2>5, SMT
<1> QED  BY <1>1, <1>9, <1>10, SMT

LEMMA SideBySide ==
  ASSUME NEW s, NEW t, UpperHull(s), UpperHull(t), s[Len(s)][1] < t[1][1]
  PROVE  Apart(Padded(s), Len(s), Padded(t), Len(t))
<1>1. /\ PaddedHull(Padded(s), Len(s)) /\ Len(s) \in Nat /\ Len(s) >= 1
      /\ \A k \in 0 .. Len(s) - 1 : Padded(s)[k] = s[k + 1]
  BY PaddedIsHull
<1>2. /\ PaddedHull(Padded(t), Len(t)) /\ Len(t) \in Nat /\ Len(t) >= 1
      /\ \A k \in 0 .. Len(t) - 1 : Padded(t)[k] = t[k + 1]
  BY PaddedIsHull
<1>3. /\ Len(s) - 1 \in 0 .. Len(s) - 1 /\ (Len(s) - 1) + 1 = Len(s)
      /\ 0 \in 0 .. Len(t) - 1 /\ 0 + 1 = 1
  BY <1>1, <1>2, SMT
<1>4. Padded(s)[Len(s) - 1] = s[Len(s)] /\ Padded(t)[0] = t[1]
  BY <1>1, <1>2, <1>3
<1> QED  BY <1>1, <1>2, <1>4 DEF Apart

\* For two hulls side by side the definition of Leftmost is the tangent.
LEMMA LeftmostIs ==
  ASSUME UpperHull(r), UpperHull(q), r[Len(r)][1] < q[1][1],
         NEW i \in 0 .. Len(r) - 1, NEW j \in 0 .. Len(q) - 1,
         IsTangent(Padded(r), Padded(q), i, j)
  PROVE  Leftmost = <<i + 1, j + 1>>
<1> DEFINE f == Padded(r)
           g == Padded(q)
           n == Len(r)
           m == Len(q)
           T == <<i + 1, j + 1>>
<1>1. Apart(f, n, g, m)
  BY SideBySide
<1>2. /\ n \in Nat /\ n <= MAX_HULL /\ \A k \in 0 .. n - 1 : f[k] = r[k + 1]
      /\ m \in Nat /\ m <= MAX_HULL /\ \A k \in 0 .. m - 1 : g[k] = q[k + 1]
  BY PaddedIsHull
<1>3. i \in Index /\ j \in Index /\ i \in Nat /\ j \in Nat /\ i < n /\ j < m
      /\ i + 1 \in 1 .. n /\ j + 1 \in 1 .. m
  BY <1>2, Sizes, SMT
<1>4. ASSUME NEW k \in 1 .. n PROVE k - 1 \in Index /\ k - 1 < n /\ f[k - 1] = r[k] /\ k \in Nat
  <2>1. k - 1 \in Index /\ k - 1 < n /\ k - 1 \in 0 .. n - 1 /\ (k - 1) + 1 = k /\ k \in Nat
    BY <1>2, Sizes, SMT
  <2> QED  BY <1>2, <2>1
<1>5. ASSUME NEW k \in 1 .. m PROVE k - 1 \in Index /\ k - 1 < m /\ g[k - 1] = q[k] /\ k \in Nat
  <2>1. k - 1 \in Index /\ k - 1 < m /\ k - 1 \in 0 .. m - 1 /\ (k - 1) + 1 = k /\ k \in Nat
    BY <1>2, Sizes, SMT
  <2> QED  BY <1>2, <2>1
<1>6. f[i] = r[i + 1] /\ g[j] = q[j + 1]
  BY <1>2
<1> HIDE DEF f, g
<1>7. T \in Tangents
  <2>1. ASSUME NEW k \in 1 .. n PROVE Cross(Minus(g[j], f[i]), Minus(r[k], f[i])) <= 0
    BY <1>1, <1>4, UnderTangent DEF f, g
  <2>2. ASSUME NEW k \in 1 .. m PROVE Cross(Minus(g[j], f[i]), Minus(q[k], f[i])) <= 0
    BY <1>1, <1>5, UnderTangent DEF f, g
  <2>3. Supports(i + 1, j + 1)
    BY <1>6, <2>1, <2>2 DEF Supports
  <2> QED  BY <1>3, <2>3 DEF Tangents
<1>8. ASSUME NEW u \in Tangents PROVE i + 1 <= u[1] /\ j + 1 <= u[2] /\ u = <<u[1], u[2]>>
                                    /\ u[1] \in Nat /\ u[2] \in Nat
  <2>1. u = <<u[1], u[2]>> /\ u[1] \in 1 .. n /\ u[2] \in 1 .. m /\ Supports(u[1], u[2])
    BY DEF Tangents
  <2> DEFINE a == u[1] - 1
             b == u[2] - 1
  <2>2. a \in Index /\ b \in Index /\ a < n /\ f[a] = r[u[1]] /\ g[b] = q[u[2]]
        /\ u[1] \in Nat /\ u[2] \in Nat
    BY <1>4, <1>5, <2>1
  <2>3. Cross(Minus(g[b], f[a]), Minus(f[i], f[a])) <= 0
    BY <1>3, <1>6, <2>1, <2>2 DEF Supports
  <2>4. Cross(Minus(g[b], f[a]), Minus(g[j], f[a])) <= 0
    BY <1>3, <1>6, <2>1, <2>2 DEF Supports
  <2> HIDE DEF a, b
  <2>5. i <= a /\ j <= b
    BY <1>1, <1>3, <2>2, <2>3, <2>4, NoneBefore DEF f, g
  <2> QED  BY <1>3, <2>1, <2>2, <2>5, SMT DEF a, b
<1>9. T[1] = i + 1 /\ T[2] = j + 1
  OBVIOUS
<1> HIDE DEF T
<1>10. PICK t \in Tangents : t = Leftmost /\ \A u \in Tangents : t[1] <= u[1] /\ t[2] <= u[2]
  <2>1. \E t \in Tangents : \A u \in Tangents : t[1] <= u[1] /\ t[2] <= u[2]
    BY <1>7, <1>8, <1>9
  <2> QED  BY <2>1 DEF Leftmost
<1>11. t[1] <= T[1] /\ t[2] <= T[2] /\ i + 1 <= t[1] /\ j + 1 <= t[2]
       /\ t[1] \in Nat /\ t[2] \in Nat /\ t = <<t[1], t[2]>>
  BY <1>7, <1>8, <1>10
<1>12. t[1] = i + 1 /\ t[2] = j + 1
  BY <1>3, <1>9, <1>11, SMT
<1> QED  BY <1>10, <1>11, <1>12

-----------------------------------------------------------------------------
(* The invariants of the search.                                           *)

SearchInv ==
  /\ r \in LeftHulls /\ q \in RightHulls
  /\ rstart # Pending => rstart = <<BlockOfR(Padded(r), Padded(q))>>
  /\ qstart # Pending => qstart = <<BlockOfQ(Padded(r), Padded(q))>>
  /\ result # Pending => result = TangentIndices(Padded(r), Padded(q))

LEMMA SearchInvariant == TangentSpec => []SearchInv
<1>1. TangentInit => SearchInv
  BY DEF TangentInit, SearchInv
<1>2. SearchInv /\ [TangentNext]_tangentVars => SearchInv'
  <2> SUFFICES ASSUME SearchInv, [TangentNext]_tangentVars PROVE SearchInv'
    OBVIOUS
  <2>1. CASE SearchL
    BY <2>1 DEF SearchInv, SearchL
  <2>2. CASE SearchR
    BY <2>2 DEF SearchInv, SearchR
  <2>3. CASE SearchB
    <3>1. rstart[1] = BlockOfR(Padded(r), Padded(q)) /\ qstart[1] = BlockOfQ(Padded(r), Padded(q))
      BY <2>3 DEF SearchInv, SearchB
    <3>2. result' = TangentIndices(Padded(r), Padded(q))
      BY <2>3, <3>1 DEF SearchB, TangentIndices
    <3> QED  BY <2>3, <3>2 DEF SearchInv, SearchB
  <2>4. CASE UNCHANGED tangentVars
    BY <2>4 DEF SearchInv, tangentVars
  <2> QED  BY <2>1, <2>2, <2>3, <2>4 DEF TangentNext
<1> QED  BY <1>1, <1>2, PTL DEF TangentSpec

LEMMA SearchFinds ==
  ASSUME SearchInv
  PROVE  BlocksHit /\ FindsTangent
<1> DEFINE f == Padded(r)
           g == Padded(q)
<1>1. UpperHull(r) /\ UpperHull(q) /\ r[Len(r)][1] < q[1][1]
  BY HullsAssumption DEF SearchInv
<1>2. PICK i \in 0 .. Len(r) - 1, j \in 0 .. Len(q) - 1 :
        /\ IsTangent(f, g, i, j)
        /\ InBlockAt(BlockOfR(f, g), i) /\ InBlockAt(BlockOfQ(f, g), j)
        /\ TangentIndices(f, g) = <<i, j>>
  <2>1. Apart(f, Len(r), g, Len(q))
    BY <1>1, SideBySide
  <2> QED  BY <2>1, TangentFound
<1>3. Leftmost = <<i + 1, j + 1>>
  BY <1>1, <1>2, LeftmostIs
<1>4. i \in Nat /\ j \in Nat
  BY <1>2, Sizes, SMT DEF IsTangent
<1> HIDE DEF f, g
<1>5. Leftmost[1] - 1 = i /\ Leftmost[2] - 1 = j
  BY <1>3, <1>4, SMT
<1>6. ASSUME NEW s, NEW t \in Nat, InBlockAt(s, t) PROVE t \in s .. s + KEY
  BY <1>6, Sizes, SMT DEF InBlockAt, Offset
<1>7. BlocksHit
  <2>1. ASSUME rstart # Pending PROVE Leftmost[1] - 1 \in rstart[1] .. rstart[1] + KEY
    BY <1>2, <1>4, <1>5, <1>6, <2>1 DEF SearchInv, f, g
  <2>2. ASSUME qstart # Pending PROVE Leftmost[2] - 1 \in qstart[1] .. qstart[1] + KEY
    BY <1>2, <1>4, <1>5, <1>6, <2>2 DEF SearchInv, f, g
  <2> QED  BY <2>1, <2>2 DEF BlocksHit
<1>8. FindsTangent
  BY <1>2, <1>3 DEF SearchInv, FindsTangent, f, g
<1> QED  BY <1>7, <1>8

\* Each block searcher, on its own, finds the block of the tangent point of its
\* hull: whatever the size of a block, the width of a coordinate and the hulls.
THEOREM TheBlocksAreHit == TangentSpec => []BlocksHit
BY SearchInvariant, SearchFinds, PTL

\* The searcher returns the leftmost points of the upper tangent of any two
\* upper hulls side by side, and never a padding point.
THEOREM TheTangentIsFound == TangentSpec => []FindsTangent
BY SearchInvariant, SearchFinds, PTL
=============================================================================
