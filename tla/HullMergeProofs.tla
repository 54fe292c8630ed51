-------------------------- MODULE HullMergeProofs --------------------------
(***************************************************************************)
(* What the merge tree promises, for any number of harts, levels, points   *)
(* and block size.                                                         *)
(*                                                                         *)
(* 1. The parts the harts work on are disjoint: the barrier keeps the      *)
(*    working harts at one level (LSInv), and at level k hart h works on   *)
(*    the pairs of numbers h, h + PROCESSORS, h + 2 * PROCESSORS, ...      *)
(*    (PlaceInv), which no other hart ever has.                            *)
(* 2. Merging is right: two stored hulls and the tangent indices that      *)
(*    module TangentProofs establishes make a chain with no point of       *)
(*    either half above it (MergeIsHull).                                  *)
(* 3. Both together: a part of a level that has been made and not used up  *)
(*    (Kept) is the hull of its points (KeptInv), since no step of another *)
(*    hart touches it (Separate); and from packing to moving a hart holds  *)
(*    the two hulls of its pair (PairInv).  A level has used up the parts  *)
(*    of the one below: hence Begun and Done, per pair.                    *)
(*                                                                         *)
(* 3 needs that the hulls fit the arrays of main (Fit), which depends on   *)
(* the input.  It is a hypothesis of the theorems, until NarrowInputsFit   *)
(* and SmallInputsFit show for which inputs it always holds.               *)
(***************************************************************************)
EXTENDS HullMerge, TangentProofs

\* What the barrier guarantees about the levels.
LSInv ==
  \A g, h \in Participant :
    level[g] > level[h] => level[g] = level[h] + 1 /\ h \in inside

\* Hart h is at the pair of number h + m * PROCESSORS of its level.
PlaceInv ==
  \A h \in Participant : \E m \in Nat :
    at[h] = (h + m * PROCESSORS) * (2 * Interval(level[h]))

ShapeInv ==
  /\ level \in [Participant -> 0 .. DEPTH]
  /\ inside \subseteq Participant
  /\ \A h \in inside : level[h] < DEPTH
  /\ at = [h \in Participant |-> at[h]]

RegionInv == ShapeInv /\ LSInv /\ PlaceInv

-----------------------------------------------------------------------------

LEMMA HullSizes ==
  /\ PROCESSORS \in Nat \ {0} /\ DEPTH \in Nat \ {0}
  /\ \A h \in Participant : h \in Nat /\ h < PROCESSORS
  /\ \A k \in 0 .. DEPTH : Interval(k) \in Nat \ {0}
BY HullAssumption, PowerAssumption, SMT DEF Participant, Interval

\* Numbers of pairs of two harts differ.
LEMMA PairNumbers ==
  ASSUME NEW P \in Nat \ {0}, NEW g \in Nat, NEW h \in Nat, g < P, h < P,
         NEW m \in Nat, NEW n \in Nat, g + m * P = h + n * P
  PROVE  g = h
<1>1. CASE m = n
  BY <1>1, SMT
<1>2. ASSUME NEW a \in Nat, NEW b \in Nat, a < b PROVE b * P >= a * P + P
  <2>1. PICK d \in Nat : b = a + 1 + d
    BY <1>2, SMT
  <2>2. b * P = a * P + P + d * P /\ d * P \in Nat /\ a * P \in Nat
    BY <2>1, SMT
  <2> QED  BY <2>2, SMT
<1>3. m * P \in Nat /\ n * P \in Nat
  BY SMT
<1>4. CASE m < n
  <2>1. n * P >= m * P + P
    BY <1>2, <1>4
  <2> QED  BY <1>3, <2>1, SMT
<1>5. CASE n < m
  <2>1. m * P >= n * P + P
    BY <1>2, <1>5
  <2> QED  BY <1>3, <2>1, SMT
<1> QED  BY <1>1, <1>4, <1>5, SMT

\* Pairs of different numbers lie apart.
LEMMA PairsApart ==
  ASSUME NEW w \in Nat \ {0}, NEW u \in Nat, NEW v \in Nat, u # v
  PROVE  (u * w .. u * w + w - 1) \cap (v * w .. v * w + w - 1) = {}
<1>1. ASSUME NEW a \in Nat, NEW b \in Nat, a < b
      PROVE  b * w >= a * w + w /\ a * w \in Nat /\ b * w \in Nat
  <2>1. PICK d \in Nat : b = a + 1 + d
    BY <1>1, SMT
  <2>2. b * w = a * w + w + d * w /\ d * w \in Nat /\ a * w \in Nat
    BY <2>1, SMT
  <2> QED  BY <2>2, SMT
<1>2. CASE u < v
  <2>1. v * w >= u * w + w /\ u * w \in Nat /\ v * w \in Nat
    BY <1>1, <1>2
  <2> QED  BY <2>1, SMT
<1>3. CASE v < u
  <2>1. u * w >= v * w + w /\ u * w \in Nat /\ v * w \in Nat
    BY <1>1, <1>3
  <2> QED  BY <2>1, SMT
<1> QED  BY <1>2, <1>3, SMT

\* Steps that neither pass the barrier nor go to another pair.
LEMMA StayPut ==
  ASSUME RegionInv, UNCHANGED <<level, inside, at>>
  PROVE  RegionInv'
BY DEF RegionInv, ShapeInv, LSInv, PlaceInv

LEMMA InitRegionInv == Init => RegionInv
<1> SUFFICES ASSUME Init PROVE RegionInv
  OBVIOUS
<1>1. level = [h \in Participant |-> 0] /\ inside = {} /\ at = [h \in Participant |-> First(h, 0)]
  BY DEF Init, Barrier!LSInit
<1>2. ShapeInv /\ LSInv
  BY <1>1, HullSizes DEF ShapeInv, LSInv
<1>3. ASSUME NEW h \in Participant
      PROVE  at[h] = (h + 0 * PROCESSORS) * (2 * Interval(level[h]))
  <2>1. Interval(0) \in Nat /\ h \in Nat /\ PROCESSORS \in Nat
    BY HullSizes
  <2>2. h * 2 * Interval(0) = (h + 0 * PROCESSORS) * (2 * Interval(0))
    BY <2>1, SMT
  <2> QED  BY <1>1, <2>2 DEF First
<1>4. PlaceInv
  BY <1>3 DEF PlaceInv
<1> QED  BY <1>2, <1>4 DEF RegionInv

LEMMA MoveRegionInv == \A h \in Participant : RegionInv /\ Move(h) => RegionInv'
<1> SUFFICES ASSUME NEW h \in Participant, RegionInv, Move(h) PROVE RegionInv'
  OBVIOUS
<1>1. at' = [at EXCEPT ![h] = @ + Stride(level[h])] /\ UNCHANGED <<level, inside>>
  BY DEF Move
<1>2. ShapeInv' /\ LSInv'
  BY <1>1 DEF RegionInv, ShapeInv, LSInv
<1>3. ASSUME NEW g \in Participant
      PROVE  \E m \in Nat : at'[g] = (g + m * PROCESSORS) * (2 * Interval(level[g]))
  <2>1. PICK m \in Nat : at[g] = (g + m * PROCESSORS) * (2 * Interval(level[g]))
    BY DEF RegionInv, PlaceInv
  <2>2. CASE g # h
    BY <1>1, <2>1, <2>2 DEF RegionInv, ShapeInv
  <2>3. CASE g = h
    <3> DEFINE i == Interval(level[h])
    <3>1. i \in Nat /\ g \in Nat /\ PROCESSORS \in Nat
      BY HullSizes DEF RegionInv, ShapeInv
    <3>2. at'[h] = at[h] + 2 * PROCESSORS * i
      BY <1>1 DEF RegionInv, ShapeInv, Stride
    <3> HIDE DEF i
    <3>3. (g + m * PROCESSORS) * (2 * i) + 2 * PROCESSORS * i = (g + (m + 1) * PROCESSORS) * (2 * i)
      BY <3>1, SMT
    <3>4. m + 1 \in Nat /\ at'[g] = (g + (m + 1) * PROCESSORS) * (2 * i)
      BY <2>1, <2>3, <3>2, <3>3 DEF i
    <3> QED  BY <2>3, <3>4 DEF i
  <2> QED  BY <2>2, <2>3
<1>4. PlaceInv'
  BY <1>1, <1>3 DEF PlaceInv
<1> QED  BY <1>2, <1>4 DEF RegionInv

LEMMA LeaveRegionInv == \A h \in Participant : RegionInv /\ Leave(h) => RegionInv'
<1> SUFFICES ASSUME NEW h \in Participant, RegionInv, Leave(h) PROVE RegionInv'
  OBVIOUS
<1>1. /\ h \in inside /\ inside' = inside \ {h}
      /\ level' = [level EXCEPT ![h] = @ + 1]
      /\ at' = [at EXCEPT ![h] = First(h, level[h] + 1)]
      /\ \A g \in Participant : level[g] > level[h] \/ (level[g] = level[h] /\ g \in inside)
  BY DEF Leave, Barrier!Leave
<1>2. \A g \in Participant : level[g] \in 0 .. DEPTH
  BY DEF RegionInv, ShapeInv
<1>3. level[h] + 1 \in 0 .. DEPTH
  BY <1>1, <1>2, HullSizes, SMT DEF RegionInv, ShapeInv
<1>4. /\ level'[h] = level[h] + 1 /\ at'[h] = First(h, level[h] + 1)
      /\ \A g \in Participant \ {h} : level'[g] = level[g] /\ at'[g] = at[g]
  BY <1>1 DEF RegionInv, ShapeInv
<1>5. ShapeInv'
  BY <1>1, <1>3, <1>4 DEF RegionInv, ShapeInv
<1>6. LSInv'
  <2> SUFFICES ASSUME NEW f \in Participant, NEW g \in Participant, level'[f] > level'[g]
               PROVE  level'[f] = level'[g] + 1 /\ g \in inside'
    BY DEF LSInv
  <2>1. g # h
    BY <1>1, <1>2, <1>4, SMT DEF RegionInv, LSInv
  <2>2. CASE f = h
    BY <1>1, <1>2, <1>4, <2>1, <2>2, SMT
  <2>3. CASE f # h
    BY <1>1, <1>4, <2>1, <2>3 DEF RegionInv, LSInv
  <2> QED  BY <2>2, <2>3
<1>7. ASSUME NEW g \in Participant
      PROVE  \E m \in Nat : at'[g] = (g + m * PROCESSORS) * (2 * Interval(level'[g]))
  <2>1. CASE g # h
    BY <1>4, <2>1 DEF RegionInv, PlaceInv
  <2>2. CASE g = h
    <3>1. Interval(level'[h]) \in Nat /\ g \in Nat /\ PROCESSORS \in Nat
      BY <1>3, <1>4, HullSizes
    <3>2. g * 2 * Interval(level'[h]) = (g + 0 * PROCESSORS) * (2 * Interval(level'[h]))
      BY <3>1, SMT
    <3> QED  BY <1>4, <2>2, <3>2 DEF First
  <2> QED  BY <2>1, <2>2
<1>8. PlaceInv'
  BY <1>7 DEF PlaceInv
<1> QED  BY <1>5, <1>6, <1>8 DEF RegionInv

LEMMA ArriveRegionInv == \A h \in Participant : RegionInv /\ Arrive(h) => RegionInv'
<1> SUFFICES ASSUME NEW h \in Participant, RegionInv, Arrive(h) PROVE RegionInv'
  OBVIOUS
<1>1. level[h] < DEPTH /\ inside' = inside \cup {h} /\ UNCHANGED <<level, at>>
  BY DEF Arrive, Barrier!Enter
<1> QED  BY <1>1 DEF RegionInv, ShapeInv, LSInv, PlaceInv

LEMMA NextRegionInv == RegionInv /\ [Next]_vars => RegionInv'
<1> SUFFICES ASSUME RegionInv, [Next]_vars PROVE RegionInv'
  OBVIOUS
<1>1. ASSUME NEW h \in Participant, Pack(h) \/ Search(h) \/ Update(h) PROVE RegionInv'
  BY <1>1, StayPut DEF Pack, Search, Update
<1>2. CASE UNCHANGED vars
  BY <1>2, StayPut DEF vars
<1> QED  BY <1>1, <1>2, MoveRegionInv, LeaveRegionInv, ArriveRegionInv DEF Next, Terminated, Step

LEMMA Disjoint == ASSUME RegionInv PROVE RegionsDisjoint
<1>1. ASSUME NEW g \in Participant, NEW h \in Participant, g # h,
             Working(g), Working(h)
      PROVE  Region(g) \cap Region(h) = {}
  <2> DEFINE i == Interval(level[g])
  <2>1. level[g] = level[h]
    <3>1. level[g] \in Int /\ level[h] \in Int /\ ~(level[g] > level[h]) /\ ~(level[h] > level[g])
      BY <1>1 DEF RegionInv, ShapeInv, LSInv, Working
    <3> QED  BY <3>1
  <2>2. PICK m \in Nat : at[g] = (g + m * PROCESSORS) * (2 * i)
    BY <1>1 DEF RegionInv, PlaceInv
  <2>3. PICK n \in Nat : at[h] = (h + n * PROCESSORS) * (2 * i)
    BY <1>1, <2>1 DEF RegionInv, PlaceInv
  <2>4. i \in Nat \ {0} /\ g \in Nat /\ h \in Nat /\ PROCESSORS \in Nat \ {0}
        /\ g < PROCESSORS /\ h < PROCESSORS
    BY <1>1, HullSizes DEF RegionInv, ShapeInv
  <2>5. Region(g) = at[g] .. at[g] + 2 * i - 1 /\ Region(h) = at[h] .. at[h] + 2 * i - 1
    BY <2>1 DEF Region
  <2> HIDE DEF i
  <2>6. g + m * PROCESSORS # h + n * PROCESSORS
    BY <1>1, <2>4, PairNumbers
  <2>7. g + m * PROCESSORS \in Nat /\ h + n * PROCESSORS \in Nat /\ 2 * i \in Nat \ {0}
    BY <2>4, SMT
  <2> DEFINE w == 2 * i
             u == g + m * PROCESSORS
             v == h + n * PROCESSORS
  <2>8. (u * w .. u * w + w - 1) \cap (v * w .. v * w + w - 1) = {}
    BY <2>6, <2>7, PairsApart
  <2> QED  BY <2>2, <2>3, <2>5, <2>8
<1> QED  BY <1>1 DEF RegionsDisjoint

\* report.md:14 "each software exclusive access to the portion of shared
\* array": two harts never work on overlapping parts of input_x, input_y and
\* length (the loops of main), however many harts share however many points.
THEOREM RegionsAreDisjoint == Spec => []RegionsDisjoint
<1>1. RegionInv => RegionsDisjoint
  BY Disjoint
<1> QED  BY <1>1, InitRegionInv, NextRegionInv, PTL DEF Spec

-----------------------------------------------------------------------------
(* The input.                                                              *)

LEMMA Powers ==
  /\ Interval(0) = 2 /\ Interval(DEPTH) = POINTS /\ Interval(DEPTH - 1) = 2^DEPTH
  /\ \A k \in 0 .. DEPTH : Interval(k) \in Nat /\ Interval(k) >= 2
  /\ \A k \in 0 .. DEPTH - 1 : Interval(k + 1) = 2 * Interval(k)
  /\ POINTS \in Nat /\ POINTS >= 4 /\ Slot = 0 .. POINTS - 1
  /\ 2^DEPTH \in Nat /\ 2^DEPTH >= 2 /\ POINTS = 2 * 2^DEPTH
<1>1. DEPTH \in Nat \ {0}
  BY HullSizes
<1>2. 2^0 = 1 /\ \A k \in 0 .. DEPTH : 2^k \in Nat \ {0} /\ 2^(k + 1) = 2 * 2^k
  BY PowerAssumption
<1>3. 2^(DEPTH - 1) \in Nat \ {0} /\ 2^((DEPTH - 1) + 1) = 2 * 2^(DEPTH - 1)
  <2>1. DEPTH - 1 \in 0 .. DEPTH
    BY <1>1, SMT
  <2> QED  BY <1>2, <2>1
<1>4. (DEPTH - 1) + 1 = DEPTH
  BY <1>1, SMT
<1>5. 2^DEPTH = 2 * 2^(DEPTH - 1)
  BY <1>3, <1>4
<1>6. 2^DEPTH \in Nat /\ 2^DEPTH >= 2
  BY <1>3, <1>5, SMT
<1>7. \A k \in 0 .. DEPTH : Interval(k) \in Nat /\ Interval(k) >= 2
  BY <1>2, SMT DEF Interval
<1>8. \A k \in 0 .. DEPTH - 1 : Interval(k + 1) = 2 * Interval(k)
  <2> TAKE k \in 0 .. DEPTH - 1
  <2>1. k \in 0 .. DEPTH
    BY <1>1, SMT
  <2>2. 2^(k + 1) = 2 * 2^k
    BY <1>2, <2>1
  <2> QED  BY <2>2 DEF Interval
<1>9. Interval(0) = 2 /\ Interval(DEPTH) = POINTS /\ Interval(DEPTH - 1) = 2^DEPTH
  BY <1>2, <1>5 DEF Interval, POINTS
<1>10. POINTS \in Nat /\ POINTS >= 4 /\ POINTS = 2 * 2^DEPTH
  BY <1>6, SMT DEF POINTS
<1> QED  BY <1>6, <1>7, <1>8, <1>9, <1>10 DEF Slot

\* The points of a level are a number of blocks of a lower one.
LEMMA Divides ==
  ASSUME NEW k \in 0 .. DEPTH, NEW l \in k .. DEPTH
  PROVE  \E c \in Nat \ {0} : Interval(l) = c * Interval(k)
<1> DEFINE Bad == {x \in k .. DEPTH : ~ \E c \in Nat \ {0} : Interval(x) = c * Interval(k)}
<1>1. DEPTH \in Nat /\ k \in Nat /\ l \in Nat /\ \A x \in k .. DEPTH : x \in Nat
  BY HullSizes, SMT
<1>2. SUFFICES ASSUME Bad # {} PROVE FALSE
  BY <1>1
<1>3. Bad \in SUBSET Nat
  BY <1>1
<1>4. PICK x \in Bad : \A y \in Bad : x <= y
  BY <1>2, <1>3, LeastElement
<1>5. x # k
  <2>1. Interval(k) = 1 * Interval(k)
    BY Powers, SMT
  <2> QED  BY <1>4, <2>1
<1>6. x - 1 \in k .. DEPTH /\ x - 1 \in 0 .. DEPTH - 1 /\ (x - 1) + 1 = x /\ ~ (x <= x - 1)
  BY <1>1, <1>4, <1>5, SMT
<1>7. PICK c \in Nat \ {0} : Interval(x - 1) = c * Interval(k)
  BY <1>4, <1>6
<1>8. Interval(x) = 2 * Interval(x - 1)
  BY <1>6, Powers
<1>9. Interval(k) \in Nat
  BY Powers
<1>10. 2 * (c * Interval(k)) = (2 * c) * Interval(k) /\ 2 * c \in Nat \ {0}
  <2> DEFINE a == Interval(k)
  <2>1. a \in Nat
    BY <1>9
  <2> HIDE DEF a
  <2>2. 2 * (c * a) = (2 * c) * a /\ 2 * c \in Nat \ {0}
    BY <2>1, SMT
  <2> QED  BY <2>2 DEF a
<1> QED  BY <1>4, <1>7, <1>8, <1>10

LEMMA StepRight ==
  ASSUME original \in Inputs, NEW i \in Slot, i + 1 \in Slot
  PROVE  /\ original[i] \in Coordinate \X Coordinate
         /\ original[i + 1] \in Coordinate \X Coordinate
         /\ \/ original[i][1] < original[i + 1][1]
            \/ original[i + 1] = original[i] /\ original[i][2] = 0
<1>1. Growing(original)
  BY HullAssumption
<1>2. original[i] \in Coordinate \X Coordinate /\ original[i + 1] \in Coordinate \X Coordinate
  BY <1>1 DEF Growing
<1> DEFINE d == 2^DEPTH
<1>3. d \in Nat /\ d >= 2 /\ Slot = 0 .. 2 * d - 1 /\ POINTS = 2 * d
  BY Powers
<1>4. /\ Settles(original, 0, d - 1) /\ Settles(original, d, 2 * d - 1)
      /\ \/ original[d - 1][1] < original[d][1]
         \/ original[d] = original[d - 1] /\ original[d][2] = 0
  BY <1>1, <1>3 DEF Growing
<1> HIDE DEF d
<1>5. ASSUME NEW lo \in Nat, NEW hi \in Nat, Settles(original, lo, hi), lo <= i, i + 1 <= hi
      PROVE  \/ original[i][1] < original[i + 1][1]
             \/ original[i + 1] = original[i] /\ original[i][2] = 0
  <2>1. PICK e \in lo .. hi :
          /\ \A x \in lo .. e - 1 : original[x][1] < original[x + 1][1]
          /\ \A x \in e .. hi - 1 : original[x + 1] = original[x] /\ original[x][2] = 0
    BY <1>5 DEF Settles
  <2>2. i \in lo .. e - 1 \/ i \in e .. hi - 1
    BY <1>3, <1>5, SMT
  <2> QED  BY <2>1, <2>2
<1>6. CASE i + 1 <= d - 1
  BY <1>2, <1>3, <1>4, <1>5, <1>6, SMT
<1>7. CASE i + 1 = d
  <2>1. d - 1 = i
    BY <1>3, <1>7, SMT
  <2> QED  BY <1>2, <1>4, <1>7, <2>1
<1>8. CASE i + 1 > d
  BY <1>2, <1>3, <1>4, <1>5, <1>8, SMT
<1>9. i \in Int
  BY <1>3, SMT
<1> QED  BY <1>2, <1>3, <1>6, <1>7, <1>8, <1>9, SMT

\* The points come from left to right, and where two are in one column they are
\* the same point on the x axis.
LEMMA Ordered ==
  ASSUME original \in Inputs, NEW i \in Slot, NEW j \in Slot, i <= j
  PROVE  /\ original[i] \in Coordinate \X Coordinate /\ original[j] \in Coordinate \X Coordinate
         /\ original[i][1] <= original[j][1]
         /\ original[i][1] = original[j][1] =>
              original[j] = original[i] /\ (i < j => original[i][2] = 0)
<1> DEFINE Good(x) ==
      /\ original[i][1] <= original[x][1]
      /\ original[i][1] = original[x][1] =>
           original[x] = original[i] /\ (i < x => original[i][2] = 0)
    Bad == {x \in Slot : i <= x /\ ~ Good(x)}
<1>1. Slot \subseteq Nat /\ Slot = 0 .. POINTS - 1 /\ POINTS \in Nat
  BY Powers, SMT
<1>2. \A x \in Slot : original[x] \in Coordinate \X Coordinate
  BY HullAssumption DEF Growing
<1>3. \A x \in Slot : original[x][1] \in Nat
  BY <1>2, CoordinateInt
<1>4. SUFFICES ASSUME Bad # {} PROVE FALSE
  BY <1>2
<1>5. Bad \in SUBSET Nat
  BY <1>1
<1>6. PICK x \in Bad : \A y \in Bad : x <= y
  BY <1>4, <1>5, LeastElement
<1>7. i # x
  BY <1>1, <1>3, <1>6, SMT
<1>8. x - 1 \in Slot /\ i <= x - 1 /\ ~ (x <= x - 1) /\ (x - 1) + 1 = x /\ x \in Slot
  BY <1>1, <1>6, <1>7, SMT
<1>9. Good(x - 1)
  BY <1>6, <1>8
<1>10. \/ original[x - 1][1] < original[x][1]
       \/ original[x] = original[x - 1] /\ original[x - 1][2] = 0
  BY <1>8, StepRight
<1>11. original[i][1] \in Nat /\ original[x][1] \in Nat /\ original[x - 1][1] \in Nat
  BY <1>3, <1>8
<1>12. CASE original[x - 1][1] < original[x][1]
  BY <1>6, <1>9, <1>11, <1>12, SMT
<1>13. CASE original[x] = original[x - 1] /\ original[x - 1][2] = 0
  BY <1>6, <1>9, <1>11, <1>13
<1> QED  BY <1>10, <1>12, <1>13

\* Where a part of the points has begun to repeat one it goes on repeating it.
LEMMA Repeats ==
  ASSUME NEW lo \in Nat, NEW hi \in Nat, Settles(original, lo, hi),
         \A x \in lo .. hi : original[x][1] \in Nat,
         NEW i \in lo .. hi - 1, original[i + 1] = original[i], NEW j \in i .. hi
  PROVE  original[j] = original[i] /\ original[i][2] = 0
<1>1. PICK e \in lo .. hi :
        /\ \A x \in lo .. e - 1 : original[x][1] < original[x + 1][1]
        /\ \A x \in e .. hi - 1 : original[x + 1] = original[x] /\ original[x][2] = 0
  BY DEF Settles
<1>2. i \in Nat /\ i \in lo .. hi /\ i + 1 \in lo .. hi /\ j \in Nat
  BY SMT
<1>3. ~ (original[i][1] < original[i + 1][1])
  BY <1>2, SMT
<1>4. i \notin lo .. e - 1
  BY <1>1, <1>3
<1>5. i \in e .. hi - 1 /\ e \in Nat
  BY <1>2, <1>4, SMT
<1> DEFINE Bad == {x \in i .. hi : original[x] # original[i]}
<1>6. SUFFICES ASSUME Bad # {} PROVE FALSE
  BY <1>1, <1>5
<1>7. Bad \in SUBSET Nat
  BY <1>2, SMT
<1>8. PICK x \in Bad : \A y \in Bad : x <= y
  BY <1>6, <1>7, LeastElement
<1>9. x # i
  BY <1>8
<1>10. x - 1 \in i .. hi /\ x - 1 \in e .. hi - 1 /\ ~ (x <= x - 1) /\ (x - 1) + 1 = x
  BY <1>2, <1>5, <1>8, <1>9, SMT
<1>11. original[x - 1] = original[i] /\ original[x] = original[x - 1]
  BY <1>1, <1>8, <1>10
<1> QED  BY <1>8, <1>11

-----------------------------------------------------------------------------
(* Merging two hulls along their tangent.                                  *)

Points(b, n) == {original[i] : i \in b .. b + n - 1}

\* n points from the one of index b on.
Part(b, n) == original \in Inputs /\ b \in Nat /\ n \in Nat \ {0} /\ b + n <= POINTS

LEMMA PartPoints ==
  ASSUME NEW b, NEW n, Part(b, n)
  PROVE  /\ Points(b, n) \subseteq Coordinate \X Coordinate
         /\ Points(b, n) \subseteq Vec
         /\ original[b] \in Points(b, n) /\ original[b + n - 1] \in Points(b, n)
         /\ \A o, p \in Points(b, n) : o[1] = p[1] => o = p
         /\ \A p \in Points(b, n) : original[b][1] <= p[1] /\ p[1] <= original[b + n - 1][1]
<1>1. /\ \A i \in b .. b + n - 1 : i \in Slot /\ i \in Nat /\ b <= i /\ i <= b + n - 1
      /\ b \in b .. b + n - 1 /\ b + n - 1 \in b .. b + n - 1
  BY Powers, SMT DEF Part
<1>2. original \in Inputs
  BY DEF Part
<1>3. \A i \in b .. b + n - 1 : original[i] \in Coordinate \X Coordinate
  BY <1>1, <1>2, Ordered
<1>4. Points(b, n) \subseteq Coordinate \X Coordinate
  BY <1>3 DEF Points
<1>5. original[b] \in Points(b, n) /\ original[b + n - 1] \in Points(b, n)
  BY <1>1 DEF Points
<1>6. ASSUME NEW o \in Points(b, n), NEW p \in Points(b, n), o[1] = p[1] PROVE o = p
  <2>1. PICK i \in b .. b + n - 1, j \in b .. b + n - 1 : o = original[i] /\ p = original[j]
    BY DEF Points
  <2>2. i <= j \/ j <= i
    BY <1>1, SMT
  <2> QED  BY <1>1, <1>2, <1>6, <2>1, <2>2, Ordered
<1>7. ASSUME NEW p \in Points(b, n)
      PROVE  original[b][1] <= p[1] /\ p[1] <= original[b + n - 1][1]
  <2>1. PICK i \in b .. b + n - 1 : p = original[i]
    BY DEF Points
  <2> QED  BY <1>1, <1>2, <2>1, Ordered
<1> QED  BY <1>4, <1>5, <1>6, <1>7, CoordinateInt

\* A part of the points and the next one.
LEMMA NextPart ==
  ASSUME NEW b, NEW n, NEW m, Part(b, n), Part(b + n, m)
  PROVE  /\ Part(b, n + m) /\ (b + n) + m - 1 = b + (n + m) - 1
         /\ Points(b, n + m) = Points(b, n) \cup Points(b + n, m)
         /\ \A o \in Points(b, n), p \in Points(b + n, m) :
              o[1] <= p[1] /\ (o[1] = p[1] => o = p)
         /\ original[b + n - 1] # original[b + n] =>
              original[b + n - 1][1] < original[b + n][1]
         /\ original[b + n - 1] = original[b + n] => original[b + n][2] = 0
<1>1. b \in Nat /\ n \in Nat \ {0} /\ m \in Nat \ {0} /\ (b + n) + m <= POINTS /\ original \in Inputs
  BY DEF Part
<1>2. Part(b, n + m) /\ (b + n) + m - 1 = b + (n + m) - 1
  BY <1>1, SMT DEF Part
<1>3. b .. b + (n + m) - 1 = (b .. b + n - 1) \cup (b + n .. (b + n) + m - 1)
  BY <1>1, SMT
<1>4. Points(b, n + m) = Points(b, n) \cup Points(b + n, m)
  BY <1>3 DEF Points
<1>5. ASSUME NEW i \in b .. b + n - 1, NEW j \in b + n .. (b + n) + m - 1
      PROVE  i \in Slot /\ j \in Slot /\ i <= j /\ i < j
  BY <1>1, Powers, SMT
<1>6. ASSUME NEW o \in Points(b, n), NEW p \in Points(b + n, m)
      PROVE  o[1] <= p[1] /\ (o[1] = p[1] => o = p)
  <2>1. PICK i \in b .. b + n - 1, j \in b + n .. (b + n) + m - 1 :
          o = original[i] /\ p = original[j]
    BY DEF Points
  <2> QED  BY <1>1, <1>5, <2>1, Ordered
<1>7. b + n - 1 \in b .. b + n - 1 /\ b + n \in b + n .. (b + n) + m - 1
  BY <1>1, SMT
<1>8. b + n - 1 \in Slot /\ b + n \in Slot /\ b + n - 1 <= b + n /\ b + n - 1 < b + n
  BY <1>5, <1>7
<1>9. /\ original[b + n - 1] \in Coordinate \X Coordinate
      /\ original[b + n] \in Coordinate \X Coordinate
      /\ original[b + n - 1][1] <= original[b + n][1]
      /\ original[b + n - 1][1] = original[b + n][1] =>
           original[b + n] = original[b + n - 1] /\ original[b + n - 1][2] = 0
  BY <1>1, <1>8, Ordered
<1>10. original[b + n - 1][1] \in Nat /\ original[b + n][1] \in Nat
  BY <1>9, CoordinateInt
<1>11. original[b + n - 1] # original[b + n] => original[b + n - 1][1] < original[b + n][1]
  <2>1. original[b + n - 1] # original[b + n] => original[b + n - 1][1] # original[b + n][1]
    BY <1>9
  <2> QED  BY <1>9, <1>10, <2>1, SMT
<1> QED  BY <1>2, <1>4, <1>6, <1>9, <1>11

\* A hull of a part, with what the arrays of main keep of it.
Stored(s, d, b, n) ==
  Part(b, n) /\ IsHullOf(s, b, n) /\ Shape(s, d) /\ Len(s) \in 1 .. MAX_HULL

\* At level k the last point of a hull is repeated k times at most, and once
\* more where it is the only one.
Few(s, d, k) == Len(s) <= d + (IF d = 1 THEN k + 1 ELSE k)

LEMMA StoredHull ==
  ASSUME NEW s, NEW d, NEW b, NEW n, Stored(s, d, b, n)
  PROVE  /\ PaddedHull(Padded(s), d) /\ d \in 1 .. Len(s) /\ Len(s) \in 1 .. MAX_HULL
         /\ \A k \in 0 .. Len(s) - 1 : k \in Index /\ Padded(s)[k] = s[k + 1]
         /\ \A k \in d - 1 .. Len(s) - 1 : Padded(s)[k] = original[b + n - 1]
         /\ Padded(s)[0] = original[b]
         /\ \A k \in 0 .. Len(s) - 1 : Padded(s)[k] \in Points(b, n)
         /\ \A k \in 1 .. Len(s) - 1, p \in Points(b, n) :
              /\ k \in Inner
              /\ Cross(Edge(Padded(s), k), Minus(p, Padded(s)[k - 1])) <= 0
<1> DEFINE f == Padded(s)
           len == Len(s)
<1>1. /\ PaddedHull(f, d) /\ len \in Nat /\ len >= 1 /\ len <= MAX_HULL
      /\ \A k \in 0 .. len - 1 : k \in Index /\ f[k] = s[k + 1]
  BY ShapeIsHull DEF Stored
<1>2. d \in 1 .. len /\ (\A i \in d + 1 .. len : s[i] = s[d])
  BY DEF Stored, Shape
<1>3. /\ s[1] = original[b] /\ s[len] = original[b + n - 1]
      /\ \A i \in 1 .. len - 1 :
           /\ s[i] \in Points(b, n)
           /\ \A p \in Points(b, n) : Cross(Minus(s[i + 1], s[i]), Minus(p, s[i])) <= 0
  BY DEF Stored, IsHullOf, Points
<1>4. Part(b, n) /\ original[b + n - 1] \in Points(b, n)
  BY PartPoints DEF Stored
<1> HIDE DEF f, len
<1>5. \A i \in 1 .. len : s[i] \in Points(b, n)
  <2> TAKE i \in 1 .. len
  <2>1. i = len \/ i \in 1 .. len - 1
    BY <1>1, SMT
  <2> QED  BY <1>3, <1>4, <2>1
<1>6. ASSUME NEW k \in d - 1 .. len - 1
      PROVE  f[k] = original[b + n - 1]
  <2>1. k \in 0 .. len - 1 /\ (k + 1 = d \/ k + 1 \in d + 1 .. len) /\ (len = d \/ len \in d + 1 .. len)
    BY <1>1, <1>2, SMT
  <2>2. s[k + 1] = s[d] /\ s[len] = s[d]
    BY <1>2, <2>1
  <2> QED  BY <1>1, <1>3, <2>1, <2>2
<1>7. f[0] = original[b]
  <2>1. 0 \in 0 .. len - 1 /\ 0 + 1 = 1
    BY <1>1, SMT
  <2> QED  BY <1>1, <1>3, <2>1
<1>8. \A k \in 0 .. len - 1 : f[k] \in Points(b, n)
  <2> TAKE k \in 0 .. len - 1
  <2>1. k + 1 \in 1 .. len
    BY <1>1, SMT
  <2> QED  BY <1>1, <1>5, <2>1
<1>9. ASSUME NEW k \in 1 .. len - 1, NEW p \in Points(b, n)
      PROVE  k \in Inner /\ Cross(Edge(f, k), Minus(p, f[k - 1])) <= 0
  <2>1. k \in Inner /\ k \in 0 .. len - 1 /\ k - 1 \in 0 .. len - 1 /\ (k - 1) + 1 = k
    BY <1>1, Sizes, SMT DEF Inner
  <2>2. f[k] = s[k + 1] /\ f[k - 1] = s[k]
    BY <1>1, <2>1
  <2> QED  BY <1>3, <2>1, <2>2 DEF Edge
<1>10. len \in 1 .. MAX_HULL
  BY DEF Stored, len
<1> QED  BY <1>1, <1>2, <1>6, <1>7, <1>8, <1>9, <1>10 DEF f, len

\* Where an edge falls behind a direction, and a point to its left is under it,
\* the point is under the line in that direction, too.
LEMMA UnderRising ==
  ASSUME NEW d \in Vec, NEW e \in Vec, NEW v \in Vec, d[1] > 0, e[1] > 0, v[1] > 0,
         Cross(d, e) > 0, Cross(e, v) >= 0
  PROVE  Cross(d, v) >= 0
<1>1. Cross(v, e) <= 0 /\ Cross(e, d) <= 0
  BY Vectors, SMT
<1> HIDE DEF Cross
<1>3. d[1] >= 0
  BY SMT DEF Vec
<1>2. Cross(v, d) <= 0
  BY <1>1, <1>3, Steeper
<1> QED  BY <1>2, Vectors, SMT

\* A line on the hull of a part in a direction in which its edges turn down:
\* no point of the part is above it.
LEMMA UnderLine ==
  ASSUME NEW s, NEW m, NEW b, NEW n, Stored(s, m, b, n), NEW d \in Vec, d[1] > 0,
         NEW t \in 0 .. Len(s) - 1,
         \A k \in Inner : Cross(d, Edge(Padded(s), k)) <= 0 <=> k > t,
         NEW p \in Points(b, n)
  PROVE  Cross(d, Minus(p, Padded(s)[t])) <= 0
<1> DEFINE f == Padded(s)
           len == Len(s)
<1>1. /\ PaddedHull(f, m) /\ m \in 1 .. len /\ len \in 1 .. MAX_HULL
      /\ \A k \in 0 .. len - 1 : k \in Index /\ f[k] \in Points(b, n)
      /\ \A k \in m - 1 .. len - 1 : f[k] = original[b + n - 1]
      /\ f[0] = original[b]
      /\ \A k \in 1 .. len - 1 :
           k \in Inner /\ Cross(Edge(f, k), Minus(p, f[k - 1])) <= 0
  BY StoredHull
<1>2. Part(b, n)
  BY DEF Stored
<1>3. p \in Vec /\ original[b][1] <= p[1] /\ p[1] <= original[b + n - 1][1]
  BY <1>2, PartPoints
<1>4. t \in 0 .. len - 1 /\ t \in Int /\ len \in Int /\ m \in Int /\ m <= len /\ MAX_HULL \in Int
  BY <1>1, Sizes, SMT
<1>5. \A k \in Inner : Cross(d, Edge(f, k)) <= 0 <=> k > t
  BY DEF f
<1> HIDE DEF f, len
<1>6. f[t] \in Points(b, n) /\ f[t] \in Vec
  BY <1>1, <1>2, <1>4, PartPoints
<1>7. p[1] = f[t][1] => p = f[t]
  BY <1>2, <1>6, PartPoints
<1>8. \A k \in Inner :
        /\ Edge(f, k) \in Vec
        /\ k < m => Edge(f, k)[1] > 0
        /\ k >= m => Edge(f, k)[1] = 0 /\ Edge(f, k)[2] <= 0
  BY <1>1, PaddedEdges
<1>9. /\ Minus(p, f[t]) \in Vec /\ Minus(f[t], p) \in Vec
      /\ Minus(p, f[t])[1] = p[1] - f[t][1] /\ Minus(f[t], p)[1] = f[t][1] - p[1]
      /\ Cross(d, Minus(f[t], f[t])) = 0
      /\ p[1] \in Int /\ f[t][1] \in Int
  <2>1. /\ Minus(p, f[t]) \in Vec /\ Minus(f[t], p) \in Vec
        /\ Minus(p, f[t])[1] = p[1] - f[t][1] /\ Minus(f[t], p)[1] = f[t][1] - p[1]
    BY <1>3, <1>6, Vectors
  <2>2. Cross(d, Minus(f[t], f[t])) = 0
    BY <1>6, CrossSums
  <2>3. p[1] \in Int /\ f[t][1] \in Int
    BY <1>3, <1>6 DEF Vec
  <2> QED  BY <2>1, <2>2, <2>3
<1>10. CASE p[1] = f[t][1]
  <2>1. Minus(p, f[t]) = Minus(f[t], f[t])
    BY <1>7, <1>10
  <2>2. Cross(d, Minus(p, f[t])) = 0
    BY <1>9, <2>1
  <2> QED  BY <2>2 DEF f
<1>11. CASE p[1] < f[t][1]
  <2>1. t # 0
    BY <1>1, <1>3, <1>9, <1>11, SMT
  <2>2. t \in 1 .. len - 1
    BY <1>4, <2>1, SMT
  <2> DEFINE e == Edge(f, t)
  <2>3. t \in Inner /\ Cross(e, Minus(p, f[t - 1])) <= 0 /\ t - 1 \in 0 .. len - 1
    BY <1>1, <1>4, <2>2, SMT
  <2>4. ~ (Cross(d, e) <= 0)
    BY <1>4, <1>5, <2>3, SMT
  <2>5. f[t - 1] \in Vec /\ e \in Vec
    BY <1>1, <1>2, <1>8, <2>3, PartPoints
  <2>6. t < m
    <3>1. CASE t >= m
      <4>1. Cross(d, e) <= 0
        BY <1>1, <2>3, <3>1, PadFalls
      <4> QED  BY <2>4, <4>1
    <3> QED  BY <1>4, <3>1, SMT
  <2>7. e[1] > 0
    BY <1>8, <2>3, <2>6
  <2>8. e = Minus(f[t], f[t - 1])
    BY DEF Edge
  <2> HIDE DEF e
  <2>9. /\ Cross(e, Minus(p, f[t - 1])) = Cross(e, Minus(p, f[t])) + Cross(e, Minus(f[t], f[t - 1]))
        /\ Cross(e, e) = 0
        /\ Cross(e, Minus(p, f[t])) = - Cross(e, Minus(f[t], p))
        /\ Cross(d, Minus(p, f[t])) = - Cross(d, Minus(f[t], p))
        /\ Cross(e, Minus(f[t], p)) \in Int /\ Cross(d, Minus(f[t], p)) \in Int /\ Cross(d, e) \in Int
    <3>1. Cross(e, Minus(p, f[t - 1])) = Cross(e, Minus(p, f[t])) + Cross(e, Minus(f[t], f[t - 1]))
      BY <1>3, <1>6, <2>5, CrossSums
    <3>2. Cross(e, e) = 0 /\ Cross(e, Minus(p, f[t])) = - Cross(e, Minus(f[t], p))
      BY <1>3, <1>6, <2>5, CrossSums
    <3>3. Cross(d, Minus(p, f[t])) = - Cross(d, Minus(f[t], p))
      BY <1>3, <1>6, CrossSums
    <3>4. Cross(e, Minus(f[t], p)) \in Int /\ Cross(d, Minus(f[t], p)) \in Int /\ Cross(d, e) \in Int
      BY <1>9, <2>5, Vectors
    <3> QED  BY <3>1, <3>2, <3>3, <3>4
  <2>10. Cross(e, Minus(f[t], p)) >= 0
    BY <2>3, <2>8, <2>9, SMT
  <2>11. Cross(d, e) > 0 /\ Minus(f[t], p)[1] > 0
    BY <1>9, <1>11, <2>4, <2>9, SMT
  <2>12. Cross(d, Minus(f[t], p)) >= 0
    BY <1>9, <2>5, <2>7, <2>10, <2>11, UnderRising
  <2> QED  BY <2>9, <2>12, SMT DEF f
<1>12. CASE f[t][1] < p[1]
  <2>1. t + 1 < m
    <3>1. CASE t + 1 >= m
      <4>1. t \in m - 1 .. len - 1
        BY <1>4, <3>1, SMT
      <4>2. f[t] = original[b + n - 1]
        BY <1>1, <4>1
      <4> QED  BY <1>3, <1>9, <1>12, <4>2, SMT
    <3> QED  BY <1>4, <3>1, SMT
  <2>2. t + 1 \in 1 .. len - 1 /\ (t + 1) - 1 = t
    BY <1>4, <2>1, SMT
  <2> DEFINE e == Edge(f, t + 1)
  <2>3. t + 1 \in Inner /\ Cross(e, Minus(p, f[t])) <= 0
    BY <1>1, <2>2
  <2>4. Cross(d, e) <= 0
    BY <1>4, <1>5, <2>3, SMT
  <2>5. e \in Vec /\ e[1] > 0
    BY <1>8, <2>1, <2>3
  <2>6. Minus(p, f[t])[1] >= 0
    BY <1>9, <1>12, SMT
  <2> HIDE DEF e
  <2>7. Cross(d, Minus(p, f[t])) <= 0
    BY <1>9, <2>3, <2>4, <2>5, <2>6, Steeper
  <2> QED  BY <2>7 DEF f
<1> QED  BY <1>9, <1>10, <1>11, <1>12, SMT

\* What main makes of two hulls: the first up to its tangent point, the second
\* from its tangent point on.
Joint(s, t, i, j) ==
  [x \in 1 .. i + 1 + (Len(t) - j) |-> IF x <= i + 1 THEN s[x] ELSE t[x - (i + 1) + j]]

LEMMA JointIs ==
  ASSUME NEW s, NEW d, NEW t, NEW e, NEW b, NEW n, NEW m, Stored(s, d, b, n), Stored(t, e, b + n, m),
         NEW i \in 0 .. Len(s) - 1, NEW j \in 0 .. Len(t) - 1
  PROVE  LET u   == Joint(s, t, i, j)
             len == i + 1 + (Len(t) - j)
         IN  /\ Len(u) = len /\ len \in Nat /\ len > i + 1
             /\ u[1] = original[b] /\ u[len] = original[b + (n + m) - 1]
             /\ \A x \in 1 .. i + 1 : u[x] = Padded(s)[x - 1]
             /\ \A x \in i + 2 .. len : u[x] = Padded(t)[x - (i + 1) + j - 1]
             /\ \A x \in 1 .. len : u[x] \in Points(b, n + m)
<1> DEFINE u == Joint(s, t, i, j)
           lens == Len(s)
           lent == Len(t)
           len == i + 1 + (lent - j)
           f == Padded(s)
           g == Padded(t)
<1>1. /\ lens \in 1 .. MAX_HULL /\ lent \in 1 .. MAX_HULL
      /\ \A k \in 0 .. lens - 1 : f[k] = s[k + 1] /\ f[k] \in Points(b, n)
      /\ \A k \in 0 .. lent - 1 : g[k] = t[k + 1] /\ g[k] \in Points(b + n, m)
      /\ f[0] = original[b]
  BY StoredHull
<1>2. Part(b, n) /\ Part(b + n, m)
  BY DEF Stored
<1>3. Points(b, n + m) = Points(b, n) \cup Points(b + n, m) /\ (b + n) + m - 1 = b + (n + m) - 1
  BY <1>2, NextPart
<1>4. t[lent] = original[(b + n) + m - 1]
  BY DEF Stored, IsHullOf
<1>5. lens \in Nat /\ lent \in Nat /\ i \in 0 .. lens - 1 /\ j \in 0 .. lent - 1
  BY <1>1, Sizes, SMT
<1>6. u = [x \in 1 .. len |-> IF x <= i + 1 THEN s[x] ELSE t[x - (i + 1) + j]]
  BY DEF Joint
<1> HIDE DEF u, f, g, lens, lent
<1>7. len \in Nat /\ len > i + 1 /\ 1 \in 1 .. i + 1 /\ len \in i + 2 .. len
  BY <1>5, SMT
<1>8. Len(u) = len
  <2> HIDE DEF len
  <2> QED  BY <1>6, <1>7
<1>9. \A x \in 1 .. i + 1 : x - 1 \in 0 .. lens - 1 /\ u[x] = f[x - 1]
  <2> TAKE x \in 1 .. i + 1
  <2>1. x - 1 \in 0 .. lens - 1 /\ (x - 1) + 1 = x /\ x \in 1 .. len /\ x <= i + 1
    BY <1>5, SMT
  <2> QED  BY <1>1, <1>6, <2>1
<1>10. \A x \in i + 2 .. len :
         x - (i + 1) + j - 1 \in 0 .. lent - 1 /\ u[x] = g[x - (i + 1) + j - 1]
  <2> TAKE x \in i + 2 .. len
  <2>1. /\ x - (i + 1) + j - 1 \in 0 .. lent - 1
        /\ (x - (i + 1) + j - 1) + 1 = x - (i + 1) + j
        /\ x \in 1 .. len /\ ~ (x <= i + 1)
    BY <1>5, SMT
  <2> QED  BY <1>1, <1>6, <2>1
<1>11. u[1] = original[b]
  <2>1. 1 - 1 = 0
    OBVIOUS
  <2> QED  BY <1>1, <1>7, <1>9, <2>1
<1>12. u[len] = original[b + (n + m) - 1]
  <2>1. len - (i + 1) + j = lent /\ ~ (len <= i + 1) /\ len \in 1 .. len
    BY <1>5, SMT
  <2> QED  BY <1>3, <1>4, <1>6, <2>1
<1>13. \A x \in 1 .. len : u[x] \in Points(b, n + m)
  <2> TAKE x \in 1 .. len
  <2>1. x \in 1 .. i + 1 \/ x \in i + 2 .. len
    BY <1>5, SMT
  <2>2. CASE x \in 1 .. i + 1
    <3>1. x - 1 \in 0 .. lens - 1 /\ u[x] = f[x - 1]
      BY <1>9, <2>2
    <3> QED  BY <1>1, <1>3, <3>1
  <2>3. CASE x \in i + 2 .. len
    <3>1. x - (i + 1) + j - 1 \in 0 .. lent - 1 /\ u[x] = g[x - (i + 1) + j - 1]
      BY <1>10, <2>3
    <3> QED  BY <1>1, <1>3, <3>1
  <2> QED  BY <2>1, <2>2, <2>3
<1> QED  BY <1>7, <1>8, <1>9, <1>10, <1>11, <1>12, <1>13 DEF u, f, g, lent

\* No point of the two parts is above the tangent of their hulls, ...
LEMMA UnderJoint ==
  ASSUME NEW s, NEW d, NEW t, NEW e, NEW b, NEW n, NEW m, Stored(s, d, b, n), Stored(t, e, b + n, m),
         NEW i \in 0 .. Len(s) - 1, NEW j \in 0 .. Len(t) - 1,
         IsTangent(Padded(s), Padded(t), i, j), Minus(Padded(t)[j], Padded(s)[i])[1] > 0,
         NEW p \in Points(b, n + m)
  PROVE  LET v == Minus(Padded(t)[j], Padded(s)[i])
         IN  Cross(v, Minus(p, Padded(s)[i])) <= 0 /\ Cross(v, Minus(p, Padded(t)[j])) <= 0
<1> DEFINE f == Padded(s)
           g == Padded(t)
           v == Minus(g[j], f[i])
<1>1. f[i] \in Points(b, n) /\ g[j] \in Points(b + n, m)
  BY StoredHull
<1>2. Part(b, n) /\ Part(b + n, m)
  BY DEF Stored
<1>3. p \in Points(b, n) \/ p \in Points(b + n, m)
  BY <1>2, NextPart
<1>4. f[i] \in Vec /\ g[j] \in Vec /\ p \in Vec
  BY <1>1, <1>2, <1>3, PartPoints
<1>5. v \in Vec
  BY <1>4, Vectors
<1>6. /\ \A k \in Inner : Cross(v, Edge(f, k)) <= 0 <=> k > i
      /\ \A k \in Inner : Cross(v, Edge(g, k)) <= 0 <=> k > j
  BY DEF IsTangent
<1>7. v[1] > 0
  OBVIOUS
<1>8. p \in Points(b, n) => Cross(v, Minus(p, f[i])) <= 0
  <2> HIDE DEF v
  <2> QED  BY <1>5, <1>6, <1>7, UnderLine
<1>9. p \in Points(b + n, m) => Cross(v, Minus(p, g[j])) <= 0
  <2> HIDE DEF v
  <2> QED  BY <1>5, <1>6, <1>7, UnderLine
<1>10. Cross(v, Minus(p, f[i])) = Cross(v, Minus(p, g[j])) + Cross(v, v) /\ Cross(v, v) = 0
  <2> v = Minus(g[j], f[i])
    OBVIOUS
  <2> HIDE DEF v
  <2> QED  BY <1>4, <1>5, CrossSums
<1>11. Cross(v, Minus(p, f[i])) \in Int /\ Cross(v, Minus(p, g[j])) \in Int
  BY <1>4, <1>5, Vectors
<1> HIDE DEF v
<1>12. Cross(v, Minus(p, f[i])) <= 0 /\ Cross(v, Minus(p, g[j])) <= 0
  BY <1>3, <1>8, <1>9, <1>10, <1>11, SMT
<1> QED  BY <1>12 DEF v, f, g

\* ... above any edge of the first one before it, ...
LEMMA UnderFirst ==
  ASSUME NEW s, NEW d, NEW t, NEW e, NEW b, NEW n, NEW m, Stored(s, d, b, n), Stored(t, e, b + n, m),
         NEW i \in 0 .. d - 1, NEW j \in 0 .. Len(t) - 1,
         IsTangent(Padded(s), Padded(t), i, j), Minus(Padded(t)[j], Padded(s)[i])[1] > 0,
         NEW p \in Points(b, n + m), NEW k \in 1 .. i
  PROVE  Cross(Edge(Padded(s), k), Minus(p, Padded(s)[k - 1])) <= 0
<1> DEFINE f == Padded(s)
           g == Padded(t)
           v == Minus(g[j], f[i])
           a == Edge(f, k)
<1>1. /\ PaddedHull(f, d) /\ d \in 1 .. Len(s) /\ Len(s) \in 1 .. MAX_HULL
      /\ \A l \in 0 .. Len(s) - 1 : f[l] \in Points(b, n)
      /\ g[j] \in Points(b + n, m)
      /\ \A l \in 1 .. Len(s) - 1, o \in Points(b, n) :
           l \in Inner /\ Cross(Edge(f, l), Minus(o, f[l - 1])) <= 0
  BY StoredHull
<1>2. Part(b, n) /\ Part(b + n, m)
  BY DEF Stored
<1>3. /\ i \in 0 .. Len(s) - 1 /\ k \in 1 .. Len(s) - 1 /\ k - 1 \in 0 .. Len(s) - 1
      /\ k < d /\ ~ (k > i)
  BY <1>1, Sizes, SMT
<1>4. f[i] \in Points(b, n) /\ f[k - 1] \in Points(b, n) /\ k \in Inner
  BY <1>1, <1>3
<1>5. CASE p \in Points(b, n)
  BY <1>1, <1>3, <1>5
<1>6. CASE p \in Points(b + n, m)
  <2>1. f[i] \in Vec /\ g[j] \in Vec /\ p \in Vec /\ f[k - 1] \in Vec
    BY <1>1, <1>2, <1>4, <1>6, PartPoints
  <2>2. a \in Vec /\ a[1] > 0
    BY <1>1, <1>3, <1>4, PaddedEdges
  <2>3. v \in Vec /\ v[1] > 0 /\ Minus(p, f[i]) \in Vec
    BY <2>1, Vectors
  <2>4. ~ (Cross(v, a) <= 0)
    BY <1>3, <1>4 DEF IsTangent
  <2>5. Cross(v, Minus(p, f[i])) <= 0
    BY <1>3, UnderJoint
  <2>6. f[i][1] <= p[1]
    BY <1>2, <1>4, <1>6, NextPart
  <2>7. Minus(p, f[i])[1] >= 0
    <3>1. Minus(p, f[i])[1] = p[1] - f[i][1] /\ p[1] \in Int /\ f[i][1] \in Int
      BY <2>1, Vectors DEF Vec
    <3> QED  BY <2>6, <3>1, SMT
  <2> HIDE DEF v, a
  <2>8. Cross(a, v) <= 0
    BY <2>2, <2>3, <2>4, Vectors, SMT
  <2>9. Cross(a, Minus(p, f[i])) <= 0
    BY <2>2, <2>3, <2>5, <2>7, <2>8, Steeper
  <2>10. Cross(a, Minus(f[i], f[k - 1])) <= 0
    BY <1>1, <1>3, <1>4 DEF a
  <2>11. Cross(a, Minus(p, f[k - 1])) = Cross(a, Minus(p, f[i])) + Cross(a, Minus(f[i], f[k - 1]))
    BY <2>1, <2>2, CrossSums
  <2>12. Cross(a, Minus(p, f[i])) \in Int /\ Cross(a, Minus(f[i], f[k - 1])) \in Int
    BY <2>1, <2>2, Vectors
  <2>13. Cross(a, Minus(p, f[k - 1])) <= 0
    BY <2>9, <2>10, <2>11, <2>12, SMT
  <2> QED  BY <2>13 DEF a
<1> QED  BY <1>2, <1>5, <1>6, NextPart

\* ... or above any edge of the second one after it.
LEMMA UnderSecond ==
  ASSUME NEW s, NEW d, NEW t, NEW e, NEW b, NEW n, NEW m, Stored(s, d, b, n), Stored(t, e, b + n, m),
         NEW i \in 0 .. Len(s) - 1, NEW j \in 0 .. Len(t) - 1,
         IsTangent(Padded(s), Padded(t), i, j), Minus(Padded(t)[j], Padded(s)[i])[1] > 0,
         NEW p \in Points(b, n + m), NEW k \in j + 1 .. Len(t) - 1
  PROVE  Cross(Edge(Padded(t), k), Minus(p, Padded(t)[k - 1])) <= 0
<1> DEFINE f == Padded(s)
           g == Padded(t)
           v == Minus(g[j], f[i])
           a == Edge(g, k)
           w == Minus(g[j], p)
<1>1. /\ PaddedHull(g, e) /\ Len(t) \in 1 .. MAX_HULL
      /\ f[i] \in Points(b, n)
      /\ \A l \in 0 .. Len(t) - 1 : g[l] \in Points(b + n, m)
      /\ \A l \in 1 .. Len(t) - 1, o \in Points(b + n, m) :
           l \in Inner /\ Cross(Edge(g, l), Minus(o, g[l - 1])) <= 0
  BY StoredHull
<1>2. Part(b, n) /\ Part(b + n, m)
  BY DEF Stored
<1>3. k \in 1 .. Len(t) - 1 /\ k - 1 \in 0 .. Len(t) - 1 /\ k > j
  BY <1>1, Sizes, SMT
<1>4. g[j] \in Points(b + n, m) /\ g[k - 1] \in Points(b + n, m) /\ k \in Inner
  BY <1>1, <1>3
<1>5. CASE p \in Points(b + n, m)
  BY <1>1, <1>3, <1>5
<1>6. CASE p \in Points(b, n) /\ p # g[j]
  <2>1. f[i] \in Vec /\ g[j] \in Vec /\ p \in Vec /\ g[k - 1] \in Vec
    BY <1>1, <1>2, <1>4, <1>6, PartPoints
  <2>2. a \in Vec /\ a[1] >= 0
    <3>1. g[k - 1][1] <= g[k][1]
      <4>1. k \in Index /\ k - 1 \in Index /\ k - 1 <= k
        BY <1>4, Sizes, SMT
      <4> QED  BY <1>1, <4>1, LeftToRight
    <3>2. a \in Vec /\ a[1] = g[k][1] - g[k - 1][1] /\ g \in [Index -> Vec]
      BY <1>1, <1>4, PaddedEdges
    <3>3. k \in Index /\ k - 1 \in Index
      BY <1>4, Sizes
    <3>4. g[k][1] \in Int /\ g[k - 1][1] \in Int
      BY <3>2, <3>3 DEF Vec
    <3> QED  BY <3>1, <3>2, <3>4, SMT
  <2>3. v \in Vec /\ v[1] > 0 /\ w \in Vec
    BY <2>1, Vectors
  <2>4. Cross(v, a) <= 0
    BY <1>3, <1>4 DEF IsTangent
  <2>5. Cross(v, Minus(p, g[j])) <= 0
    BY UnderJoint
  <2>6. p[1] <= g[j][1] /\ p[1] # g[j][1]
    BY <1>2, <1>4, <1>6, NextPart
  <2>7. w[1] > 0
    <3>1. w[1] = g[j][1] - p[1] /\ p[1] \in Int /\ g[j][1] \in Int
      BY <2>1, Vectors DEF Vec
    <3> QED  BY <2>6, <3>1, SMT
  <2>8. Cross(v, Minus(p, g[j])) = - Cross(v, w) /\ Cross(a, Minus(p, g[j])) = - Cross(a, w)
    BY <2>1, <2>2, <2>3, CrossSums
  <2> HIDE DEF v, a, w
  <2>9. Cross(w, v) <= 0
    BY <2>3, <2>5, <2>8, Vectors, SMT
  <2>10. Cross(w, a) <= 0
    BY <2>2, <2>3, <2>4, <2>7, <2>9, Steeper
  <2>11. Cross(a, Minus(p, g[j])) <= 0
    BY <2>2, <2>3, <2>8, <2>10, Vectors, SMT
  <2>12. Cross(a, Minus(g[j], g[k - 1])) <= 0
    BY <1>1, <1>3, <1>4 DEF a
  <2>13. Cross(a, Minus(p, g[k - 1])) = Cross(a, Minus(p, g[j])) + Cross(a, Minus(g[j], g[k - 1]))
    BY <2>1, <2>2, CrossSums
  <2>14. Cross(a, Minus(p, g[j])) \in Int /\ Cross(a, Minus(g[j], g[k - 1])) \in Int
    BY <2>1, <2>2, Vectors
  <2>15. Cross(a, Minus(p, g[k - 1])) <= 0
    BY <2>11, <2>12, <2>13, <2>14, SMT
  <2> QED  BY <2>15 DEF a
<1> QED  BY <1>2, <1>4, <1>5, <1>6, NextPart

\* Hence the joint of two hulls along their tangent is a hull of the two parts.
LEMMA JointIsHull ==
  ASSUME NEW s, NEW d, NEW t, NEW e, NEW b, NEW n, NEW m, Stored(s, d, b, n), Stored(t, e, b + n, m),
         NEW i \in 0 .. d - 1, NEW j \in 0 .. e - 1,
         IsTangent(Padded(s), Padded(t), i, j), Minus(Padded(t)[j], Padded(s)[i])[1] > 0
  PROVE  IsHullOf(Joint(s, t, i, j), b, n + m) /\ Shape(Joint(s, t, i, j), i + 1 + (e - j))
<1> DEFINE f == Padded(s)
           g == Padded(t)
           u == Joint(s, t, i, j)
           len == i + 1 + (Len(t) - j)
           c == i + 1 + (e - j)
<1>1. /\ PaddedHull(f, d) /\ d \in 1 .. Len(s) /\ Len(s) \in 1 .. MAX_HULL
      /\ PaddedHull(g, e) /\ e \in 1 .. Len(t) /\ Len(t) \in 1 .. MAX_HULL
      /\ \A k \in 0 .. Len(t) - 1 : k \in Index /\ Padded(t)[k] = t[k + 1]
  BY StoredHull
<1>2. Part(b, n) /\ Part(b + n, m)
  BY DEF Stored
<1>3. Part(b, n + m)
  BY <1>2, NextPart
<1>4. /\ i \in 0 .. Len(s) - 1 /\ j \in 0 .. Len(t) - 1 /\ i \in Int /\ j \in Int
      /\ d \in Int /\ e \in Int /\ Len(s) \in Int /\ Len(t) \in Int /\ MAX_HULL \in Int
  BY <1>1, Sizes, SMT
<1>5. /\ Len(u) = len /\ len \in Nat /\ len > i + 1
      /\ u[1] = original[b] /\ u[len] = original[b + (n + m) - 1]
      /\ \A x \in 1 .. i + 1 : u[x] = f[x - 1]
      /\ \A x \in i + 2 .. len : u[x] = g[x - (i + 1) + j - 1]
      /\ \A x \in 1 .. len : u[x] \in Points(b, n + m)
  BY <1>4, JointIs
<1>6. \A k \in 1 .. i, p \in Points(b, n + m) : Cross(Edge(f, k), Minus(p, f[k - 1])) <= 0
  BY UnderFirst, <1>4
<1>7. \A p \in Points(b, n + m) : Cross(Minus(g[j], f[i]), Minus(p, f[i])) <= 0
  BY UnderJoint, <1>4
<1>8. \A k \in j + 1 .. Len(t) - 1, p \in Points(b, n + m) : Cross(Edge(g, k), Minus(p, g[k - 1])) <= 0
  BY UnderSecond, <1>4
<1>9. t[Len(t)] = t[e] /\ (\A x \in e + 1 .. Len(t) : t[x] = t[e] /\ t[e][2] = 0)
  <2>1. \A x \in e + 1 .. Len(t) : t[x] = t[e] /\ t[e][2] = 0
    BY DEF Stored, Shape
  <2>2. Len(t) = e \/ Len(t) \in e + 1 .. Len(t)
    BY <1>1, <1>4, SMT
  <2> QED  BY <2>1, <2>2
<1>10. /\ \A k \in 1 .. d - 1 : f[k - 1][1] < f[k][1]
       /\ \A k \in 1 .. e - 1 : g[k - 1][1] < g[k][1]
  BY <1>1 DEF PaddedHull
<1>11. Minus(g[j], f[i])[1] > 0
  OBVIOUS
<1>12. f[i] \in Vec /\ g[j] \in Vec
  <2>1. f[i] \in Points(b, n) /\ g[j] \in Points(b + n, m)
    BY <1>4, StoredHull
  <2> QED  BY <1>2, <2>1, PartPoints
<1>13. f[i][1] < g[j][1]
  <2>1. Minus(g[j], f[i])[1] = g[j][1] - f[i][1] /\ f[i][1] \in Int /\ g[j][1] \in Int
    BY <1>12, Vectors DEF Vec
  <2> QED  BY <1>11, <2>1, SMT
<1> HIDE DEF u, f, g
\* The three kinds of edges.
<1>14. ASSUME NEW x \in 1 .. len - 1
       PROVE  /\ u[x] \in Points(b, n + m) /\ u[x + 1] \in Points(b, n + m)
              /\ \A p \in Points(b, n + m) : Cross(Minus(u[x + 1], u[x]), Minus(p, u[x])) <= 0
              /\ x < c => u[x][1] < u[x + 1][1]
  <2>1. x \in 1 .. len /\ x + 1 \in 1 .. len
    BY <1>4, <1>5, SMT
  <2>2. u[x] \in Points(b, n + m) /\ u[x + 1] \in Points(b, n + m)
    BY <1>5, <2>1
  <2>3. CASE x <= i
    <3>1. x \in 1 .. i + 1 /\ x + 1 \in 1 .. i + 1 /\ (x + 1) - 1 = x /\ x \in 1 .. i /\ x \in 1 .. d - 1
      BY <1>4, <2>1, <2>3, SMT
    <3>2. u[x] = f[x - 1] /\ u[x + 1] = f[x]
      BY <1>5, <3>1
    <3> QED  BY <1>6, <1>10, <2>2, <3>1, <3>2 DEF Edge
  <2>4. CASE x = i + 1
    <3>1. /\ x \in 1 .. i + 1 /\ x + 1 \in i + 2 .. len /\ x - 1 = i
          /\ (x + 1) - (i + 1) + j - 1 = j
      BY <1>4, <1>5, <2>1, <2>4, SMT
    <3>2. u[x] = f[i] /\ u[x + 1] = g[j]
      BY <1>5, <3>1
    <3> QED  BY <1>7, <1>13, <2>2, <3>2
  <2>5. CASE x > i + 1
    <3> DEFINE k == x - (i + 1) + j
    <3>1. /\ x \in i + 2 .. len /\ x + 1 \in i + 2 .. len
          /\ (x + 1) - (i + 1) + j - 1 = k /\ k \in j + 1 .. Len(t) - 1
          /\ (x < c => k \in 1 .. e - 1)
      BY <1>4, <2>1, <2>5, SMT
    <3>2. u[x] = g[k - 1] /\ u[x + 1] = g[k]
      BY <1>5, <3>1
    <3> HIDE DEF k
    <3> QED  BY <1>8, <1>10, <2>2, <3>1, <3>2 DEF Edge
  <2> QED  BY <1>4, <2>1, <2>3, <2>4, <2>5, SMT
<1>15. IsHullOf(u, b, n + m)
  <2>1. Len(u) > 0 /\ Len(u) = len
    BY <1>4, <1>5, SMT
  <2> QED  BY <1>5, <1>14, <2>1 DEF IsHullOf, Points
<1>16. c \in 1 .. Len(u) /\ Len(u) = len
  BY <1>1, <1>4, <1>5, SMT
<1>17. \A x \in 1 .. Len(u) : u[x] \in Coordinate \X Coordinate /\ u[x] \in Vec
  BY <1>3, <1>5, PartPoints
<1>18. \A x \in 1 .. c - 1 : u[x][1] < u[x + 1][1]
  <2> TAKE x \in 1 .. c - 1
  <2>1. x \in 1 .. len - 1 /\ x < c
    BY <1>1, <1>4, SMT
  <2> QED  BY <1>14, <2>1
<1>19. ASSUME NEW x \in 2 .. c - 1
       PROVE  Cross(Minus(u[x], u[x - 1]), Minus(u[x + 1], u[x])) <= 0
  <2>1. x \in 1 .. len - 1 /\ x - 1 \in 1 .. len - 1 /\ (x - 1) + 1 = x
        /\ x \in 1 .. len /\ x - 1 \in 1 .. len /\ x + 1 \in 1 .. len
    BY <1>1, <1>4, SMT
  <2> DEFINE a == Minus(u[x], u[x - 1])
  <2>2. Cross(a, Minus(u[x + 1], u[x - 1])) <= 0
    BY <1>14, <2>1
  <2>3. u[x] \in Vec /\ u[x - 1] \in Vec /\ u[x + 1] \in Vec
    BY <1>16, <1>17, <2>1
  <2>4. a \in Vec /\ a = Minus(u[x], u[x - 1])
    BY <2>3, Vectors
  <2> HIDE DEF a
  <2>5. Cross(a, Minus(u[x + 1], u[x - 1])) = Cross(a, Minus(u[x + 1], u[x])) + Cross(a, a)
    BY <2>3, <2>4, CrossSums
  <2>6. Cross(a, a) = 0 /\ Cross(a, Minus(u[x + 1], u[x])) \in Int
    BY <2>3, <2>4, CrossSums, Vectors
  <2>7. Cross(a, Minus(u[x + 1], u[x])) <= 0
    BY <2>2, <2>5, <2>6, SMT
  <2> QED  BY <2>4, <2>7
<1>20. ASSUME NEW x \in c + 1 .. Len(u) PROVE u[x] = u[c] /\ u[c][2] = 0
  <2> DEFINE k == x - (i + 1) + j
  <2>1. /\ x \in i + 2 .. len /\ c \in i + 2 .. len
        /\ k - 1 \in 0 .. Len(t) - 1 /\ e - 1 \in 0 .. Len(t) - 1
        /\ (k - 1) + 1 = k /\ (e - 1) + 1 = e /\ c - (i + 1) + j - 1 = e - 1
        /\ k \in e + 1 .. Len(t)
    BY <1>1, <1>4, <1>16, SMT
  <2> HIDE DEF len, c
  <2>2. u[x] = g[k - 1] /\ u[c] = g[e - 1]
    <3>1. u[c] = g[e - 1]
      BY <1>5, <2>1
    <3>2. u[x] = g[x - (i + 1) + j - 1]
      BY <1>5, <2>1
    <3> QED  BY <3>1, <3>2
  <2> HIDE DEF k
  <2>3. g[k - 1] = t[k] /\ g[e - 1] = t[e]
    BY <1>1, <2>1 DEF g
  <2> QED  BY <1>9, <2>1, <2>2, <2>3
<1>21. Shape(u, c)
  BY <1>16, <1>17, <1>18, <1>19, <1>20 DEF Shape
<1> QED  BY <1>15, <1>21 DEF u

LEMMA JointFew ==
  ASSUME NEW s, NEW d, NEW t, NEW e, NEW b, NEW n, NEW m, Stored(s, d, b, n), Stored(t, e, b + n, m),
         NEW i \in 0 .. d - 1, NEW j \in 0 .. e - 1, NEW z \in Nat, Few(t, e, z)
  PROVE  Few(Joint(s, t, i, j), i + 1 + (e - j), z + 1)
<1>1. /\ d \in 1 .. Len(s) /\ Len(s) \in 1 .. MAX_HULL
      /\ e \in 1 .. Len(t) /\ Len(t) \in 1 .. MAX_HULL
  BY StoredHull
<1>2. /\ i \in 0 .. Len(s) - 1 /\ j \in 0 .. Len(t) - 1
      /\ i \in Nat /\ j \in Nat /\ e \in Nat /\ j < e /\ Len(t) \in Nat
  BY <1>1, Sizes, SMT
<1>3. Len(Joint(s, t, i, j)) = i + 1 + (Len(t) - j)
  BY <1>2, JointIs
<1>4. Len(t) <= e + (z + 1)
  BY <1>2, SMT DEF Few
<1>5. i + 1 + (Len(t) - j) <= i + 1 + (e - j) + (z + 1) /\ i + 1 + (e - j) # 1
  BY <1>2, <1>4, SMT
<1> QED  BY <1>3, <1>5 DEF Few

\* Where the first part is one point, the one in which the parts meet.
LEMMA JointAtPoint ==
  ASSUME NEW s, NEW t, NEW e, NEW b, NEW n, NEW m, Stored(s, 1, b, n), Stored(t, e, b + n, m),
         original[b + n - 1] = original[b + n]
  PROVE  IsHullOf(Joint(s, t, 0, 0), b, n + m)
<1> DEFINE f == Padded(s)
           g == Padded(t)
           u == Joint(s, t, 0, 0)
           len == 0 + 1 + (Len(t) - 0)
<1>1. /\ Len(s) \in 1 .. MAX_HULL /\ Len(t) \in 1 .. MAX_HULL
      /\ \A k \in 1 - 1 .. Len(s) - 1 : f[k] = original[b + n - 1]
      /\ f[0] = original[b] /\ g[0] = original[b + n]
      /\ \A k \in 1 .. Len(t) - 1, p \in Points(b + n, m) :
           k \in Inner /\ Cross(Edge(g, k), Minus(p, g[k - 1])) <= 0
      /\ \A k \in 0 .. Len(t) - 1 : g[k] \in Points(b + n, m)
  BY StoredHull
<1>2. Part(b, n) /\ Part(b + n, m)
  BY DEF Stored
<1>3. 0 \in 0 .. Len(s) - 1 /\ 0 \in 0 .. Len(t) - 1 /\ 0 \in 1 - 1 .. Len(s) - 1 /\ Len(t) \in Nat
  BY <1>1, Sizes, SMT
<1>4. original[b] = original[b + n - 1] /\ f[0] = g[0]
  BY <1>1, <1>3
<1>5. Points(b, n) \subseteq Points(b + n, m)
  <2> SUFFICES ASSUME NEW p \in Points(b, n) PROVE p \in Points(b + n, m)
    OBVIOUS
  <2>1. /\ original[b][1] <= p[1] /\ p[1] <= original[b][1]
        /\ original[b] \in Points(b, n) /\ original[b] \in Vec /\ p \in Vec
    BY <1>2, <1>4, PartPoints
  <2>2. p[1] = original[b][1]
    <3>1. p[1] \in Int /\ original[b][1] \in Int
      BY <2>1 DEF Vec
    <3> QED  BY <2>1, <3>1, SMT
  <2>3. p = original[b]
    BY <1>2, <2>1, <2>2, PartPoints
  <2>4. original[b + n] \in Points(b + n, m)
    BY <1>2, PartPoints
  <2> QED  BY <1>4, <2>3, <2>4
<1>6. Points(b, n + m) = Points(b + n, m)
  <2>1. Points(b, n + m) = Points(b, n) \cup Points(b + n, m)
    BY <1>2, NextPart
  <2> QED  BY <1>5, <2>1
<1>7. /\ Len(u) = len /\ len \in Nat /\ len > 0 + 1
      /\ u[1] = original[b] /\ u[len] = original[b + (n + m) - 1]
      /\ \A x \in 1 .. 0 + 1 : u[x] = f[x - 1]
      /\ \A x \in 0 + 2 .. len : u[x] = g[x - (0 + 1) + 0 - 1]
      /\ \A x \in 1 .. len : u[x] \in Points(b, n + m)
  BY <1>3, JointIs
<1> HIDE DEF u, f, g
<1>8. ASSUME NEW x \in 1 .. len - 1
      PROVE  /\ u[x] \in Points(b, n + m)
             /\ \A p \in Points(b, n + m) : Cross(Minus(u[x + 1], u[x]), Minus(p, u[x])) <= 0
  <2>1. x \in 1 .. len
    BY <1>3, SMT
  <2>2. CASE x = 1
    <3>1. 1 \in 1 .. 0 + 1 /\ 1 - 1 = 0 /\ 2 \in 0 + 2 .. len /\ 2 - (0 + 1) + 0 - 1 = 0
      BY <1>3, <1>7, SMT
    <3>2. u[1] = g[0] /\ u[2] = g[0]
      BY <1>4, <1>7, <3>1
    <3>3. g[0] \in Vec /\ \A p \in Points(b, n + m) : p \in Vec
      BY <1>1, <1>2, <1>3, <1>6, PartPoints
    <3>4. ASSUME NEW p \in Points(b, n + m) PROVE Cross(Minus(g[0], g[0]), Minus(p, g[0])) <= 0
      <4>1. Minus(p, g[0]) \in Vec /\ Minus(g[0], g[0]) \in Vec
        BY <3>3, <3>4, Vectors
      <4>2. /\ Cross(Minus(p, g[0]), Minus(g[0], g[0])) = 0
            /\ Cross(Minus(g[0], g[0]), Minus(p, g[0])) = - Cross(Minus(p, g[0]), Minus(g[0], g[0]))
        BY <3>3, <4>1, CrossSums, Vectors
      <4> QED  BY <4>2, SMT
    <3>5. 1 + 1 = 2
      OBVIOUS
    <3> QED  BY <1>7, <2>1, <2>2, <3>2, <3>4, <3>5
  <2>3. CASE x # 1
    <3> DEFINE k == x - 1
    <3>1. /\ x \in 0 + 2 .. len /\ x + 1 \in 0 + 2 .. len /\ k \in 1 .. Len(t) - 1
          /\ x - (0 + 1) + 0 - 1 = k - 1 /\ (x + 1) - (0 + 1) + 0 - 1 = k
      BY <1>3, <2>3, SMT
    <3>2. u[x] = g[x - (0 + 1) + 0 - 1] /\ u[x + 1] = g[(x + 1) - (0 + 1) + 0 - 1]
      BY <1>7, <3>1
    <3> HIDE DEF k
    <3>3. u[x] = g[k - 1] /\ u[x + 1] = g[k]
      BY <3>1, <3>2
    <3> QED  BY <1>1, <1>6, <1>7, <2>1, <3>1, <3>3 DEF Edge
  <2> QED  BY <2>2, <2>3
<1>9. Len(u) > 0
  BY <1>7, <1>3, SMT
<1>10. IsHullOf(u, b, n + m)
  BY <1>7, <1>8, <1>9 DEF IsHullOf, Points
<1> QED  BY <1>10 DEF u

\* n points from the one of index b on which belong to one half of the input.
OneHalf(b, n) ==
  \E lo \in Nat, hi \in Slot : lo <= b /\ b + n - 1 <= hi /\ Settles(original, lo, hi)

\* If two parts of one half meet in a point, the second one is that point.
LEMMA AllTheSame ==
  ASSUME NEW b, NEW n, NEW m, Part(b, n), Part(b + n, m), OneHalf(b, n + m),
         original[b + n - 1] = original[b + n]
  PROVE  /\ \A p \in Points(b + n, m) : p = original[b + n]
         /\ original[b + n][2] = 0
<1>1. PICK lo \in Nat, hi \in Slot : lo <= b /\ b + (n + m) - 1 <= hi /\ Settles(original, lo, hi)
  BY DEF OneHalf
<1>2. b \in Nat /\ n \in Nat \ {0} /\ m \in Nat \ {0} /\ (b + n) + m <= POINTS /\ original \in Inputs
  BY DEF Part
<1>3. /\ b + n - 1 \in lo .. hi - 1 /\ (b + n - 1) + 1 = b + n /\ hi \in Nat
      /\ \A x \in lo .. hi : x \in Slot
      /\ \A x \in b + n .. (b + n) + m - 1 : x \in b + n - 1 .. hi
  BY <1>1, <1>2, Powers, SMT
<1>4. \A x \in lo .. hi : original[x][1] \in Nat
  BY <1>2, <1>3, Ordered, CoordinateInt
<1>5. \A j \in b + n - 1 .. hi : original[j] = original[b + n - 1] /\ original[b + n - 1][2] = 0
  BY <1>1, <1>3, <1>4, Repeats
<1>6. b + n \in b + n .. (b + n) + m - 1
  BY <1>2, SMT
<1> QED  BY <1>3, <1>5, <1>6 DEF Points

\* What the searcher returns for two hulls joins them to a hull of the two
\* parts; and, unless the two halves of the input have met, to one it can be
\* given again, with one repeated point more at most.
LEMMA MergeIsHull ==
  ASSUME NEW s, NEW d, NEW t, NEW e, NEW b, NEW n, NEW m, Stored(s, d, b, n), Stored(t, e, b + n, m),
         NEW z \in Nat, Few(s, d, z), Few(t, e, z)
  PROVE  \E i \in 0 .. Len(s) - 1, j \in 0 .. Len(t) - 1 :
           /\ TangentIndices(Padded(s), Padded(t)) = <<i, j>>
           /\ IsHullOf(Joint(s, t, i, j), b, n + m)
           /\ OneHalf(b, n + m) =>
                \E c : Shape(Joint(s, t, i, j), c) /\ Few(Joint(s, t, i, j), c, z + 1)
<1> DEFINE f == Padded(s)
           g == Padded(t)
<1>1. /\ PaddedHull(f, d) /\ PaddedHull(g, e)
      /\ d \in 1 .. Len(s) /\ e \in 1 .. Len(t) /\ Len(s) \in 1 .. MAX_HULL /\ Len(t) \in 1 .. MAX_HULL
      /\ \A k \in d - 1 .. Len(s) - 1 : f[k] = original[b + n - 1]
      /\ g[0] = original[b + n]
  <2>1. /\ PaddedHull(f, d) /\ d \in 1 .. Len(s) /\ Len(s) \in 1 .. MAX_HULL
        /\ \A k \in d - 1 .. Len(s) - 1 : f[k] = original[b + n - 1]
    BY StoredHull
  <2>2. /\ PaddedHull(g, e) /\ e \in 1 .. Len(t) /\ Len(t) \in 1 .. MAX_HULL
        /\ g[0] = original[b + n]
    BY StoredHull
  <2> QED  BY <2>1, <2>2
<1>2. Part(b, n) /\ Part(b + n, m)
  BY DEF Stored
<1>3. /\ d - 1 \in d - 1 .. Len(s) - 1 /\ 0 \in 0 .. Len(s) - 1 /\ 0 \in 0 .. Len(t) - 1
      /\ 0 .. d - 1 \subseteq 0 .. Len(s) - 1 /\ 0 .. e - 1 \subseteq 0 .. Len(t) - 1
      /\ 0 .. d - 2 \subseteq 0 .. d - 1 /\ Len(t) \in Nat
  <2>1. Len(s) \in Nat /\ Len(t) \in Nat /\ Len(t) >= 1
    BY <1>1, Sizes, SMT
  <2>2. d \in Int /\ 1 <= d /\ d <= Len(s) /\ e \in Int /\ 1 <= e /\ e <= Len(t)
    BY <1>1, <2>1, SMT
  <2> HIDE DEF f, g
  <2>3. d - 1 \in d - 1 .. Len(s) - 1 /\ 0 \in 0 .. Len(s) - 1 /\ 0 \in 0 .. Len(t) - 1
    BY <2>1, <2>2, SMT
  <2>4. 0 .. d - 1 \subseteq 0 .. Len(s) - 1 /\ 0 .. e - 1 \subseteq 0 .. Len(t) - 1
    BY <2>1, <2>2, SMT
  <2>5. 0 .. d - 2 \subseteq 0 .. d - 1
    BY <2>1, <2>2, SMT
  <2> QED  BY <2>1, <2>3, <2>4, <2>5
<1>4. f[d - 1] = original[b + n - 1]
  BY <1>1, <1>3
<1>5. /\ original[b + n - 1] # original[b + n] => original[b + n - 1][1] < original[b + n][1]
      /\ original[b + n - 1] = original[b + n] => original[b + n][2] = 0
  BY <1>2, NextPart
<1> HIDE DEF f, g
<1>6. CASE original[b + n - 1] # original[b + n]
  <2>1. Apart(f, d, g, e)
    BY <1>1, <1>4, <1>5, <1>6 DEF Apart
  <2>2. PICK i \in 0 .. d - 1, j \in 0 .. e - 1 :
          IsTangent(f, g, i, j) /\ TangentIndices(f, g) = <<i, j>>
    BY <2>1, TangentFound
  <2>3. Minus(g[j], f[i])[1] > 0
    BY <2>1, <2>2, Between DEF IsTangent
  <2>4. IsHullOf(Joint(s, t, i, j), b, n + m) /\ Shape(Joint(s, t, i, j), i + 1 + (e - j))
    BY <2>2, <2>3, JointIsHull DEF f, g
  <2>5. Few(Joint(s, t, i, j), i + 1 + (e - j), z + 1)
    BY <2>2, JointFew
  <2> QED  BY <1>3, <2>2, <2>4, <2>5 DEF f, g
<1>7. CASE original[b + n - 1] = original[b + n] /\ d # 1
  <2>1. Meet(f, d, g, e)
    BY <1>1, <1>4, <1>5, <1>7 DEF Meet
  <2>2. PICK i \in 0 .. d - 2, j \in 0 .. e - 1 :
          /\ IsTangent(f, g, i, j) /\ Minus(g[j], f[i])[1] > 0
          /\ TangentIndices(f, g) = <<i, j>>
    BY <1>7, <2>1, MeetFound
  <2>3. i \in 0 .. d - 1
    BY <1>3
  <2>4. IsHullOf(Joint(s, t, i, j), b, n + m) /\ Shape(Joint(s, t, i, j), i + 1 + (e - j))
    BY <2>2, <2>3, JointIsHull DEF f, g
  <2>5. Few(Joint(s, t, i, j), i + 1 + (e - j), z + 1)
    BY <2>3, JointFew
  <2> QED  BY <1>3, <2>2, <2>3, <2>4, <2>5 DEF f, g
<1>8. CASE original[b + n - 1] = original[b + n] /\ d = 1
  <2>1. Meet(f, 1, g, e)
    BY <1>1, <1>4, <1>5, <1>8 DEF Meet
  <2>2. TangentIndices(f, g) = <<0, 0>>
    BY <2>1, MeetPoint
  <2>3. IsHullOf(Joint(s, t, 0, 0), b, n + m)
    BY <1>8, JointAtPoint
  <2>4. ASSUME OneHalf(b, n + m) PROVE Shape(Joint(s, t, 0, 0), 1) /\ Few(Joint(s, t, 0, 0), 1, z + 1)
    <3> DEFINE u == Joint(s, t, 0, 0)
               len == 0 + 1 + (Len(t) - 0)
               o == original[b + n]
    <3>1. Len(u) = len /\ \A x \in 1 .. len : u[x] \in Points(b, n + m)
      <4>1. 0 \in 0 .. Len(s) - 1 /\ 0 \in 0 .. Len(t) - 1
        BY <1>3
      <4> HIDE DEF f, g
      <4> QED  BY <4>1, JointIs
    <3>2. o[2] = 0 /\ \A p \in Points(b + n, m) : p = o
      BY <1>2, <1>8, <2>4, AllTheSame
    <3>3. /\ \A p \in Points(b, n) : original[b][1] <= p[1] /\ p[1] <= original[b + n - 1][1]
          /\ original[b] \in Points(b, n) /\ Points(b, n) \subseteq Vec
          /\ \A p \in Points(b, n) : original[b][1] = p[1] => original[b] = p
      BY <1>2, PartPoints
    <3>4. original[b] = o
      <4>1. f[0] = original[b]
        BY StoredHull DEF f
      <4>2. d - 1 = 0
        BY <1>8
      <4> QED  BY <1>4, <1>8, <4>1, <4>2
    <3> HIDE DEF u, o
    <3>5. \A p \in Points(b, n) : p = o
      <4> TAKE p \in Points(b, n)
      <4>1. original[b][1] <= p[1] /\ p[1] <= original[b][1]
        BY <1>8, <3>3, <3>4 DEF o
      <4>2. original[b][1] \in Int /\ p[1] \in Int
        BY <3>3 DEF Vec
      <4>3. original[b][1] = p[1]
        BY <4>1, <4>2, SMT
      <4> QED  BY <3>3, <3>4, <4>3
    <3>6. \A p \in Points(b, n + m) : p = o
      BY <1>2, <3>2, <3>5, NextPart
    <3>7. \A p \in Points(b, n + m) : p \in Coordinate \X Coordinate
      <4>1. Part(b, n + m)
        BY <1>2, NextPart
      <4> QED  BY <4>1, PartPoints
    <3>8. 1 \in 1 .. Len(u) /\ Len(u) = len /\ 1 \in 1 .. len /\ 1 .. 1 - 1 = {} /\ 2 .. 1 - 1 = {}
          /\ \A x \in 1 + 1 .. len : x \in 1 .. len
      BY <1>3, <3>1, SMT
    <3>9. \A x \in 1 .. len : u[x] = o /\ u[x] \in Coordinate \X Coordinate
      BY <3>1, <3>6, <3>7
    <3> HIDE DEF len
    <3>10. Shape(u, 1)
      BY <3>2, <3>8, <3>9, Zenon DEF Shape
    <3>11. Len(t) <= 1 + (z + 1)
      <4>1. CASE e = 1
        BY <4>1 DEF Few
      <4>2. CASE e # 1
        <5>1. 1 \in 1 .. e - 1 /\ 0 \in 0 .. Len(t) - 1 /\ 1 \in 0 .. Len(t) - 1 /\ 1 - 1 = 0
          BY <1>1, <1>3, <4>2, SMT
        <5>2. g[0][1] < g[1][1]
          BY <1>1, <5>1 DEF PaddedHull
        <5>3. g[0] \in Points(b + n, m) /\ g[1] \in Points(b + n, m)
          BY <5>1, StoredHull DEF g
        <5>4. g[0] = o /\ g[1] = o /\ o \in Vec
          BY <1>2, <3>2, <5>3, PartPoints
        <5>5. o[1] \in Int
          BY <5>4 DEF Vec
        <5> QED  BY <5>2, <5>4, <5>5, SMT
      <4> QED  BY <4>1, <4>2
    <3>12. Few(u, 1, z + 1)
      <4>1. len = Len(t) + 1
        BY <1>3, SMT DEF len
      <4> QED  BY <1>3, <3>1, <3>11, <4>1, SMT DEF Few
    <3> QED  BY <3>10, <3>12 DEF u
  <2> QED  BY <1>3, <2>2, <2>3, <2>4 DEF f, g
<1> QED  BY <1>6, <1>7, <1>8

-----------------------------------------------------------------------------
(* The invariant of the merge tree.                                        *)

\* Pair v of a level is one of those hart h merges there.
Owns(h, v) == \E m \in Nat : v = h + m * PROCESSORS

\* Hart h has merged pair v of level k, ...
Done(h, k, v) == level[h] > k \/ (level[h] = k /\ at[h] > v * (2 * Interval(k)))

\* ... or has at least begun to overwrite it.
Begun(h, k, v) ==
  Done(h, k, v) \/ (level[h] = k /\ at[h] = v * (2 * Interval(k)) /\ pc[h] = "move")

\* Part u of level k has been made and has not been used up.
Kept(k, u) ==
  /\ k = 0 \/ \E g \in Participant : Owns(g, u) /\ Done(g, k - 1, u)
  /\ k = DEPTH \/ \E h \in Participant, v \in Nat :
                    Owns(h, v) /\ (u = 2 * v \/ u = 2 * v + 1) /\ ~ Begun(h, k, v)

\* It is the hull of its points.
Ready(k, u) ==
  LET b == u * Interval(k)
  IN  /\ length[b] \in 1 .. Interval(k)
      /\ IsHullOf(HullAt(b), b, Interval(k))
      /\ k < DEPTH => \E d : Shape(HullAt(b), d) /\ Few(HullAt(b), d, k)

KeptInv == \A k \in 0 .. DEPTH, u \in Nat : u * Interval(k) < POINTS /\ Kept(k, u) => Ready(k, u)

\* A hull that fits main, at level k.
Held(s, d, b, n, k) == Stored(s, d, b, n) /\ Few(s, d, k)

\* From packing to moving hart h has the hulls s and t in its part.
Packed(h, s, t) ==
  LET n == Interval(level[h])
  IN  /\ \E d : Held(s, d, at[h], n, level[h])
      /\ \E e : Held(t, e, at[h] + n, n, level[h])
      /\ Len(s) \in 1 .. n /\ Len(t) \in 1 .. n
      /\ length[at[h] + n] = Len(t)
      /\ \A i \in 1 .. Len(s) : point[at[h] + i - 1] = s[i]
      /\ \A i \in 1 .. Len(t) : point[at[h] + n + i - 1] = t[i]
      /\ pc[h] # "move" => data[h] = <<Padded(s), Padded(t)>>
      /\ pc[h] # "search" => index[h] = TangentIndices(Padded(s), Padded(t))
      /\ pc[h] = "move" => length[at[h]] = index[h][1] + 1 + (Len(t) - index[h][2])

PairInv ==
  \A h \in Participant :
    /\ pc[h] \in {"pack", "search", "update", "move"}
    /\ h \in inside => at[h] >= POINTS
    /\ pc[h] # "pack" => Working(h) /\ \E s, t : Packed(h, s, t)

KindInv ==
  /\ original \in Inputs
  /\ length = [b \in Slot |-> length[b]]
  /\ pc = [h \in Participant |-> pc[h]]
  /\ data = [h \in Participant |-> data[h]]
  /\ index = [h \in Participant |-> index[h]]

HullInv == RegionInv /\ KindInv /\ PairInv /\ KeptInv

-----------------------------------------------------------------------------

LEMMA Owner ==
  ASSUME NEW v \in Nat
  PROVE  \E h \in Participant : Owns(h, v)
<1> DEFINE P == PROCESSORS
           T == {m \in Nat : v < m * P + P}
<1>1. P \in Nat \ {0} /\ CORES \in Nat /\ P <= CORES
  BY HullAssumption, SMT
<1> HIDE DEF P
<1>2. v \in T
  <2>1. v * P \in Nat /\ v * P >= v
    <3>1. PICK x \in Nat : P = x + 1
      <4>1. P = (P - 1) + 1 /\ P - 1 \in Nat
        BY <1>1, SMT
      <4> QED  BY <4>1
    <3>2. v * x \in Nat
      BY <3>1, SMT
    <3>3. v * P = v * x + v
      BY <3>1, SMT
    <3> QED  BY <3>2, <3>3, SMT
  <2> QED  BY <1>1, <2>1, SMT
<1>3. PICK m \in T : \A x \in T : m <= x
  BY <1>2, LeastElement
<1>4. m \in Nat /\ m * P \in Nat /\ v < m * P + P
  BY <1>1, <1>3, SMT
<1>5. v >= m * P
  <2>1. CASE m = 0
    BY <1>1, <2>1, SMT
  <2>2. CASE m # 0
    <3>1. m - 1 \in Nat /\ ~ (m <= m - 1)
      BY <1>4, <2>2, SMT
    <3>2. ~ (v < (m - 1) * P + P)
      BY <1>3, <3>1
    <3>3. (m - 1) * P + P = m * P
      BY <1>1, <1>4, SMT
    <3> QED  BY <1>4, <3>2, <3>3, SMT
  <2> QED  BY <2>1, <2>2
<1> DEFINE h == v - m * P
<1>6. h \in 0 .. CORES - 1 /\ h < P /\ v = h + m * P
  BY <1>1, <1>4, <1>5, SMT
<1> QED  BY <1>4, <1>6 DEF Participant, Owns, P

LEMMA OneOwner ==
  ASSUME NEW g \in Participant, NEW h \in Participant, NEW v, Owns(g, v), Owns(h, v)
  PROVE  g = h
<1>1. PICK m \in Nat, n \in Nat : v = g + m * PROCESSORS /\ v = h + n * PROCESSORS
  BY DEF Owns
<1> QED  BY <1>1, HullSizes, PairNumbers

\* Between two pairs of a hart that follow each other there is none.
LEMMA NextOwned ==
  ASSUME NEW h \in Participant, NEW v, NEW w, Owns(h, v), Owns(h, w), w < v + PROCESSORS
  PROVE  v \in Nat /\ w \in Nat /\ w <= v
<1> DEFINE P == PROCESSORS
<1>1. P \in Nat \ {0} /\ h \in Nat
  BY HullSizes
<1>2. PICK m \in Nat, n \in Nat : v = h + m * P /\ w = h + n * P
  BY DEF Owns
<1>3. w < v + P
  OBVIOUS
<1> HIDE DEF P
<1>4. m * P \in Nat /\ n * P \in Nat
  BY <1>1, SMT
<1>5. CASE n <= m
  <2>1. PICK x \in Nat : m = n + x
    <3>1. m = n + (m - n) /\ m - n \in Nat
      BY <1>5, SMT
    <3> QED  BY <3>1
  <2>2. m * P = n * P + x * P /\ x * P \in Nat
    BY <1>1, <2>1, SMT
  <2> QED  BY <1>1, <1>2, <1>4, <2>2, SMT
<1>6. CASE ~ (n <= m)
  <2>1. PICK x \in Nat : n = m + 1 + x
    <3>1. n = m + 1 + (n - m - 1) /\ n - m - 1 \in Nat
      BY <1>6, SMT
    <3> QED  BY <3>1
  <2>2. n * P = m * P + P + x * P /\ x * P \in Nat
    BY <1>1, <2>1, SMT
  <2> QED  BY <1>1, <1>2, <1>3, <1>4, <2>2, SMT
<1> QED  BY <1>5, <1>6

\* A part that begins in the array lies in it; of one half unless it is all.
LEMMA Room ==
  ASSUME NEW k \in 0 .. DEPTH, NEW u \in Nat, u * Interval(k) < POINTS
  PROVE  /\ u * Interval(k) \in Nat /\ u * Interval(k) + Interval(k) <= POINTS
         /\ u * Interval(k) .. u * Interval(k) + Interval(k) - 1 \subseteq Slot
         /\ original \in Inputs => Part(u * Interval(k), Interval(k))
         /\ original \in Inputs /\ k < DEPTH => OneHalf(u * Interval(k), Interval(k))
<1> DEFINE w == Interval(k)
           b == u * w
<1>1. w \in Nat /\ w >= 2 /\ POINTS \in Nat /\ Slot = 0 .. POINTS - 1 /\ DEPTH \in Nat /\ k \in Nat
  BY Powers, HullSizes, SMT
<1>2. ASSUME NEW x \in Nat, NEW c \in Nat PROVE x < c => x * w + w <= c * w
  <2> SUFFICES ASSUME x < c PROVE x * w + w <= c * w
    OBVIOUS
  <2>1. PICK y \in Nat : c = x + 1 + y
    <3>1. c = x + 1 + (c - x - 1) /\ c - x - 1 \in Nat
      BY SMT
    <3> QED  BY <3>1
  <2> HIDE DEF w
  <2>2. c * w = x * w + w + y * w /\ y * w \in Nat /\ x * w \in Nat
    BY <1>1, <2>1, SMT
  <2> QED  BY <1>1, <2>2, SMT
<1>3. PICK c \in Nat \ {0} : POINTS = c * w
  <2>1. DEPTH \in k .. DEPTH
    BY <1>1, SMT
  <2> QED  BY <2>1, Divides, Powers
<1>4. ASSUME NEW x \in Nat, NEW y \in Nat PROVE x >= y => x * w >= y * w
  <2> SUFFICES ASSUME x >= y PROVE x * w >= y * w
    OBVIOUS
  <2>1. CASE x = y
    <3> HIDE DEF w
    <3> QED  BY <1>1, <2>1, SMT
  <2>2. CASE y < x
    <3> x * w \in Nat /\ y * w \in Nat /\ y * w + w <= x * w
      <4> HIDE DEF w
      <4>1. x * w \in Nat /\ y * w \in Nat
        BY <1>1, SMT
      <4> QED  BY <1>2, <2>2, <4>1
    <3> HIDE DEF w
    <3> QED  BY <1>1, SMT
  <2> QED  BY <2>1, <2>2, SMT
<1>5. b < POINTS
  OBVIOUS
<1> HIDE DEF w
<1>6. b \in Nat
  BY <1>1, SMT
<1>7. u < c
  <2>1. ~ (u >= c)
    BY <1>3, <1>4, <1>5, <1>1, <1>6, SMT
  <2> QED  BY <2>1, SMT
<1>8. b + w <= POINTS
  BY <1>2, <1>3, <1>7
<1>9. b .. b + w - 1 \subseteq Slot
  <2> HIDE DEF b
  <2> QED  BY <1>1, <1>6, <1>8, SMT
<1>10. original \in Inputs => Part(b, w)
  BY <1>1, <1>6, <1>8, SMT DEF Part
<1>11. ASSUME original \in Inputs, k < DEPTH PROVE OneHalf(b, w)
  <2>1. Settles(original, 0, 2^DEPTH - 1) /\ Settles(original, 2^DEPTH, POINTS - 1)
    BY <1>11, HullAssumption DEF Growing
  <2> DEFINE z == 2^DEPTH
  <2>2. z \in Nat /\ z >= 2 /\ POINTS = 2 * z
    BY Powers
  <2>3. PICK a \in Nat \ {0} : z = a * w
    <3>1. DEPTH - 1 \in k .. DEPTH
      BY <1>1, <1>11, SMT
    <3> QED  BY <3>1, Divides, Powers DEF w
  <2> HIDE DEF z
  <2>4. CASE u < a
    <3>1. b + w <= z
      BY <1>2, <2>3, <2>4
    <3> HIDE DEF b
    <3>2. 0 <= b /\ b + w - 1 <= z - 1 /\ z - 1 \in Slot /\ 0 \in Nat
      BY <1>1, <1>6, <2>2, <3>1, SMT
    <3> QED  BY <2>1, <3>2 DEF OneHalf, z
  <2>5. CASE u >= a
    <3>1. b >= z
      BY <1>4, <2>3, <2>5
    <3> HIDE DEF b
    <3>2. z <= b /\ b + w - 1 <= POINTS - 1 /\ POINTS - 1 \in Slot
      BY <1>1, <1>6, <1>8, <2>2, <3>1, SMT
    <3> QED  BY <2>1, <2>2, <3>2 DEF OneHalf, z
  <2> QED  BY <2>4, <2>5, SMT
<1> QED  BY <1>6, <1>8, <1>9, <1>10, <1>11 DEF b, w

\* The pair a working hart is at, ...
LEMMA AtPair ==
  ASSUME RegionInv, NEW h \in Participant, Working(h)
  PROVE  /\ level[h] \in 0 .. DEPTH - 1 /\ level[h] \in 0 .. DEPTH /\ level[h] + 1 \in 0 .. DEPTH
         /\ Interval(level[h] + 1) = 2 * Interval(level[h])
         /\ Interval(level[h]) \in Nat /\ Interval(level[h]) >= 2
         /\ \E v \in Nat : Owns(h, v) /\ at[h] = v * (2 * Interval(level[h]))
         /\ at[h] \in Nat /\ at[h] + 2 * Interval(level[h]) <= POINTS
         /\ Region(h) \subseteq Slot
         /\ Region(h) = at[h] .. at[h] + 2 * Interval(level[h]) - 1
<1> DEFINE k == level[h]
           w == Interval(level[h])
<1>1. k \in 0 .. DEPTH /\ k < DEPTH /\ at[h] < POINTS /\ DEPTH \in Nat
  BY HullSizes DEF RegionInv, ShapeInv, Working
<1>2. k \in 0 .. DEPTH - 1 /\ k + 1 \in 0 .. DEPTH
  BY <1>1, SMT
<1>3. Interval(k + 1) = 2 * Interval(k) /\ Interval(k) \in Nat /\ Interval(k) >= 2
  BY <1>1, <1>2, Powers
<1>4. PICK m \in Nat : at[h] = (h + m * PROCESSORS) * (2 * Interval(k))
  BY DEF RegionInv, PlaceInv
<1> DEFINE v == h + m * PROCESSORS
<1>5. v \in Nat /\ Owns(h, v)
  <2>1. h \in Nat /\ PROCESSORS \in Nat
    BY HullSizes
  <2>2. v \in Nat
    BY <2>1, SMT
  <2> QED  BY <2>2 DEF Owns
<1>6. at[h] = v * Interval(k + 1)
  BY <1>3, <1>4
<1> HIDE DEF v
<1>7. at[h] \in Nat /\ at[h] + Interval(k + 1) <= POINTS /\ at[h] .. at[h] + Interval(k + 1) - 1 \subseteq Slot
  BY <1>1, <1>2, <1>5, <1>6, Room
<1>8. Region(h) = at[h] .. at[h] + 2 * Interval(k) - 1
  BY DEF Region
<1> QED  BY <1>1, <1>2, <1>3, <1>5, <1>6, <1>7, <1>8

\* ... and where its halves are.
LEMMA Halves ==
  ASSUME NEW k \in 0 .. DEPTH - 1, NEW v \in Nat, v * (2 * Interval(k)) < POINTS
  PROVE  /\ 2 * v \in Nat /\ 2 * v + 1 \in Nat
         /\ (2 * v) * Interval(k) = v * (2 * Interval(k))
         /\ (2 * v + 1) * Interval(k) = v * (2 * Interval(k)) + Interval(k)
         /\ (2 * v) * Interval(k) < POINTS /\ (2 * v + 1) * Interval(k) < POINTS
         /\ v * (2 * Interval(k)) = v * Interval(k + 1)
<1> DEFINE w == Interval(k)
<1>1. k \in 0 .. DEPTH /\ k + 1 \in 0 .. DEPTH /\ w \in Nat /\ w >= 2 /\ Interval(k + 1) = 2 * w
  BY Powers, HullSizes, SMT
<1>2. v * (2 * w) < POINTS /\ POINTS \in Nat
  BY Powers
<1>3. v * Interval(k + 1) + Interval(k + 1) <= POINTS
  BY <1>1, <1>2, Room
<1>4. v * (2 * w) + 2 * w <= POINTS /\ v * (2 * w) = v * Interval(k + 1)
  BY <1>1, <1>3
<1> HIDE DEF w
<1>5. 2 * v \in Nat /\ 2 * v + 1 \in Nat /\ (2 * v) * w = v * (2 * w)
      /\ (2 * v + 1) * w = v * (2 * w) + w /\ v * (2 * w) \in Nat
  BY <1>1, SMT
<1>6. (2 * v) * w < POINTS /\ (2 * v + 1) * w < POINTS
  BY <1>1, <1>2, <1>4, <1>5, SMT
<1> QED  BY <1>4, <1>5, <1>6 DEF w

\* What is kept is not touched by a working hart, except for its own pair.
LEMMA Separate ==
  ASSUME RegionInv, PairInv, NEW h \in Participant, Working(h),
         NEW v \in Nat, Owns(h, v), at[h] = v * (2 * Interval(level[h])),
         NEW k \in 0 .. DEPTH, NEW u \in Nat, u * Interval(k) < POINTS, Kept(k, u),
         ~ (k = level[h] /\ (u = 2 * v \/ u = 2 * v + 1))
  PROVE  \A x \in u * Interval(k) .. u * Interval(k) + Interval(k) - 1 : x \notin Region(h)
<1> DEFINE l == level[h]
           w == Interval(level[h])
<1>1. /\ l \in 0 .. DEPTH - 1 /\ l \in 0 .. DEPTH /\ w \in Nat /\ w >= 2
      /\ Interval(l + 1) = 2 * w
      /\ Region(h) = at[h] .. at[h] + 2 * w - 1
      /\ h \notin inside
  BY AtPair DEF Working
<1>2. /\ \A g \in Participant : level[g] \in 0 .. DEPTH
      /\ \A f, g \in Participant : level[f] > level[g] => level[f] = level[g] + 1 /\ g \in inside
      /\ DEPTH \in Nat /\ l \in Nat /\ k \in Nat
  BY <1>1, HullSizes, SMT DEF RegionInv, ShapeInv, LSInv
\* No hart is ahead of one that works.
<1>3. \A g \in Participant : ~ (level[g] > l)
  BY <1>1, <1>2
<1>4. at[h] = v * (2 * w)
  OBVIOUS
<1>5. CASE k < l
  <2>1. k # DEPTH
    BY <1>1, <1>5, SMT
  <2>2. PICK g \in Participant, x \in Nat :
          Owns(g, x) /\ (u = 2 * x \/ u = 2 * x + 1) /\ ~ Begun(g, k, x)
    BY <2>1 DEF Kept
  <2>3. ~ (level[g] > k) /\ (level[g] = k => ~ (at[g] > x * (2 * Interval(k))))
    BY <2>2 DEF Begun, Done
  <2>4. level[g] \in Nat /\ l > level[g]
    BY <1>2, <1>5, <2>3, SMT
  <2>5. l = level[g] + 1 /\ g \in inside
    BY <1>2, <2>4
  <2>6. level[g] = k
    BY <1>2, <1>5, <2>3, <2>4, <2>5, SMT
  <2>7. at[g] >= POINTS
    BY <2>5 DEF PairInv
  <2> DEFINE z == Interval(k)
  <2>8. z \in Nat /\ z >= 2 /\ POINTS \in Nat /\ u * z < POINTS
    BY Powers
  <2>9. ~ (at[g] > x * (2 * z))
    BY <2>3, <2>6
  <2>10. at[g] \in Int
    <3>1. PICK m \in Nat : at[g] = (g + m * PROCESSORS) * (2 * Interval(level[g]))
      BY DEF RegionInv, PlaceInv
    <3>2. g \in Nat /\ PROCESSORS \in Nat
      BY HullSizes
    <3>3. at[g] = (g + m * PROCESSORS) * (2 * z)
      BY <2>6, <3>1
    <3> HIDE DEF z
    <3> QED  BY <2>8, <3>2, <3>3, SMT
  <2> HIDE DEF z
  <2>11. x * (2 * z) \in Nat /\ x * (2 * z) <= u * z
    <3>1. CASE u = 2 * x
      BY <2>8, <3>1, SMT
    <3>2. CASE u = 2 * x + 1
      <4>1. u * z = x * (2 * z) + z /\ x * (2 * z) \in Nat
        BY <2>8, <3>2, SMT
      <4> QED  BY <2>8, <4>1, SMT
    <3> QED  BY <2>2, <3>1, <3>2
  <2>12. u * z \in Nat
    BY <2>8, SMT
  <2> QED  BY <2>7, <2>8, <2>9, <2>10, <2>11, <2>12, SMT
<1>6. CASE k = l
  <2>1. k # DEPTH
    BY <1>1, <1>2, <1>6, SMT
  <2>2. PICK g \in Participant, x \in Nat :
          Owns(g, x) /\ (u = 2 * x \/ u = 2 * x + 1) /\ ~ Begun(g, k, x)
    BY <2>1 DEF Kept
  <2>3. x # v /\ Interval(k) = w
    BY <1>6, <2>2
  <2> HIDE DEF w
  <2>4. 2 * w \in Nat \ {0}
    BY <1>1, SMT
  <2>5. (x * (2 * w) .. x * (2 * w) + 2 * w - 1) \cap (v * (2 * w) .. v * (2 * w) + 2 * w - 1) = {}
    BY <2>3, <2>4, PairsApart
  <2>6. ASSUME NEW y \in u * w .. u * w + w - 1 PROVE y \in x * (2 * w) .. x * (2 * w) + 2 * w - 1
    <3>1. x * (2 * w) \in Nat
      BY <1>1, SMT
    <3>2. CASE u = 2 * x
      <4>1. u * w = x * (2 * w)
        BY <1>1, <3>2, SMT
      <4> QED  BY <1>1, <3>1, <4>1, SMT
    <3>3. CASE u = 2 * x + 1
      <4>1. u * w = x * (2 * w) + w
        BY <1>1, <3>3, SMT
      <4> QED  BY <1>1, <3>1, <4>1, SMT
    <3> QED  BY <2>2, <3>2, <3>3
  <2> QED  BY <1>1, <1>4, <2>3, <2>5, <2>6
<1>7. CASE k > l
  <2>1. k # 0
    BY <1>2, <1>7, SMT
  <2>2. PICK g \in Participant : Owns(g, u) /\ Done(g, k - 1, u)
    BY <2>1 DEF Kept
  <2>3. level[g] > k - 1 \/ (level[g] = k - 1 /\ at[g] > u * (2 * Interval(k - 1)))
    BY <2>2 DEF Done
  <2>4. level[g] \in Nat /\ ~ (level[g] > l)
    BY <1>2, <1>3, SMT
  <2>5. level[g] = k - 1 /\ k = l + 1 /\ k - 1 = l
    BY <1>2, <1>7, <2>3, <2>4, SMT
  <2>6. at[g] > u * (2 * w) /\ ~ (level[g] > k - 1)
    BY <2>3, <2>4, <2>5
  <2>7. Interval(k) = 2 * w
    BY <1>1, <2>5
  <2> HIDE DEF w
  <2>8. u # v
    <3> SUFFICES ASSUME u = v PROVE FALSE
      OBVIOUS
    <3>1. g = h
      BY <2>2, OneOwner
    <3>2. v * (2 * w) \in Nat
      BY <1>1, SMT
    <3> QED  BY <1>4, <2>6, <3>1, <3>2, SMT
  <2>9. 2 * w \in Nat \ {0}
    BY <1>1, SMT
  <2>10. (u * (2 * w) .. u * (2 * w) + 2 * w - 1) \cap (v * (2 * w) .. v * (2 * w) + 2 * w - 1) = {}
    BY <2>8, <2>9, PairsApart
  <2> QED  BY <1>1, <1>4, <2>7, <2>10
<1> QED  BY <1>2, <1>5, <1>6, <1>7, SMT

-----------------------------------------------------------------------------
(* What a step leaves alone.                                               *)

LEMMA ReadyStays ==
  ASSUME NEW k \in 0 .. DEPTH, NEW u \in Nat, u * Interval(k) < POINTS, Ready(k, u),
         original' = original,
         \A x \in u * Interval(k) .. u * Interval(k) + Interval(k) - 1 :
           point'[x] = point[x] /\ length'[x] = length[x]
  PROVE  Ready(k, u)'
<1> DEFINE b == u * Interval(k)
           w == Interval(k)
<1>1. b \in Nat /\ w \in Nat /\ w >= 2
  BY Room, Powers
<1>2. length[b] \in 1 .. w /\ IsHullOf(HullAt(b), b, w) /\ (k < DEPTH => \E d : Shape(HullAt(b), d) /\ Few(HullAt(b), d, k))
  BY DEF Ready
<1>3. \A x \in b .. b + w - 1 : point'[x] = point[x] /\ length'[x] = length[x]
  OBVIOUS
<1> HIDE DEF b, w
<1>4. b \in b .. b + w - 1 /\ \A i \in 1 .. length[b] : b + i - 1 \in b .. b + w - 1
  BY <1>1, <1>2, SMT
<1>5. length'[b] = length[b] /\ \A i \in 1 .. length[b] : point'[b + i - 1] = point[b + i - 1]
  BY <1>3, <1>4
<1>6. HullAt(b)' = HullAt(b)
  BY <1>5 DEF HullAt
<1>7. IsHullOf(HullAt(b), b, w)' <=> IsHullOf(HullAt(b), b, w)
  BY <1>6 DEF IsHullOf
<1>8. length'[b] \in 1 .. w /\ IsHullOf(HullAt(b), b, w)' /\ (k < DEPTH => \E d : Shape(HullAt(b)', d) /\ Few(HullAt(b)', d, k))
  BY <1>2, <1>5, <1>6, <1>7
<1> QED  BY <1>8 DEF Ready, b, w

LEMMA PackedStays ==
  ASSUME RegionInv, NEW h \in Participant, Working(h), NEW s, NEW t, Packed(h, s, t),
         original' = original, level'[h] = level[h], at'[h] = at[h], pc'[h] = pc[h],
         data'[h] = data[h], index'[h] = index[h],
         \A x \in Region(h) : point'[x] = point[x] /\ length'[x] = length[x]
  PROVE  Packed(h, s, t)'
<1> DEFINE n == Interval(level[h])
           b == at[h]
<1>1. n \in Nat /\ n >= 2 /\ b \in Nat /\ Region(h) = b .. b + 2 * n - 1
  BY AtPair
<1>2. /\ \E d : Held(s, d, b, n, level[h])
      /\ \E e : Held(t, e, b + n, n, level[h])
      /\ Len(s) \in 1 .. n /\ Len(t) \in 1 .. n
      /\ length[b + n] = Len(t)
      /\ \A i \in 1 .. Len(s) : point[b + i - 1] = s[i]
      /\ \A i \in 1 .. Len(t) : point[b + n + i - 1] = t[i]
      /\ pc[h] # "move" => data[h] = <<Padded(s), Padded(t)>>
      /\ pc[h] # "search" => index[h] = TangentIndices(Padded(s), Padded(t))
      /\ pc[h] = "move" => length[b] = index[h][1] + 1 + (Len(t) - index[h][2])
  BY DEF Packed
<1>3. n' = n
  OBVIOUS
<1> HIDE DEF n
<1>4. /\ b \in Region(h) /\ b + n \in Region(h)
      /\ \A i \in 1 .. Len(s) : b + i - 1 \in Region(h)
      /\ \A i \in 1 .. Len(t) : b + n + i - 1 \in Region(h)
  <2> HIDE DEF b
  <2>1. b \in Region(h) /\ b + n \in Region(h)
    BY <1>1, SMT
  <2>2. \A i \in 1 .. Len(s) : b + i - 1 \in Region(h)
    BY <1>1, <1>2, SMT
  <2>3. \A i \in 1 .. Len(t) : b + n + i - 1 \in Region(h)
    BY <1>1, <1>2, SMT
  <2> QED  BY <2>1, <2>2, <2>3
<1>5. /\ length'[b] = length[b] /\ length'[b + n] = length[b + n]
      /\ \A i \in 1 .. Len(s) : point'[b + i - 1] = point[b + i - 1]
      /\ \A i \in 1 .. Len(t) : point'[b + n + i - 1] = point[b + n + i - 1]
  BY <1>4
<1>6. \A d : Held(s, d, b, n, level[h]) => Held(s, d, b, n, level[h])'
  BY <1>3 DEF Held, Few, Stored, Part, IsHullOf
<1>7. \A e : Held(t, e, b + n, n, level[h]) => Held(t, e, b + n, n, level[h])'
  BY <1>3 DEF Held, Few, Stored, Part, IsHullOf
<1>8. (\E d : Held(s, d, b, n, level[h])') /\ (\E e : Held(t, e, b + n, n, level[h])')
  BY <1>2, <1>6, <1>7
<1> QED  BY <1>2, <1>3, <1>5, <1>8 DEF Packed, n

\* A step of a working hart that changes nothing outside its part of the arrays
\* does not concern the others, nor what is kept for them.
LEMMA Untouched ==
  ASSUME RegionInv, PairInv, KeptInv, NEW h \in Participant, Working(h),
         NEW v \in Nat, Owns(h, v), at[h] = v * (2 * Interval(level[h])),
         original' = original, UNCHANGED <<level, inside>>,
         \A g \in Participant \ {h} :
           /\ at'[g] = at[g] /\ pc'[g] = pc[g]
           /\ data'[g] = data[g] /\ index'[g] = index[g],
         \A x \in Slot \ Region(h) : point'[x] = point[x] /\ length'[x] = length[x]
  PROVE  /\ \A g \in Participant \ {h} :
              /\ pc'[g] \in {"pack", "search", "update", "move"}
              /\ g \in inside' => at'[g] >= POINTS
              /\ pc'[g] # "pack" => Working(g)' /\ \E s, t : Packed(g, s, t)'
         /\ \A k \in 0 .. DEPTH, u \in Nat :
              /\ u * Interval(k) < POINTS /\ Kept(k, u)
              /\ ~ (k = level[h] /\ (u = 2 * v \/ u = 2 * v + 1))
              => Ready(k, u)'
<1>1. ASSUME NEW g \in Participant \ {h}
      PROVE  /\ pc'[g] \in {"pack", "search", "update", "move"}
             /\ g \in inside' => at'[g] >= POINTS
             /\ pc'[g] # "pack" => Working(g)' /\ \E s, t : Packed(g, s, t)'
  <2>1. /\ pc[g] \in {"pack", "search", "update", "move"}
        /\ g \in inside => at[g] >= POINTS
        /\ pc[g] # "pack" => Working(g) /\ \E s, t : Packed(g, s, t)
    BY DEF PairInv
  <2>2. /\ pc'[g] \in {"pack", "search", "update", "move"}
        /\ g \in inside' => at'[g] >= POINTS
    BY <2>1
  <2>3. ASSUME pc[g] # "pack" PROVE Working(g)' /\ \E s, t : Packed(g, s, t)'
    <3>1. Working(g)
      BY <2>1, <2>3
    <3>2. Working(g)'
      BY <3>1 DEF Working
    <3>3. Region(g) \cap Region(h) = {}
      BY <3>1, Disjoint DEF RegionsDisjoint
    <3>4. Region(g) \subseteq Slot
      BY <3>1, AtPair
    <3>5. \A x \in Region(g) : point'[x] = point[x] /\ length'[x] = length[x]
      BY <3>3, <3>4
    <3>6. PICK s, t : Packed(g, s, t)
      BY <2>1, <2>3
    <3>7. Packed(g, s, t)'
      BY <3>1, <3>5, <3>6, PackedStays
    <3> QED  BY <3>2, <3>7
  <2> QED  BY <2>1, <2>2, <2>3
<1>2. ASSUME NEW k \in 0 .. DEPTH, NEW u \in Nat, u * Interval(k) < POINTS, Kept(k, u),
             ~ (k = level[h] /\ (u = 2 * v \/ u = 2 * v + 1))
      PROVE  Ready(k, u)'
  <2>1. Ready(k, u)
    BY <1>2 DEF KeptInv
  <2>2. \A x \in u * Interval(k) .. u * Interval(k) + Interval(k) - 1 : x \notin Region(h)
    BY <1>2, Separate
  <2>3. u * Interval(k) .. u * Interval(k) + Interval(k) - 1 \subseteq Slot
    BY <1>2, Room
  <2>4. \A x \in u * Interval(k) .. u * Interval(k) + Interval(k) - 1 :
          point'[x] = point[x] /\ length'[x] = length[x]
    BY <2>2, <2>3
  <2> QED  BY <1>2, <2>1, <2>4, ReadyStays
<1> QED  BY <1>1, <1>2

LEMMA KeptBack ==
  ASSUME UNCHANGED <<level, at>>, \A g \in Participant : pc[g] = "move" => pc'[g] = "move",
         NEW k \in 0 .. DEPTH, NEW u \in Nat, Kept(k, u)'
  PROVE  Kept(k, u)
<1>1. ASSUME NEW g \in Participant, NEW l, NEW v
      PROVE  (Done(g, l, v)' <=> Done(g, l, v)) /\ (Begun(g, l, v) => Begun(g, l, v)')
  BY DEF Done, Begun
<1>2. k = 0 \/ \E g \in Participant : Owns(g, u) /\ Done(g, k - 1, u)
  BY <1>1 DEF Kept, Owns
<1>3. k = DEPTH \/ \E h \in Participant, v \in Nat :
                     Owns(h, v) /\ (u = 2 * v \/ u = 2 * v + 1) /\ ~ Begun(h, k, v)
  BY <1>1 DEF Kept, Owns
<1> QED  BY <1>2, <1>3 DEF Kept

\* The arrays as they were.
LEMMA KeptStays ==
  ASSUME KeptInv, UNCHANGED <<original, point, length>>,
         \A k \in 0 .. DEPTH, u \in Nat : u * Interval(k) < POINTS /\ Kept(k, u)' => Kept(k, u)
  PROVE  KeptInv'
<1> SUFFICES ASSUME NEW k \in 0 .. DEPTH, NEW u \in Nat, u * Interval(k) < POINTS, Kept(k, u)'
             PROVE  Ready(k, u)'
  BY DEF KeptInv
<1>1. Ready(k, u)
  BY DEF KeptInv
<1> QED  BY <1>1, ReadyStays

\* Both halves of its pair are kept for a hart that has not begun to move.
LEMMA OwnHalves ==
  ASSUME RegionInv, PairInv, NEW h \in Participant, Working(h), pc[h] # "move",
         NEW v \in Nat, Owns(h, v), at[h] = v * (2 * Interval(level[h])),
         NEW u \in {2 * v, 2 * v + 1}
  PROVE  u \in Nat /\ u * Interval(level[h]) < POINTS /\ Kept(level[h], u)
<1> DEFINE l == level[h]
<1>1. l \in 0 .. DEPTH - 1 /\ l \in 0 .. DEPTH /\ at[h] < POINTS /\ at[h] \in Nat /\ l \in Nat
  <2>1. l \in 0 .. DEPTH - 1 /\ l \in 0 .. DEPTH /\ at[h] < POINTS /\ at[h] \in Nat
    BY AtPair DEF Working
  <2> QED  BY <2>1, HullSizes, SMT
<1>2. u \in Nat /\ u * Interval(l) < POINTS
  BY <1>1, Halves
<1>3. \E g \in Participant, x \in Nat : Owns(g, x) /\ (u = 2 * x \/ u = 2 * x + 1) /\ ~ Begun(g, l, x)
  <2>1. ~ Begun(h, l, v)
    BY <1>1, SMT DEF Begun, Done
  <2> QED  BY <2>1
<1>4. ASSUME l # 0 PROVE \E g \in Participant : Owns(g, u) /\ Done(g, l - 1, u)
  <2>1. PICK g \in Participant : Owns(g, u)
    BY <1>2, Owner
  <2>2. level[g] \in 0 .. DEPTH /\ (level[h] > level[g] => level[h] = level[g] + 1 /\ g \in inside)
    BY DEF RegionInv, ShapeInv, LSInv
  <2>3. CASE level[g] > l - 1
    BY <2>1, <2>3 DEF Done
  <2>4. CASE ~ (level[g] > l - 1)
    <3>1. level[h] > level[g] /\ DEPTH \in Nat
      BY <1>1, <2>2, <2>4, HullSizes, SMT
    <3>2. level[g] = l - 1 /\ g \in inside
      BY <1>1, <2>2, <3>1, SMT
    <3>3. at[g] >= POINTS
      BY <3>2 DEF PairInv
    <3>4. 2 * Interval(l - 1) = Interval(l) /\ Interval(l) \in Nat /\ POINTS \in Nat
          /\ Interval(l - 1) \in Nat
      <4>1. l - 1 \in 0 .. DEPTH - 1 /\ (l - 1) + 1 = l /\ l - 1 \in 0 .. DEPTH
        BY <1>1, <1>4, HullSizes, SMT
      <4> QED  BY <1>1, <4>1, Powers
    <3>5. u * (2 * Interval(l - 1)) < POINTS
      BY <1>2, <3>4
    <3>6. at[g] \in Int
      <4>1. PICK m \in Nat : at[g] = (g + m * PROCESSORS) * (2 * Interval(level[g]))
        BY DEF RegionInv, PlaceInv
      <4>2. g \in Nat /\ PROCESSORS \in Nat
        BY HullSizes
      <4>3. at[g] = (g + m * PROCESSORS) * (2 * Interval(l - 1))
        BY <3>2, <4>1
      <4> DEFINE z == Interval(l - 1)
      <4>4. z \in Nat
        BY <3>4
      <4>5. at[g] = (g + m * PROCESSORS) * (2 * z)
        BY <4>3
      <4> HIDE DEF z
      <4> QED  BY <4>2, <4>4, <4>5, SMT
    <3>7. u * (2 * Interval(l - 1)) \in Int
      <4> DEFINE z == Interval(l - 1)
      <4>1. z \in Nat
        BY <3>4
      <4> HIDE DEF z
      <4>2. u * (2 * z) \in Int
        BY <1>2, <4>1, SMT
      <4> QED  BY <4>2 DEF z
    <3>8. at[g] > u * (2 * Interval(l - 1))
      BY <3>3, <3>4, <3>5, <3>6, <3>7, SMT
    <3> QED  BY <2>1, <3>2, <3>8 DEF Done
  <2> QED  BY <2>3, <2>4
<1> QED  BY <1>2, <1>3, <1>4 DEF Kept

\* What is ready and fits main may pack.
LEMMA ReadyStored ==
  ASSUME original \in Inputs, NEW k \in 0 .. DEPTH, k < DEPTH, NEW u \in Nat,
         u * Interval(k) < POINTS, Ready(k, u), length[u * Interval(k)] <= MAX_HULL
  PROVE  LET b == u * Interval(k)
         IN  /\ \E d : Held(HullAt(b), d, b, Interval(k), k)
             /\ Len(HullAt(b)) = length[b] /\ length[b] \in 1 .. Interval(k)
             /\ \A i \in 1 .. length[b] : HullAt(b)[i] = point[b + i - 1]
<1> DEFINE b == u * Interval(k)
           w == Interval(k)
<1>1. Part(b, w) /\ w \in Nat
  BY Room, Powers
<1>2. length[b] \in 1 .. w /\ IsHullOf(HullAt(b), b, w) /\ \E d : Shape(HullAt(b), d) /\ Few(HullAt(b), d, k)
  BY DEF Ready
<1>3. length[b] <= MAX_HULL
  OBVIOUS
<1> HIDE DEF b, w
<1>4. length[b] \in Nat /\ length[b] \in 1 .. MAX_HULL
  BY <1>1, <1>2, <1>3, Sizes, SMT
<1>5. Len(HullAt(b)) = length[b] /\ \A i \in 1 .. length[b] : HullAt(b)[i] = point[b + i - 1]
  <2> DEFINE len == length[b]
  <2>1. HullAt(b) = [i \in 1 .. len |-> point[b + i - 1]] /\ len \in Nat
    BY <1>4 DEF HullAt
  <2> HIDE DEF len
  <2>2. Len(HullAt(b)) = len /\ \A i \in 1 .. len : HullAt(b)[i] = point[b + i - 1]
    BY <2>1
  <2> QED  BY <2>2 DEF len
<1>6. \E d : Held(HullAt(b), d, b, w, k)
  BY <1>1, <1>2, <1>4, <1>5 DEF Stored, Held
<1> QED  BY <1>2, <1>5, <1>6 DEF b, w

-----------------------------------------------------------------------------
(* The steps.                                                              *)

LEMMA PackHullInv ==
  ASSUME HullInv, Fit, NEW h \in Participant, Pack(h)
  PROVE  HullInv'
<1> DEFINE l == level[h]
           n == Interval(level[h])
           s == HullAt(at[h])
           t == HullAt(Other(h))
<1>1. RegionInv /\ KindInv /\ PairInv /\ KeptInv
  BY DEF HullInv
<1>2. /\ Working(h) /\ pc[h] = "pack"
      /\ data' = [data EXCEPT ![h] = <<Padded(s), Padded(t)>>]
      /\ pc' = [pc EXCEPT ![h] = "search"]
      /\ UNCHANGED <<original, point, length, level, inside, at, index>>
  BY DEF Pack, Working, Goto
<1>3. RegionInv' /\ KindInv'
  BY <1>1, <1>2, StayPut DEF KindInv
<1>4. /\ pc'[h] = "search" /\ data'[h] = <<Padded(s), Padded(t)>>
      /\ \A g \in Participant \ {h} : pc'[g] = pc[g] /\ data'[g] = data[g]
  BY <1>1, <1>2 DEF KindInv
<1>5. KeptInv'
  <2>1. \A g \in Participant : pc[g] = "move" => pc'[g] = "move"
    BY <1>2, <1>4
  <2>2. \A k \in 0 .. DEPTH, u \in Nat : Kept(k, u)' => Kept(k, u)
    BY <1>2, <2>1, KeptBack
  <2> QED  BY <1>1, <1>2, <2>2, KeptStays
<1>6. PICK v \in Nat : Owns(h, v) /\ at[h] = v * (2 * Interval(level[h]))
  BY <1>1, <1>2, AtPair
<1>7. /\ l \in 0 .. DEPTH - 1 /\ l \in 0 .. DEPTH /\ l < DEPTH /\ n \in Nat /\ n >= 2
      /\ at[h] \in Nat /\ at[h] < POINTS
  BY <1>1, <1>2, AtPair DEF Working
<1>8. /\ (2 * v) * n = at[h] /\ (2 * v + 1) * n = at[h] + n
      /\ 2 * v \in Nat /\ 2 * v + 1 \in Nat
      /\ (2 * v) * n < POINTS /\ (2 * v + 1) * n < POINTS
  BY <1>6, <1>7, Halves
<1>9. Ready(l, 2 * v) /\ Ready(l, 2 * v + 1)
  <2>1. pc[h] # "move" /\ 2 * v \in {2 * v, 2 * v + 1} /\ 2 * v + 1 \in {2 * v, 2 * v + 1}
    BY <1>2
  <2>2. Kept(l, 2 * v) /\ Kept(l, 2 * v + 1)
    BY <1>1, <1>2, <1>6, <2>1, OwnHalves
  <2> QED  BY <1>1, <1>7, <1>8, <2>2 DEF KeptInv
<1>10. length[at[h]] <= MAX_HULL /\ length[at[h] + n] <= MAX_HULL /\ Other(h) = at[h] + n
  BY <1>2 DEF Fit, Other
<1>11. original \in Inputs
  BY <1>1 DEF KindInv
<1>12. /\ \E d : Held(HullAt(at[h]), d, at[h], n, level[h])
       /\ Len(HullAt(at[h])) = length[at[h]] /\ length[at[h]] \in 1 .. n
       /\ \A i \in 1 .. length[at[h]] : HullAt(at[h])[i] = point[at[h] + i - 1]
  <2>1. length[(2 * v) * n] <= MAX_HULL
    BY <1>8, <1>10
  <2> QED  BY <1>7, <1>8, <1>9, <1>11, <2>1, ReadyStored
<1>13. /\ \E e : Held(HullAt(at[h] + n), e, at[h] + n, n, level[h])
       /\ Len(HullAt(at[h] + n)) = length[at[h] + n] /\ length[at[h] + n] \in 1 .. n
       /\ \A i \in 1 .. length[at[h] + n] : HullAt(at[h] + n)[i] = point[at[h] + n + i - 1]
  <2>1. length[(2 * v + 1) * n] <= MAX_HULL
    BY <1>8, <1>10
  <2> QED  BY <1>7, <1>8, <1>9, <1>11, <2>1, ReadyStored
<1>14. \E x, y : Packed(h, x, y)'
  <2>1. PICK x, y : x = HullAt(at[h]) /\ y = HullAt(at[h] + n)
    OBVIOUS
  <2>2. /\ \E d : Held(x, d, at[h], n, level[h])
        /\ \E e : Held(y, e, at[h] + n, n, level[h])
    BY <1>12, <1>13, <2>1
  <2>3. /\ Len(x) \in 1 .. n /\ Len(y) \in 1 .. n /\ length[at[h] + n] = Len(y)
        /\ \A i \in 1 .. Len(x) : point[at[h] + i - 1] = x[i]
        /\ \A i \in 1 .. Len(y) : point[at[h] + n + i - 1] = y[i]
    BY <1>12, <1>13, <2>1
  <2>4. data'[h] = <<Padded(x), Padded(y)>>
    BY <1>4, <1>10, <2>1
  <2>5. n' = n
    BY <1>2
  <2> HIDE DEF n
  <2>6. \A d : Held(x, d, at[h], n, level[h]) => Held(x, d, at[h], n, level[h])'
    BY <1>2, <2>5 DEF Held, Few, Stored, Part, IsHullOf
  <2>7. \A e : Held(y, e, at[h] + n, n, level[h]) => Held(y, e, at[h] + n, n, level[h])'
    BY <1>2, <2>5 DEF Held, Few, Stored, Part, IsHullOf
  <2>8. (\E d : Held(x, d, at[h], n, level[h])') /\ (\E e : Held(y, e, at[h] + n, n, level[h])')
    BY <2>2, <2>6, <2>7
  <2>9. Packed(h, x, y)'
    BY <1>2, <1>4, <2>3, <2>4, <2>5, <2>8 DEF Packed, n
  <2> QED  BY <2>9
<1>15. PairInv'
  <2> SUFFICES ASSUME NEW g \in Participant
               PROVE  /\ pc'[g] \in {"pack", "search", "update", "move"}
                      /\ g \in inside' => at'[g] >= POINTS
                      /\ pc'[g] # "pack" => Working(g)' /\ \E x, y : Packed(g, x, y)'
    BY DEF PairInv
  <2>1. CASE g = h
    <3>1. h \notin inside /\ Working(h)'
      BY <1>2 DEF Working
    <3> QED  BY <1>2, <1>4, <1>14, <2>1, <3>1
  <2>2. CASE g # h
    <3>1. \A f \in Participant \ {h} :
            at'[f] = at[f] /\ pc'[f] = pc[f] /\ data'[f] = data[f] /\ index'[f] = index[f]
      BY <1>2, <1>4
    <3> QED  BY <1>1, <1>2, <1>6, <2>2, <3>1, Untouched
  <2> QED  BY <2>1, <2>2
<1> QED  BY <1>3, <1>5, <1>15 DEF HullInv

LEMMA SearchHullInv ==
  ASSUME HullInv, NEW h \in Participant, Search(h)
  PROVE  HullInv'
<1>1. RegionInv /\ KindInv /\ PairInv /\ KeptInv
  BY DEF HullInv
<1>2. /\ pc[h] = "search" /\ Working(h)
      /\ index' = [index EXCEPT ![h] = TangentIndices(data[h][1], data[h][2])]
      /\ pc' = [pc EXCEPT ![h] = "update"]
      /\ UNCHANGED <<original, point, length, level, inside, at, data>>
  BY <1>1 DEF Search, Goto, PairInv
<1>3. RegionInv' /\ KindInv'
  BY <1>1, <1>2, StayPut DEF KindInv
<1>4. /\ pc'[h] = "update" /\ index'[h] = TangentIndices(data[h][1], data[h][2])
      /\ \A g \in Participant \ {h} : pc'[g] = pc[g] /\ index'[g] = index[g]
  BY <1>1, <1>2 DEF KindInv
<1>5. KeptInv'
  <2>1. \A g \in Participant : pc[g] = "move" => pc'[g] = "move"
    BY <1>2, <1>4
  <2>2. \A k \in 0 .. DEPTH, u \in Nat : Kept(k, u)' => Kept(k, u)
    BY <1>2, <2>1, KeptBack
  <2> QED  BY <1>1, <1>2, <2>2, KeptStays
<1>6. PICK v \in Nat : Owns(h, v) /\ at[h] = v * (2 * Interval(level[h]))
  BY <1>1, <1>2, AtPair
<1>7. PICK s, t : Packed(h, s, t)
  BY <1>1, <1>2 DEF PairInv
<1>8. Packed(h, s, t)'
  <2> DEFINE n == Interval(level[h])
  <2>1. /\ \E d : Held(s, d, at[h], n, level[h])
        /\ \E e : Held(t, e, at[h] + n, n, level[h])
        /\ Len(s) \in 1 .. n /\ Len(t) \in 1 .. n
        /\ length[at[h] + n] = Len(t)
        /\ \A i \in 1 .. Len(s) : point[at[h] + i - 1] = s[i]
        /\ \A i \in 1 .. Len(t) : point[at[h] + n + i - 1] = t[i]
        /\ data[h] = <<Padded(s), Padded(t)>>
    BY <1>2, <1>7 DEF Packed
  <2>2. index'[h] = TangentIndices(Padded(s), Padded(t))
    BY <1>4, <2>1
  <2>3. n' = n
    BY <1>2
  <2> HIDE DEF n
  <2>4. \A d : Held(s, d, at[h], n, level[h]) => Held(s, d, at[h], n, level[h])'
    BY <1>2, <2>3 DEF Held, Few, Stored, Part, IsHullOf
  <2>5. \A e : Held(t, e, at[h] + n, n, level[h]) => Held(t, e, at[h] + n, n, level[h])'
    BY <1>2, <2>3 DEF Held, Few, Stored, Part, IsHullOf
  <2>6. (\E d : Held(s, d, at[h], n, level[h])') /\ (\E e : Held(t, e, at[h] + n, n, level[h])')
    BY <2>1, <2>4, <2>5
  <2> QED  BY <1>2, <1>4, <2>1, <2>2, <2>3, <2>6 DEF Packed, n
<1>9. PairInv'
  <2> SUFFICES ASSUME NEW g \in Participant
               PROVE  /\ pc'[g] \in {"pack", "search", "update", "move"}
                      /\ g \in inside' => at'[g] >= POINTS
                      /\ pc'[g] # "pack" => Working(g)' /\ \E x, y : Packed(g, x, y)'
    BY DEF PairInv
  <2>1. CASE g = h
    <3>1. h \notin inside /\ Working(h)'
      BY <1>2 DEF Working
    <3> QED  BY <1>2, <1>4, <1>8, <2>1, <3>1
  <2>2. CASE g # h
    <3>1. \A f \in Participant \ {h} :
            at'[f] = at[f] /\ pc'[f] = pc[f] /\ data'[f] = data[f] /\ index'[f] = index[f]
      BY <1>2, <1>4
    <3> QED  BY <1>1, <1>2, <1>6, <2>2, <3>1, Untouched
  <2> QED  BY <2>1, <2>2
<1> QED  BY <1>3, <1>5, <1>9 DEF HullInv

LEMMA UpdateHullInv ==
  ASSUME HullInv, NEW h \in Participant, Update(h)
  PROVE  HullInv'
<1> DEFINE l == level[h]
           n == Interval(level[h])
<1>1. RegionInv /\ KindInv /\ PairInv /\ KeptInv
  BY DEF HullInv
<1>2. /\ pc[h] = "update" /\ Working(h)
      /\ length' = [length EXCEPT ![at[h]] = index[h][1] + 1 + Moved(h)]
      /\ pc' = [pc EXCEPT ![h] = "move"]
      /\ UNCHANGED <<original, point, level, inside, at, data, index>>
  BY <1>1 DEF Update, Goto, PairInv
<1>3. RegionInv' /\ KindInv'
  BY <1>1, <1>2, StayPut DEF KindInv
<1>4. /\ pc'[h] = "move"
      /\ \A g \in Participant \ {h} : pc'[g] = pc[g]
  BY <1>1, <1>2 DEF KindInv
<1>5. PICK v \in Nat : Owns(h, v) /\ at[h] = v * (2 * Interval(level[h]))
  BY <1>1, <1>2, AtPair
<1>6. /\ l \in 0 .. DEPTH - 1 /\ n \in Nat /\ n >= 2 /\ at[h] \in Nat
      /\ Region(h) = at[h] .. at[h] + 2 * n - 1 /\ Region(h) \subseteq Slot
  BY <1>1, <1>2, AtPair
<1>7. at[h] \in Region(h) /\ at[h] \in Slot /\ at[h] + n # at[h] /\ at[h] + n \in Slot
      /\ at[h] + n \in Region(h)
  BY <1>6, SMT
<1>8. /\ length'[at[h]] = index[h][1] + 1 + Moved(h)
      /\ \A x \in Slot \ {at[h]} : length'[x] = length[x]
  BY <1>1, <1>2, <1>7 DEF KindInv
<1>9. /\ \A g \in Participant \ {h} :
           /\ pc'[g] \in {"pack", "search", "update", "move"}
           /\ g \in inside' => at'[g] >= POINTS
           /\ pc'[g] # "pack" => Working(g)' /\ \E s, t : Packed(g, s, t)'
      /\ \A k \in 0 .. DEPTH, u \in Nat :
           /\ u * Interval(k) < POINTS /\ Kept(k, u)
           /\ ~ (k = level[h] /\ (u = 2 * v \/ u = 2 * v + 1))
           => Ready(k, u)'
  <2>1. \A g \in Participant \ {h} :
          at'[g] = at[g] /\ pc'[g] = pc[g] /\ data'[g] = data[g] /\ index'[g] = index[g]
    BY <1>2, <1>4
  <2>2. \A x \in Slot \ Region(h) : point'[x] = point[x] /\ length'[x] = length[x]
    BY <1>2, <1>7, <1>8
  <2> QED  BY <1>1, <1>2, <1>5, <2>1, <2>2, Untouched
<1>10. KeptInv'
  <2> SUFFICES ASSUME NEW k \in 0 .. DEPTH, NEW u \in Nat, u * Interval(k) < POINTS, Kept(k, u)'
               PROVE  Ready(k, u)'
    BY DEF KeptInv
  <2>1. \A g \in Participant : pc[g] = "move" => pc'[g] = "move"
    BY <1>2, <1>4
  <2>2. Kept(k, u)
    BY <1>2, <2>1, KeptBack
  <2>3. ASSUME k = level[h], u = 2 * v \/ u = 2 * v + 1 PROVE FALSE
    <3>1. k # DEPTH
      BY <1>6, <2>3, HullSizes, SMT
    <3>2. PICK g \in Participant, x \in Nat :
            Owns(g, x) /\ (u = 2 * x \/ u = 2 * x + 1) /\ ~ Begun(g, k, x)'
      BY <3>1 DEF Kept, Owns
    <3>3. x = v
      BY <2>3, <3>2, SMT
    <3>4. g = h
      BY <1>5, <3>2, <3>3, OneOwner
    <3>5. Begun(h, k, v)'
      BY <1>2, <1>4, <1>5, <2>3 DEF Begun
    <3> QED  BY <3>2, <3>3, <3>4, <3>5
  <2> QED  BY <1>9, <2>2, <2>3
<1>11. PICK s, t : Packed(h, s, t)
  BY <1>1, <1>2 DEF PairInv
<1>12. Packed(h, s, t)'
  <2>1. /\ \E d : Held(s, d, at[h], n, level[h])
        /\ \E e : Held(t, e, at[h] + n, n, level[h])
        /\ Len(s) \in 1 .. n /\ Len(t) \in 1 .. n
        /\ length[at[h] + n] = Len(t)
        /\ \A i \in 1 .. Len(s) : point[at[h] + i - 1] = s[i]
        /\ \A i \in 1 .. Len(t) : point[at[h] + n + i - 1] = t[i]
        /\ index[h] = TangentIndices(Padded(s), Padded(t))
    BY <1>2, <1>11 DEF Packed
  <2>2. length'[at[h] + n] = Len(t) /\ length'[at[h]] = index[h][1] + 1 + (Len(t) - index[h][2])
    BY <1>7, <1>8, <2>1 DEF Moved, Other
  <2>3. n' = n
    BY <1>2
  <2> HIDE DEF n
  <2>4. \A d : Held(s, d, at[h], n, level[h]) => Held(s, d, at[h], n, level[h])'
    BY <1>2, <2>3 DEF Held, Few, Stored, Part, IsHullOf
  <2>5. \A e : Held(t, e, at[h] + n, n, level[h]) => Held(t, e, at[h] + n, n, level[h])'
    BY <1>2, <2>3 DEF Held, Few, Stored, Part, IsHullOf
  <2>6. (\E d : Held(s, d, at[h], n, level[h])') /\ (\E e : Held(t, e, at[h] + n, n, level[h])')
    BY <2>1, <2>4, <2>5
  <2> QED  BY <1>2, <1>4, <2>1, <2>2, <2>3, <2>6 DEF Packed, n
<1>13. PairInv'
  <2> SUFFICES ASSUME NEW g \in Participant
               PROVE  /\ pc'[g] \in {"pack", "search", "update", "move"}
                      /\ g \in inside' => at'[g] >= POINTS
                      /\ pc'[g] # "pack" => Working(g)' /\ \E x, y : Packed(g, x, y)'
    BY DEF PairInv
  <2>1. CASE g = h
    <3>1. h \notin inside /\ Working(h)'
      BY <1>2 DEF Working
    <3> QED  BY <1>2, <1>4, <1>12, <2>1, <3>1
  <2>2. CASE g # h
    BY <1>9, <2>2
  <2> QED  BY <2>1, <2>2
<1> QED  BY <1>3, <1>10, <1>13 DEF HullInv

\* What a hart that moves has found.
Moving(h, s, t, i, j) ==
  LET n == Interval(level[h])
  IN  /\ index[h][1] = i /\ index[h][2] = j
      /\ Moved(h) = Len(t) - j /\ length[at[h]] = i + 1 + (Len(t) - j)
      /\ Len(s) \in 1 .. n /\ Len(t) \in 1 .. n /\ Len(t) \in 1 .. MAX_HULL
      /\ \A x \in 1 .. Len(s) : point[at[h] + x - 1] = s[x]
      /\ \A x \in 1 .. Len(t) : point[at[h] + n + x - 1] = t[x]
      /\ Len(Joint(s, t, i, j)) = i + 1 + (Len(t) - j)
      /\ IsHullOf(Joint(s, t, i, j), at[h], n + n)
      /\ OneHalf(at[h], n + n) =>
           \E c : Shape(Joint(s, t, i, j), c) /\ Few(Joint(s, t, i, j), c, level[h] + 1)

LEMMA AtMove ==
  ASSUME NEW h \in Participant, pc[h] = "move", level[h] \in Nat,
         NEW s, NEW t, Packed(h, s, t)
  PROVE  \E i \in 0 .. Len(s) - 1, j \in 0 .. Len(t) - 1 : Moving(h, s, t, i, j)
<1> DEFINE n == Interval(level[h])
<1>1. /\ \E d : Held(s, d, at[h], n, level[h])
      /\ \E e : Held(t, e, at[h] + n, n, level[h])
      /\ Len(s) \in 1 .. n /\ Len(t) \in 1 .. n
      /\ length[at[h] + n] = Len(t)
      /\ \A i \in 1 .. Len(s) : point[at[h] + i - 1] = s[i]
      /\ \A i \in 1 .. Len(t) : point[at[h] + n + i - 1] = t[i]
      /\ index[h] = TangentIndices(Padded(s), Padded(t))
      /\ length[at[h]] = index[h][1] + 1 + (Len(t) - index[h][2])
  BY DEF Packed
<1>2. PICK d, e : /\ Stored(s, d, at[h], n) /\ Few(s, d, level[h])
                  /\ Stored(t, e, at[h] + n, n) /\ Few(t, e, level[h])
  BY <1>1 DEF Held
<1>3. PICK i \in 0 .. Len(s) - 1, j \in 0 .. Len(t) - 1 :
        /\ TangentIndices(Padded(s), Padded(t)) = <<i, j>>
        /\ IsHullOf(Joint(s, t, i, j), at[h], n + n)
        /\ OneHalf(at[h], n + n) =>
           \E c : Shape(Joint(s, t, i, j), c) /\ Few(Joint(s, t, i, j), c, level[h] + 1)
  <2> HIDE DEF n
  <2> QED  BY <1>2, MergeIsHull
<1>4. Len(t) \in 1 .. MAX_HULL
  BY <1>2 DEF Stored
<1>5. index[h][1] = i /\ index[h][2] = j
  BY <1>1, <1>3
<1>6. Moved(h) = Len(t) - j /\ length[at[h]] = i + 1 + (Len(t) - j)
  BY <1>1, <1>5 DEF Moved, Other
<1>7. Len(Joint(s, t, i, j)) = i + 1 + (Len(t) - j)
  <2> HIDE DEF n
  <2>1. Len(t) \in Nat
    BY <1>1, SMT
  <2>2. i + 1 + (Len(t) - j) \in Nat
    BY <2>1, SMT
  <2> QED  BY <2>2 DEF Joint
<1> HIDE DEF n
<1>8. /\ index[h][1] = i /\ index[h][2] = j
      /\ Moved(h) = Len(t) - j /\ length[at[h]] = i + 1 + (Len(t) - j)
      /\ Len(s) \in 1 .. n /\ Len(t) \in 1 .. n /\ Len(t) \in 1 .. MAX_HULL
      /\ \A x \in 1 .. Len(s) : point[at[h] + x - 1] = s[x]
      /\ \A x \in 1 .. Len(t) : point[at[h] + n + x - 1] = t[x]
      /\ Len(Joint(s, t, i, j)) = i + 1 + (Len(t) - j)
      /\ IsHullOf(Joint(s, t, i, j), at[h], n + n)
      /\ OneHalf(at[h], n + n) =>
           \E c : Shape(Joint(s, t, i, j), c) /\ Few(Joint(s, t, i, j), c, level[h] + 1)
  BY <1>1, <1>3, <1>4, <1>5, <1>6, <1>7
<1>9. Moving(h, s, t, i, j)
  BY <1>8 DEF Moving, n
<1> QED  BY <1>9

\* The move leaves the joint of the two hulls in the array.
LEMMA MoveMakes ==
  ASSUME RegionInv, KindInv, NEW h \in Participant, Working(h), Move(h),
         NEW s, NEW t, Packed(h, s, t),
         NEW v \in Nat, at[h] = v * (2 * Interval(level[h])), NEW k, k = level[h] + 1
  PROVE  Ready(k, v)'
<1> DEFINE l == level[h]
           n == Interval(level[h])
           b == at[h]
<1>1. /\ l \in 0 .. DEPTH - 1 /\ l + 1 \in 0 .. DEPTH /\ l \in Nat
      /\ n \in Nat /\ n >= 2 /\ b \in Nat
      /\ Interval(l + 1) = 2 * n /\ b < POINTS
      /\ b .. b + 2 * n - 1 \subseteq Slot
  <2>1. /\ l \in 0 .. DEPTH - 1 /\ l + 1 \in 0 .. DEPTH /\ n \in Nat /\ n >= 2 /\ b \in Nat
        /\ Interval(l + 1) = 2 * n /\ b < POINTS
        /\ b .. b + 2 * n - 1 \subseteq Slot
    BY AtPair DEF Working
  <2>2. l \in Nat
    <3> HIDE DEF l
    <3> QED  BY <2>1, SMT
  <2> QED  BY <2>1, <2>2
<1>2. /\ pc[h] = "move" /\ UNCHANGED <<original, length, level, index>>
      /\ LET to   == at[h] + index[h][1] + 1
             from == Other(h) + index[h][2]
         IN  point' = [i \in Slot |->
               IF i \in to .. to + Moved(h) - 1 THEN point[from + i - to] ELSE point[i]]
  BY DEF Move
<1>3. PICK i \in 0 .. Len(s) - 1, j \in 0 .. Len(t) - 1 :
        /\ index[h][1] = i /\ index[h][2] = j
        /\ Moved(h) = Len(t) - j /\ length[b] = i + 1 + (Len(t) - j)
        /\ Len(s) \in 1 .. n /\ Len(t) \in 1 .. n
        /\ \A x \in 1 .. Len(s) : point[b + x - 1] = s[x]
        /\ \A x \in 1 .. Len(t) : point[b + n + x - 1] = t[x]
        /\ Len(Joint(s, t, i, j)) = i + 1 + (Len(t) - j)
        /\ IsHullOf(Joint(s, t, i, j), b, n + n)
        /\ OneHalf(b, n + n) =>
             \E c : Shape(Joint(s, t, i, j), c) /\ Few(Joint(s, t, i, j), c, level[h] + 1)
  <2>1. PICK i \in 0 .. Len(s) - 1, j \in 0 .. Len(t) - 1 : Moving(h, s, t, i, j)
    BY <1>1, <1>2, AtMove
  <2> WITNESS i \in 0 .. Len(s) - 1, j \in 0 .. Len(t) - 1
  <2> QED  BY <2>1 DEF Moving
<1> DEFINE to == b + i + 1
           from == (b + n) + j
           len == i + 1 + (Len(t) - j)
           u == Joint(s, t, i, j)
<1>4. point' = [x \in Slot |->
         IF x \in to .. to + (Len(t) - j) - 1 THEN point[from + x - to] ELSE point[x]]
  BY <1>2, <1>3 DEF Other
<1>5. u = [x \in 1 .. len |-> IF x <= i + 1 THEN s[x] ELSE t[x - (i + 1) + j]]
  BY DEF Joint
<1>6. Len(s) \in Nat /\ Len(t) \in Nat /\ i \in Nat /\ j \in Nat
      /\ i < Len(s) /\ j < Len(t) /\ Len(s) <= n /\ Len(t) <= n
  <2> HIDE DEF l, n, b, u, len, to, from
  <2>1. Len(s) \in Nat /\ Len(t) \in Nat /\ Len(s) <= n /\ Len(t) <= n
    BY <1>1, <1>3, SMT
  <2>2. i \in Nat /\ j \in Nat /\ i < Len(s) /\ j < Len(t)
    BY <2>1, SMT
  <2> QED  BY <2>1, <2>2
<1> HIDE DEF l, n, b, u
<1>7. ASSUME NEW x \in 1 .. len PROVE point'[b + x - 1] = u[x]
  <2>1. b + x - 1 \in Slot
    <3>1. b + x - 1 \in b .. b + 2 * n - 1
      BY <1>1, <1>6, SMT
    <3> QED  BY <1>1, <3>1
  <2>2. CASE x <= i + 1
    <3>1. b + x - 1 \notin to .. to + (Len(t) - j) - 1 /\ x \in 1 .. Len(s)
      BY <1>1, <1>6, <2>2, SMT
    <3>2. point'[b + x - 1] = point[b + x - 1]
      BY <1>4, <2>1, <3>1
    <3> QED  BY <1>3, <1>5, <2>2, <3>1, <3>2
  <2>3. CASE ~ (x <= i + 1)
    <3> DEFINE y == x - (i + 1) + j
    <3>1. /\ b + x - 1 \in to .. to + (Len(t) - j) - 1 /\ y \in 1 .. Len(t)
          /\ from + (b + x - 1) - to = b + n + y - 1
      BY <1>1, <1>6, <2>3, SMT
    <3>2. point'[b + x - 1] = point[from + (b + x - 1) - to]
      BY <1>4, <2>1, <3>1
    <3>3. u[x] = t[y]
      BY <1>5, <2>3
    <3> QED  BY <1>3, <3>1, <3>2, <3>3
  <2> QED  BY <2>2, <2>3
<1>8. length'[b] = len /\ len \in 1 .. 2 * n
  BY <1>1, <1>2, <1>3, <1>6, SMT DEF b
<1>9. [x \in 1 .. length'[b] |-> point'[b + x - 1]] = u
  <2>1. u = [x \in 1 .. len |-> u[x]]
    BY <1>5
  <2> HIDE DEF len
  <2> QED  BY <1>7, <1>8, <2>1
<1>10. PICK c : c = b
  OBVIOUS
<1>11. HullAt(c)' = u
  BY <1>9, <1>10 DEF HullAt
<1>12. n + n = 2 * n
  BY <1>1, SMT
<1>13. PICK w : w = u
  OBVIOUS
<1>14. PICK m : m = 2 * n
  OBVIOUS
<1>15. IsHullOf(w, c, m)' /\ HullAt(c)' = w
  <2>1. IsHullOf(w, c, m)
    BY <1>3, <1>10, <1>12, <1>13, <1>14 DEF u
  <2>2. IsHullOf(w, c, m)'
    BY <1>2, <2>1 DEF IsHullOf
  <2>3. HullAt(c)' = w
    BY <1>11, <1>13
  <2> QED  BY <2>2, <2>3
<1>16. c = v * Interval(l + 1) /\ m = Interval(l + 1)
  BY <1>1, <1>10, <1>14 DEF b, n, l
<1>17. l + 1 < DEPTH => \E d : Shape(w, d) /\ Few(w, d, l + 1)
  <2> SUFFICES ASSUME l + 1 < DEPTH PROVE \E d : Shape(w, d) /\ Few(w, d, l + 1)
    OBVIOUS
  <2>1. OneHalf(c, m)
    <3>1. v * Interval(l + 1) < POINTS
      BY <1>1, <1>10, <1>16
    <3> QED  BY <1>1, <1>16, <3>1, Room DEF KindInv
  <2>2. \E x : Shape(u, x) /\ Few(u, x, level[h] + 1)
    BY <1>3, <1>10, <1>12, <1>14, <2>1 DEF u
  <2>3. level[h] = l
    BY DEF l
  <2> QED  BY <1>13, <2>2, <2>3
<1>18. k = l + 1
  BY DEF l
<1> QED
  <2>1. c = v * Interval(k) /\ m = Interval(k) /\ (k < DEPTH => \E d : Shape(w, d) /\ Few(w, d, k))
    BY <1>16, <1>17, <1>18
  <2>2. length'[c] \in 1 .. m
    BY <1>8, <1>10, <1>14
  <2> QED  BY <1>15, <2>1, <2>2 DEF Ready

LEMMA MoveHullInv ==
  ASSUME HullInv, NEW h \in Participant, Move(h)
  PROVE  HullInv'
<1> DEFINE l == level[h]
           n == Interval(level[h])
<1>1. RegionInv /\ KindInv /\ PairInv /\ KeptInv
  BY DEF HullInv
<1>2. /\ pc[h] = "move" /\ Working(h)
      /\ at' = [at EXCEPT ![h] = @ + Stride(level[h])]
      /\ pc' = [pc EXCEPT ![h] = "pack"]
      /\ UNCHANGED <<original, length, level, inside, data, index>>
  BY <1>1 DEF Move, Goto, PairInv
<1>3. RegionInv' /\ KindInv'
  BY <1>1, <1>2, MoveRegionInv DEF KindInv
<1>4. /\ pc'[h] = "pack" /\ at'[h] = at[h] + 2 * PROCESSORS * n
      /\ \A g \in Participant \ {h} : pc'[g] = pc[g] /\ at'[g] = at[g]
  BY <1>1, <1>2 DEF KindInv, RegionInv, ShapeInv, Stride
<1>5. PICK v \in Nat : Owns(h, v) /\ at[h] = v * (2 * Interval(level[h]))
  BY <1>1, <1>2, AtPair
<1>6. /\ l \in 0 .. DEPTH - 1 /\ n \in Nat /\ n >= 2 /\ at[h] \in Nat /\ l \in Nat
      /\ Interval(l + 1) = 2 * n
      /\ Region(h) = at[h] .. at[h] + 2 * n - 1 /\ Region(h) \subseteq Slot
      /\ PROCESSORS \in Nat \ {0}
  <2>1. /\ l \in 0 .. DEPTH - 1 /\ n \in Nat /\ n >= 2 /\ at[h] \in Nat
        /\ Interval(l + 1) = 2 * n
        /\ Region(h) = at[h] .. at[h] + 2 * n - 1 /\ Region(h) \subseteq Slot
    BY <1>1, <1>2, AtPair
  <2> QED  BY <2>1, HullSizes, SMT
<1>7. PICK s, t : Packed(h, s, t)
  BY <1>1, <1>2 DEF PairInv
<1>8. ASSUME NEW k, k = l + 1 PROVE Ready(k, v)'
  BY <1>1, <1>2, <1>5, <1>7, <1>8, MoveMakes
<1>9. \A x \in Slot \ Region(h) : point'[x] = point[x]
  <2>1. PICK i \in 0 .. Len(s) - 1, j \in 0 .. Len(t) - 1 :
          /\ index[h][1] = i /\ index[h][2] = j
          /\ Moved(h) = Len(t) - j /\ length[at[h]] = i + 1 + (Len(t) - j)
          /\ Len(s) \in 1 .. n /\ Len(t) \in 1 .. n
    <3>1. PICK i \in 0 .. Len(s) - 1, j \in 0 .. Len(t) - 1 : Moving(h, s, t, i, j)
      BY <1>2, <1>6, <1>7, AtMove
    <3> WITNESS i \in 0 .. Len(s) - 1, j \in 0 .. Len(t) - 1
    <3> QED  BY <3>1 DEF Moving
  <2> DEFINE to == at[h] + i + 1
  <2>2. point' = [x \in Slot |->
           IF x \in to .. to + (Len(t) - j) - 1
             THEN point[Other(h) + index[h][2] + x - (at[h] + index[h][1] + 1)] ELSE point[x]]
    BY <2>1 DEF Move
  <2>3. \A x \in to .. to + (Len(t) - j) - 1 : x \in Region(h)
    <3> HIDE DEF n, l
    <3>1. Len(s) \in Nat /\ Len(t) \in Nat /\ Len(s) <= n /\ Len(t) <= n
      BY <1>6, <2>1, SMT
    <3>2. i \in Nat /\ j \in Nat /\ i < Len(s) /\ j < Len(t)
      BY <3>1, SMT
    <3>3. \A x \in to .. to + (Len(t) - j) - 1 : x \in at[h] .. at[h] + 2 * n - 1
      BY <1>6, <3>1, <3>2, SMT
    <3> QED  BY <1>6, <3>3
  <2> HIDE DEF to
  <2> QED  BY <2>2, <2>3
<1>10. /\ \A g \in Participant \ {h} :
            /\ pc'[g] \in {"pack", "search", "update", "move"}
            /\ g \in inside' => at'[g] >= POINTS
            /\ pc'[g] # "pack" => Working(g)' /\ \E x, y : Packed(g, x, y)'
       /\ \A k \in 0 .. DEPTH, u \in Nat :
            /\ u * Interval(k) < POINTS /\ Kept(k, u)
            /\ ~ (k = level[h] /\ (u = 2 * v \/ u = 2 * v + 1))
            => Ready(k, u)'
  <2>1. \A g \in Participant \ {h} :
          at'[g] = at[g] /\ pc'[g] = pc[g] /\ data'[g] = data[g] /\ index'[g] = index[g]
    BY <1>2, <1>4
  <2>2. \A x \in Slot \ Region(h) : point'[x] = point[x] /\ length'[x] = length[x]
    BY <1>2, <1>9
  <2> QED  BY <1>1, <1>2, <1>5, <2>1, <2>2, Untouched
\* One more pair is done, the one of hart h.
<1>11. at'[h] = (v + PROCESSORS) * (2 * n)
  <2>1. at[h] = v * (2 * n)
    BY <1>5
  <2> HIDE DEF n
  <2>2. v * (2 * n) + 2 * PROCESSORS * n = (v + PROCESSORS) * (2 * n)
    BY <1>6, SMT
  <2> QED  BY <1>4, <2>1, <2>2
<1>12. ASSUME NEW a \in Nat, NEW c \in Nat PROVE a * (2 * n) < c * (2 * n) => a < c
  <2> SUFFICES ASSUME a * (2 * n) < c * (2 * n), c <= a PROVE FALSE
    BY SMT
  <2>1. PICK z \in Nat : a = c + z
    <3>1. a = c + (a - c) /\ a - c \in Nat
      BY SMT
    <3> QED  BY <3>1
  <2>2. a * (2 * n) < c * (2 * n)
    OBVIOUS
  <2> HIDE DEF n
  <2>3. a * (2 * n) = c * (2 * n) + z * (2 * n) /\ z * (2 * n) \in Nat /\ c * (2 * n) \in Nat
    BY <1>6, <2>1, SMT
  <2> QED  BY <2>2, <2>3, SMT
<1>13. ASSUME NEW g \in Participant, NEW k, NEW x \in Nat, Owns(g, x), Done(g, k, x)'
       PROVE  Done(g, k, x) \/ (g = h /\ k = l /\ x = v)
  <2>1. CASE g # h
    BY <1>2, <1>4, <1>13, <2>1 DEF Done
  <2>2. CASE g = h
    <3>1. level[h] > k \/ (level[h] = k /\ at'[h] > x * (2 * Interval(k)))
      BY <1>2, <1>13, <2>2 DEF Done
    <3>2. CASE level[h] > k
      BY <2>2, <3>2 DEF Done
    <3>3. CASE level[h] = k /\ at'[h] > x * (2 * n)
      <4>1. v + PROCESSORS \in Nat
        BY <1>6, SMT
      <4>2. x * (2 * n) < (v + PROCESSORS) * (2 * n)
        BY <1>11, <3>3
      <4>3. x < v + PROCESSORS
        BY <1>12, <4>1, <4>2
      <4>4. x <= v
        BY <1>5, <1>13, <2>2, <4>3, NextOwned
      <4>5. CASE x = v
        BY <2>2, <3>3, <4>5
      <4>6. CASE x < v
        <5>1. PICK z \in Nat : v = x + 1 + z
          <6>1. v = x + 1 + (v - x - 1) /\ v - x - 1 \in Nat
            BY <4>6, SMT
          <6> QED  BY <6>1
        <5>2. v * (2 * n) > x * (2 * n)
          <6> HIDE DEF n
          <6>1. v * (2 * n) = x * (2 * n) + 2 * n + z * (2 * n) /\ z * (2 * n) \in Nat /\ x * (2 * n) \in Nat
            BY <1>6, <5>1, SMT
          <6> QED  BY <1>6, <6>1, SMT
        <5> QED  BY <1>5, <2>2, <3>3, <5>2 DEF Done
      <4> QED  BY <4>4, <4>5, <4>6, SMT
    <3> QED  BY <3>1, <3>2, <3>3
  <2> QED  BY <2>1, <2>2
<1>14. ASSUME NEW k, k = l PROVE Done(h, k, v)'
  <2>1. at'[h] > v * (2 * n)
    <3>1. at[h] = v * (2 * n) /\ at'[h] = at[h] + 2 * PROCESSORS * n
      BY <1>4, <1>5
    <3> HIDE DEF n
    <3>2. 2 * PROCESSORS * n > 0 /\ 2 * PROCESSORS * n \in Int
      <4>1. PROCESSORS * n > 0 /\ PROCESSORS * n \in Nat /\ 2 * PROCESSORS * n = 2 * (PROCESSORS * n)
        BY <1>6, SMT
      <4> QED  BY <4>1, SMT
    <3> QED  BY <1>6, <3>1, <3>2, SMT
  <2> QED  BY <1>2, <1>14, <2>1 DEF Done
<1>15. KeptInv'
  <2> SUFFICES ASSUME NEW k \in 0 .. DEPTH, NEW u \in Nat, u * Interval(k) < POINTS, Kept(k, u)'
               PROVE  Ready(k, u)'
    BY DEF KeptInv
  <2>1. CASE k = l + 1 /\ u = v
    BY <1>8, <2>1
  <2>2. CASE ~ (k = l + 1 /\ u = v)
    <3>1. ASSUME k # 0 PROVE \E g \in Participant : Owns(g, u) /\ Done(g, k - 1, u)
      <4>1. PICK g \in Participant : Owns(g, u) /\ Done(g, k - 1, u)'
        BY <3>1 DEF Kept, Owns
      <4>2. Done(g, k - 1, u) \/ (g = h /\ k - 1 = l /\ u = v)
        BY <1>13, <4>1
      <4>3. k - 1 = l => k = l + 1
        BY <1>6, HullSizes, SMT
      <4> QED  BY <2>2, <4>1, <4>2, <4>3
    <3>2. ASSUME k # DEPTH
          PROVE  \E g \in Participant, x \in Nat :
                   /\ Owns(g, x) /\ (u = 2 * x \/ u = 2 * x + 1) /\ ~ Begun(g, k, x)
                   /\ ~ (k = l /\ x = v)
      <4>1. PICK g \in Participant, x \in Nat :
              Owns(g, x) /\ (u = 2 * x \/ u = 2 * x + 1) /\ ~ Begun(g, k, x)'
        BY <3>2 DEF Kept, Owns
      <4>2. ~ (k = l /\ x = v)
        <5> SUFFICES ASSUME k = l, x = v PROVE FALSE
          OBVIOUS
        <5>1. g = h
          BY <1>5, <4>1, OneOwner
        <5>2. Begun(h, k, v)'
          BY <1>14 DEF Begun
        <5> QED  BY <4>1, <5>1, <5>2
      <4>3. ~ Begun(g, k, x)
        <5>1. CASE g # h
          BY <1>2, <1>4, <4>1, <5>1 DEF Begun, Done
        <5>2. CASE g = h
          <6>1. ~ (level[h] > k) /\ (level[h] = k => ~ (at'[h] > x * (2 * Interval(k))))
            BY <1>2, <4>1, <5>2 DEF Begun, Done
          <6>2. CASE level[h] # k
            BY <5>2, <6>1, <6>2 DEF Begun, Done
          <6>3. CASE level[h] = k
            <7>1. ~ (at'[h] > x * (2 * n))
              BY <6>1, <6>3
            <7>2. at'[h] = at[h] + 2 * PROCESSORS * n /\ at[h] = v * (2 * n) /\ at'[h] > v * (2 * n)
              <8>1. at'[h] > v * (2 * n)
                <9>1. Done(h, k, v)' /\ level'[h] = k /\ n = Interval(k)
                  BY <1>2, <1>14, <6>3
                <9>2. ~ (level'[h] > k)
                  BY <1>6, <6>3, <9>1, SMT
                <9> QED  BY <9>1, <9>2 DEF Done
              <8> QED  BY <1>4, <1>5, <8>1
            <7>3. x * (2 * n) \in Nat /\ v * (2 * n) \in Nat /\ at'[h] \in Int
              <8> DEFINE y == v + PROCESSORS
              <8>1. y \in Nat /\ at'[h] = y * (2 * n)
                BY <1>6, <1>11, SMT
              <8> HIDE DEF n, y
              <8> QED  BY <1>6, <8>1, SMT
            <7>4. at[h] < x * (2 * n)
              BY <7>1, <7>2, <7>3, SMT
            <7> QED  BY <1>6, <5>2, <6>3, <7>3, <7>4, SMT DEF Begun, Done
          <6> QED  BY <6>2, <6>3
        <5> QED  BY <5>1, <5>2
      <4> QED  BY <4>1, <4>2, <4>3
    <3>3. Kept(k, u)
      BY <3>1, <3>2 DEF Kept
    <3>4. ~ (k = level[h] /\ (u = 2 * v \/ u = 2 * v + 1))
      <4> SUFFICES ASSUME k = level[h], u = 2 * v \/ u = 2 * v + 1 PROVE FALSE
        OBVIOUS
      <4>1. k # DEPTH
        BY <1>6, HullSizes, SMT
      <4>2. PICK x \in Nat : (u = 2 * x \/ u = 2 * x + 1) /\ x # v
        BY <3>2, <4>1
      <4> QED  BY <4>2, SMT
    <3> QED  BY <1>10, <3>3, <3>4
  <2> QED  BY <2>1, <2>2
<1>16. PairInv'
  <2> SUFFICES ASSUME NEW g \in Participant
               PROVE  /\ pc'[g] \in {"pack", "search", "update", "move"}
                      /\ g \in inside' => at'[g] >= POINTS
                      /\ pc'[g] # "pack" => Working(g)' /\ \E x, y : Packed(g, x, y)'
    BY DEF PairInv
  <2>1. CASE g = h
    <3>1. h \notin inside
      BY <1>2 DEF Working
    <3> QED  BY <1>2, <1>4, <2>1, <3>1
  <2>2. CASE g # h
    BY <1>10, <2>2
  <2> QED  BY <2>1, <2>2
<1> QED  BY <1>3, <1>15, <1>16 DEF HullInv

\* A hart begins with the first of its pairs.
LEMMA FirstOwned ==
  ASSUME NEW h \in Participant, NEW u \in Nat, Owns(h, u), NEW k \in 0 .. DEPTH
  PROVE  ~ (First(h, k) > u * (2 * Interval(k)))
<1> DEFINE w == Interval(k)
           P == PROCESSORS
<1>1. w \in Nat /\ h \in Nat /\ P \in Nat
  BY Powers, HullSizes
<1>2. PICK m \in Nat : u = h + m * P
  BY DEF Owns
<1>3. First(h, k) = h * 2 * w
  BY DEF First
<1> HIDE DEF w, P
<1> DEFINE y == m * P
<1>4. y \in Nat /\ u = h + y
  BY <1>1, <1>2, SMT
<1> HIDE DEF y
<1>5. u * (2 * w) = h * (2 * w) + y * (2 * w) /\ y * (2 * w) \in Nat /\ h * 2 * w = h * (2 * w)
      /\ h * (2 * w) \in Nat
  BY <1>1, <1>4, SMT
<1>6. ~ (h * 2 * w > u * (2 * w))
  BY <1>5, SMT
<1> QED  BY <1>3, <1>6 DEF w

LEMMA ArriveHullInv ==
  ASSUME HullInv, NEW h \in Participant, Arrive(h)
  PROVE  HullInv'
<1>1. RegionInv /\ KindInv /\ PairInv /\ KeptInv
  BY DEF HullInv
<1>2. /\ pc[h] = "pack" /\ at[h] >= POINTS
      /\ inside' = inside \cup {h}
      /\ UNCHANGED <<original, point, length, level, at, pc, data, index>>
  BY DEF Arrive, Barrier!Enter
<1>3. RegionInv' /\ KindInv'
  BY <1>1, <1>2, ArriveRegionInv DEF KindInv
<1>4. KeptInv'
  <2>1. \A k \in 0 .. DEPTH, u \in Nat : Kept(k, u)' => Kept(k, u)
    BY <1>2, KeptBack
  <2> QED  BY <1>1, <1>2, <2>1, KeptStays
<1>5. ASSUME NEW g \in Participant
      PROVE  /\ pc'[g] \in {"pack", "search", "update", "move"}
             /\ g \in inside' => at'[g] >= POINTS
             /\ pc'[g] # "pack" => Working(g)' /\ \E x, y : Packed(g, x, y)'
  <2>1. /\ pc[g] \in {"pack", "search", "update", "move"}
        /\ g \in inside => at[g] >= POINTS
        /\ pc[g] # "pack" => Working(g) /\ \E s, t : Packed(g, s, t)
    BY <1>1 DEF PairInv
  <2>2. ASSUME pc[g] # "pack" PROVE Working(g)' /\ \E x, y : Packed(g, x, y)'
    <3>1. g # h /\ Working(g)
      BY <1>2, <2>1, <2>2
    <3>2. Working(g)'
      BY <1>2, <3>1 DEF Working
    <3>3. PICK s, t : Packed(g, s, t)
      BY <2>1, <2>2
    <3>4. Packed(g, s, t)'
      BY <1>1, <1>2, <3>1, <3>3, PackedStays
    <3> QED  BY <3>2, <3>4
  <2> QED  BY <1>2, <2>1, <2>2
<1>6. PairInv'
  BY <1>5 DEF PairInv
<1> QED  BY <1>3, <1>4, <1>6 DEF HullInv

LEMMA LeaveHullInv ==
  ASSUME HullInv, NEW h \in Participant, Leave(h)
  PROVE  HullInv'
<1> DEFINE l == level[h]
<1>1. RegionInv /\ KindInv /\ PairInv /\ KeptInv
  BY DEF HullInv
<1>2. /\ h \in inside /\ inside' = inside \ {h}
      /\ level' = [level EXCEPT ![h] = @ + 1]
      /\ at' = [at EXCEPT ![h] = First(h, level[h] + 1)]
      /\ UNCHANGED <<original, point, length, pc, data, index>>
  BY DEF Leave, Barrier!Leave
<1>3. RegionInv' /\ KindInv'
  BY <1>1, <1>2, LeaveRegionInv DEF KindInv
<1>4. /\ level'[h] = l + 1 /\ at'[h] = First(h, l + 1)
      /\ \A g \in Participant \ {h} : level'[g] = level[g] /\ at'[g] = at[g]
      /\ l \in 0 .. DEPTH /\ l < DEPTH /\ l \in Nat /\ DEPTH \in Nat /\ l + 1 \in 0 .. DEPTH
  <2>1. /\ level'[h] = l + 1 /\ at'[h] = First(h, l + 1)
        /\ \A g \in Participant \ {h} : level'[g] = level[g] /\ at'[g] = at[g]
        /\ l \in 0 .. DEPTH /\ l < DEPTH
    BY <1>1, <1>2 DEF RegionInv, ShapeInv
  <2> QED  BY <2>1, HullSizes, SMT
<1>5. at[h] >= POINTS /\ pc[h] = "pack"
  BY <1>1, <1>2 DEF PairInv, Working
<1>6. at[h] \in Int
  <2>1. PICK m \in Nat : at[h] = (h + m * PROCESSORS) * (2 * Interval(level[h]))
    BY <1>1 DEF RegionInv, PlaceInv
  <2> DEFINE z == Interval(level[h])
  <2>2. z \in Nat /\ h \in Nat /\ PROCESSORS \in Nat
    BY <1>4, Powers, HullSizes
  <2>3. at[h] = (h + m * PROCESSORS) * (2 * z)
    BY <2>1
  <2> HIDE DEF z
  <2> QED  BY <2>2, <2>3, SMT
<1>7. ASSUME NEW k \in 0 .. DEPTH, NEW u \in Nat, u * Interval(k) < POINTS, Kept(k, u)'
      PROVE  Kept(k, u)
  <2>1. ASSUME k # 0 PROVE \E g \in Participant : Owns(g, u) /\ Done(g, k - 1, u)
    <3>1. PICK g \in Participant : Owns(g, u) /\ Done(g, k - 1, u)'
      BY <1>7, <2>1 DEF Kept, Owns
    <3>2. CASE g # h
      BY <1>4, <3>1, <3>2 DEF Done
    <3>3. CASE g = h
      <4>1. k - 1 \in 0 .. DEPTH - 1 /\ k - 1 \in 0 .. DEPTH /\ (k - 1) + 1 = k /\ k \in Nat
        BY <1>4, <2>1, SMT
      <4>2. l + 1 > k - 1 \/ (l + 1 = k - 1 /\ First(h, l + 1) > u * (2 * Interval(k - 1)))
        BY <1>4, <3>1, <3>3 DEF Done
      <4>3. ~ (First(h, k - 1) > u * (2 * Interval(k - 1)))
        BY <3>1, <3>3, <4>1, FirstOwned
      <4>4. l + 1 > k - 1
        BY <4>2, <4>3
      <4>5. CASE l > k - 1
        BY <3>1, <3>3, <4>5 DEF Done
      <4>6. CASE l = k - 1
        <5>1. Interval(k) = 2 * Interval(k - 1)
          BY <4>1, Powers
        <5>2. u * (2 * Interval(k - 1)) < POINTS
          BY <1>7, <5>1
        <5> DEFINE y == u * (2 * Interval(k - 1))
        <5>3. y \in Nat /\ POINTS \in Nat
          <6> DEFINE z == Interval(k - 1)
          <6>1. z \in Nat
            BY <4>1, Powers
          <6> HIDE DEF z
          <6>2. u * (2 * z) \in Nat
            BY <6>1, SMT
          <6> QED  BY <6>2, Powers DEF z
        <5>4. y < POINTS
          BY <5>2
        <5> HIDE DEF y
        <5>5. at[h] > y
          BY <1>5, <1>6, <5>3, <5>4, SMT
        <5> QED  BY <3>1, <3>3, <4>6, <5>5 DEF Done, y
      <4> QED  BY <1>4, <4>1, <4>4, <4>5, <4>6, SMT
    <3> QED  BY <3>2, <3>3
  <2>2. ASSUME k # DEPTH
        PROVE  \E g \in Participant, x \in Nat :
                 Owns(g, x) /\ (u = 2 * x \/ u = 2 * x + 1) /\ ~ Begun(g, k, x)
    <3>1. PICK g \in Participant, x \in Nat :
            Owns(g, x) /\ (u = 2 * x \/ u = 2 * x + 1) /\ ~ Begun(g, k, x)'
      BY <1>7, <2>2 DEF Kept, Owns
    <3>2. CASE g # h
      <4>1. ~ Begun(g, k, x)
        BY <1>2, <1>4, <3>1, <3>2 DEF Begun, Done
      <4> QED  BY <3>1, <4>1
    <3>3. CASE g = h
      <4>1. ~ (l + 1 > k)
        BY <1>4, <3>1, <3>3 DEF Begun, Done
      <4>2. ~ (l > k) /\ l # k
        BY <1>4, <4>1, SMT
      <4>3. ~ Begun(g, k, x)
        BY <3>3, <4>2 DEF Begun, Done
      <4> QED  BY <3>1, <4>3
    <3> QED  BY <3>2, <3>3
  <2> QED  BY <2>1, <2>2 DEF Kept
<1>8. KeptInv'
  BY <1>1, <1>2, <1>7, KeptStays
<1>9. ASSUME NEW g \in Participant
      PROVE  /\ pc'[g] \in {"pack", "search", "update", "move"}
             /\ g \in inside' => at'[g] >= POINTS
             /\ pc'[g] # "pack" => Working(g)' /\ \E x, y : Packed(g, x, y)'
  <2>1. /\ pc[g] \in {"pack", "search", "update", "move"}
        /\ g \in inside => at[g] >= POINTS
        /\ pc[g] # "pack" => Working(g) /\ \E s, t : Packed(g, s, t)
    BY <1>1 DEF PairInv
  <2>2. ASSUME pc[g] # "pack" PROVE Working(g)' /\ \E x, y : Packed(g, x, y)'
    <3>1. g # h /\ Working(g)
      BY <1>5, <2>1, <2>2
    <3>2. level'[g] = level[g] /\ at'[g] = at[g]
      BY <1>4, <3>1
    <3>3. Working(g)'
      BY <1>2, <3>1, <3>2 DEF Working
    <3>4. PICK s, t : Packed(g, s, t)
      BY <2>1, <2>2
    <3>5. Packed(g, s, t)'
      BY <1>1, <1>2, <3>1, <3>2, <3>4, PackedStays
    <3> QED  BY <3>3, <3>5
  <2>3. g \in inside' => at'[g] >= POINTS
    BY <1>2, <1>4, <2>1
  <2> QED  BY <1>2, <2>1, <2>2, <2>3
<1>10. PairInv'
  BY <1>9 DEF PairInv
<1> QED  BY <1>3, <1>8, <1>10 DEF HullInv

\* Two points that follow each other are a hull.
LEMMA TwoPoints ==
  ASSUME original \in Inputs, NEW b \in Slot, b + 1 \in Slot
  PROVE  LET c == [i \in 1 .. 2 |-> original[b + i - 1]]
         IN  IsHullOf(c, b, 2) /\ \E d : Shape(c, d) /\ Few(c, d, 0)
<1> DEFINE c == [i \in 1 .. 2 |-> original[b + i - 1]]
<1>1. /\ original[b] \in Coordinate \X Coordinate /\ original[b + 1] \in Coordinate \X Coordinate
      /\ \/ original[b][1] < original[b + 1][1]
         \/ original[b + 1] = original[b] /\ original[b][2] = 0
  BY StepRight
<1>2. b \in Nat /\ b + 1 - 1 = b /\ b + 2 - 1 = b + 1 /\ b .. b + 2 - 1 = {b, b + 1}
  <2>1. b \in Nat
    BY Powers, SMT
  <2> QED  BY <2>1, SMT
<1>3. c[1] = original[b] /\ c[2] = original[b + 1] /\ Len(c) = 2
  BY <1>2
<1> HIDE DEF c
<1>4. original[b] \in Vec /\ original[b + 1] \in Vec
  BY <1>1, CoordinateInt
<1>5. /\ Cross(Minus(c[2], c[1]), Minus(original[b], c[1])) <= 0
      /\ Cross(Minus(c[2], c[1]), Minus(original[b + 1], c[1])) <= 0
  <2> DEFINE e == Minus(c[2], c[1])
  <2>1. e \in Vec
    BY <1>3, <1>4, Vectors
  <2>2. Cross(e, e) = 0 /\ Cross(e, Minus(original[b], original[b])) = 0
    <3> HIDE DEF e
    <3> QED  BY <1>4, <2>1, CrossSums
  <2>3. Cross(e, Minus(original[b], c[1])) = 0 /\ Cross(e, Minus(original[b + 1], c[1])) = 0
    BY <1>3, <2>2
  <2> HIDE DEF e
  <2>4. Cross(e, Minus(original[b], c[1])) <= 0 /\ Cross(e, Minus(original[b + 1], c[1])) <= 0
    BY <2>3, SMT
  <2> QED  BY <2>4 DEF e
<1>6. {original[i] : i \in b .. b + 2 - 1} = {original[b], original[b + 1]}
  BY <1>2
<1>7. IsHullOf(c, b, 2)
  <2>1. 1 .. 2 - 1 = {1} /\ 2 > 0 /\ 1 + 1 = 2
    BY SMT
  <2> QED  BY <1>2, <1>3, <1>5, <1>6, <2>1 DEF IsHullOf
<1>8. \A i \in 1 .. Len(c) : c[i] \in Coordinate \X Coordinate
  <2>1. 1 .. 2 = {1, 2}
    BY SMT
  <2> QED  BY <1>1, <1>3, <2>1
<1>9. CASE original[b][1] < original[b + 1][1]
  <2>1. 2 \in 1 .. 2 /\ 1 .. 2 - 1 = {1} /\ 2 .. 2 - 1 = {} /\ 2 + 1 .. 2 = {} /\ 1 + 1 = 2
    BY SMT
  <2>2. Shape(c, 2)
    BY <1>3, <1>8, <1>9, <2>1, Zenon DEF Shape
  <2>3. Few(c, 2, 0)
    BY <1>3, SMT DEF Few
  <2>4. IsHullOf(c, b, 2) /\ \E d : Shape(c, d) /\ Few(c, d, 0)
    BY <1>7, <2>2, <2>3
  <2> QED  BY <2>4 DEF c
<1>10. CASE original[b + 1] = original[b] /\ original[b][2] = 0
  <2>1. 1 \in 1 .. 2 /\ 1 .. 1 - 1 = {} /\ 2 .. 1 - 1 = {} /\ 1 + 1 .. 2 = {2}
    BY SMT
  <2>2. \A i \in 1 + 1 .. Len(c) : c[i] = c[1] /\ c[1][2] = 0
    BY <1>3, <1>10, <2>1
  <2>3. Shape(c, 1)
    BY <1>3, <1>8, <2>1, <2>2, Zenon DEF Shape
  <2>4. Few(c, 1, 0)
    BY <1>3, SMT DEF Few
  <2>5. IsHullOf(c, b, 2) /\ \E d : Shape(c, d) /\ Few(c, d, 0)
    BY <1>7, <2>3, <2>4
  <2> QED  BY <2>5 DEF c
<1> QED  BY <1>1, <1>9, <1>10

LEMMA InitHullInv == Init => HullInv
<1> SUFFICES ASSUME Init PROVE HullInv
  OBVIOUS
<1>1. /\ original \in Inputs /\ point = original
      /\ length = [b \in Slot |-> 2]
      /\ level = [h \in Participant |-> 0] /\ inside = {}
      /\ at = [h \in Participant |-> First(h, 0)]
      /\ pc = [h \in Participant |-> "pack"]
      /\ data = [h \in Participant |-> <<>>]
      /\ index = [h \in Participant |-> <<0, 0>>]
  BY DEF Init, Barrier!LSInit
<1>2. RegionInv
  BY InitRegionInv
<1>3. KindInv
  BY <1>1 DEF KindInv
<1>4. PairInv
  BY <1>1 DEF PairInv
<1>5. ASSUME NEW u \in Nat, u * Interval(0) < POINTS PROVE Ready(0, u)
  <2> DEFINE b == u * Interval(0)
  <2>1. Interval(0) = 2 /\ 0 \in 0 .. DEPTH /\ 0 < DEPTH
    BY Powers, HullSizes, SMT
  <2>2. b .. b + 2 - 1 \subseteq Slot /\ b \in Nat
    BY <1>5, <2>1, Room
  <2> HIDE DEF b
  <2>3. b \in Slot /\ b + 1 \in Slot
    <3>1. b \in b .. b + 2 - 1 /\ b + 1 \in b .. b + 2 - 1
      BY <2>2, SMT
    <3> QED  BY <2>2, <3>1
  <2>4. length[b] = 2 /\ 2 \in 1 .. 2
    BY <1>1, <2>3, SMT
  <2>5. HullAt(b) = [i \in 1 .. 2 |-> original[b + i - 1]]
    BY <1>1, <2>4 DEF HullAt
  <2>6. IsHullOf(HullAt(b), b, 2) /\ \E d : Shape(HullAt(b), d) /\ Few(HullAt(b), d, 0)
    BY <1>1, <2>3, <2>5, TwoPoints
  <2> QED  BY <2>1, <2>4, <2>6 DEF Ready, b
<1>6. ASSUME NEW k \in 0 .. DEPTH, NEW u \in Nat, k # 0, Kept(k, u) PROVE FALSE
  <2>1. PICK g \in Participant : Owns(g, u) /\ Done(g, k - 1, u)
    BY <1>6 DEF Kept
  <2>2. level[g] = 0 /\ at[g] = First(g, 0)
    BY <1>1
  <2>3. 0 > k - 1 \/ (0 = k - 1 /\ First(g, 0) > u * (2 * Interval(k - 1)))
    BY <2>1, <2>2 DEF Done
  <2>4. k - 1 = 0
    BY <1>6, <2>3, HullSizes, SMT
  <2>5. ~ (First(g, 0) > u * (2 * Interval(0)))
    <3>1. 0 \in 0 .. DEPTH
      BY HullSizes, SMT
    <3> QED  BY <2>1, <3>1, FirstOwned
  <2> QED  BY <2>3, <2>4, <2>5, SMT
<1>7. KeptInv
  BY <1>5, <1>6 DEF KeptInv
<1> QED  BY <1>2, <1>3, <1>4, <1>7 DEF HullInv

LEMMA NextHullInv == HullInv /\ Fit /\ [Next]_vars => HullInv'
<1> SUFFICES ASSUME HullInv, Fit, [Next]_vars PROVE HullInv'
  OBVIOUS
<1>1. ASSUME NEW h \in Participant, Step(h) PROVE HullInv'
  BY <1>1, PackHullInv, SearchHullInv, UpdateHullInv, MoveHullInv, ArriveHullInv, LeaveHullInv DEF Step
<1>2. CASE UNCHANGED vars
  <2>1. UNCHANGED <<original, point, length, level, inside, at, pc, data, index>>
    BY <1>2 DEF vars
  <2>2. RegionInv /\ KindInv /\ PairInv /\ KeptInv
    BY DEF HullInv
  <2>3. RegionInv' /\ KindInv'
    BY <2>1, <2>2, StayPut DEF KindInv
  <2>4. KeptInv'
    <3>1. \A k \in 0 .. DEPTH, u \in Nat : Kept(k, u)' => Kept(k, u)
      BY <2>1, KeptBack
    <3> QED  BY <2>1, <2>2, <3>1, KeptStays
  <2>5. ASSUME NEW h \in Participant
        PROVE  /\ pc'[h] \in {"pack", "search", "update", "move"}
               /\ h \in inside' => at'[h] >= POINTS
               /\ pc'[h] # "pack" => Working(h)' /\ \E s, t : Packed(h, s, t)'
    <3>1. /\ pc[h] \in {"pack", "search", "update", "move"}
          /\ h \in inside => at[h] >= POINTS
          /\ pc[h] # "pack" => Working(h) /\ \E s, t : Packed(h, s, t)
      BY <2>2 DEF PairInv
    <3>2. Working(h) => Working(h)'
      BY <2>1 DEF Working
    <3>3. \A s, t : Working(h) /\ Packed(h, s, t) => Packed(h, s, t)'
      BY <2>1, <2>2, PackedStays
    <3> QED  BY <2>1, <3>1, <3>2, <3>3
  <2>6. PairInv'
    BY <2>5 DEF PairInv
  <2> QED  BY <2>3, <2>4, <2>6 DEF HullInv
<1> QED  BY <1>1, <1>2 DEF Next, Terminated

-----------------------------------------------------------------------------
(* What the program promises.                                              *)

\* A hart that is about to pack is at two parts that are ready.
LEMMA PairReady ==
  ASSUME HullInv, NEW h \in Participant, Working(h), pc[h] = "pack"
  PROVE  \E u \in Nat, w \in Nat :
           LET l == level[h]
           IN  /\ u * Interval(l) = at[h] /\ u * Interval(l) < POINTS /\ Ready(l, u)
               /\ w * Interval(l) = Other(h) /\ w * Interval(l) < POINTS /\ Ready(l, w)
<1> DEFINE l == level[h]
<1>1. RegionInv /\ PairInv /\ KeptInv /\ pc[h] # "move"
  BY DEF HullInv
<1>2. l \in 0 .. DEPTH - 1 /\ l \in 0 .. DEPTH /\ at[h] < POINTS
  BY <1>1, AtPair DEF Working
<1>3. PICK v \in Nat : Owns(h, v) /\ at[h] = v * (2 * Interval(level[h]))
  BY <1>1, AtPair
<1>4. (2 * v) * Interval(l) = at[h] /\ (2 * v + 1) * Interval(l) = Other(h)
  <2>1. v * (2 * Interval(l)) < POINTS
    BY <1>2, <1>3
  <2> QED  BY <1>2, <1>3, <2>1, Halves DEF Other
<1>5. 2 * v \in Nat /\ (2 * v) * Interval(l) < POINTS /\ Ready(l, 2 * v)
  <2>1. 2 * v \in Nat /\ (2 * v) * Interval(l) < POINTS /\ Kept(l, 2 * v)
    BY <1>1, <1>3, OwnHalves
  <2> QED  BY <1>1, <1>2, <2>1 DEF KeptInv
<1>6. 2 * v + 1 \in Nat /\ (2 * v + 1) * Interval(l) < POINTS /\ Ready(l, 2 * v + 1)
  <2>1. 2 * v + 1 \in Nat /\ (2 * v + 1) * Interval(l) < POINTS /\ Kept(l, 2 * v + 1)
    BY <1>1, <1>3, OwnHalves
  <2> QED  BY <1>1, <1>2, <2>1 DEF KeptInv
<1> QED  BY <1>4, <1>5, <1>6

\* ... and finds the two hulls there.
LEMMA AtPack ==
  ASSUME HullInv, NEW h \in Participant, Working(h), pc[h] = "pack"
  PROVE  LET n == Interval(level[h])
         IN  /\ length[at[h]] \in 1 .. n /\ length[Other(h)] \in 1 .. n
             /\ IsHullOf(HullAt(at[h]), at[h], n) /\ IsHullOf(HullAt(Other(h)), Other(h), n)
<1>1. PICK u \in Nat, w \in Nat :
        /\ u * Interval(level[h]) = at[h] /\ Ready(level[h], u)
        /\ w * Interval(level[h]) = Other(h) /\ Ready(level[h], w)
  BY PairReady
<1>2. length[at[h]] \in 1 .. Interval(level[h]) /\ IsHullOf(HullAt(at[h]), at[h], Interval(level[h]))
  BY <1>1 DEF Ready
<1>3. length[Other(h)] \in 1 .. Interval(level[h]) /\ IsHullOf(HullAt(Other(h)), Other(h), Interval(level[h]))
  BY <1>1 DEF Ready
<1> QED  BY <1>2, <1>3

\* Where a hart that is about to move its points puts them.
LEMMA MoveRoom ==
  ASSUME HullInv, NEW h \in Participant, pc[h] = "move"
  PROVE  /\ at[h] + index[h][1] + Moved(h) \in Region(h)
         /\ Moved(h) \in 1 .. MAX_HULL
         /\ length[at[h]] \in 1 .. POINTS
<1> DEFINE n == Interval(level[h])
<1>1. RegionInv /\ Working(h) /\ \E s, t : Packed(h, s, t)
  BY DEF HullInv, PairInv
<1>2. /\ n \in Nat /\ n >= 2 /\ at[h] \in Nat /\ at[h] + 2 * n <= POINTS
      /\ Region(h) = at[h] .. at[h] + 2 * n - 1 /\ level[h] \in Nat
  <2>1. /\ n \in Nat /\ n >= 2 /\ at[h] \in Nat /\ at[h] + 2 * n <= POINTS
        /\ Region(h) = at[h] .. at[h] + 2 * n - 1 /\ level[h] \in 0 .. DEPTH - 1
    BY <1>1, AtPair
  <2>2. level[h] \in Nat
    BY <2>1, SMT
  <2> QED  BY <2>1, <2>2
<1>3. PICK s, t : Packed(h, s, t)
  BY <1>1
<1>4. PICK i \in 0 .. Len(s) - 1, j \in 0 .. Len(t) - 1 :
        /\ index[h][1] = i /\ index[h][2] = j
        /\ Moved(h) = Len(t) - j /\ length[at[h]] = i + 1 + (Len(t) - j)
        /\ Len(s) \in 1 .. n /\ Len(t) \in 1 .. n /\ Len(t) \in 1 .. MAX_HULL
  <2>1. PICK i \in 0 .. Len(s) - 1, j \in 0 .. Len(t) - 1 : Moving(h, s, t, i, j)
    BY <1>2, <1>3, AtMove
  <2> WITNESS i \in 0 .. Len(s) - 1, j \in 0 .. Len(t) - 1
  <2> QED  BY <2>1 DEF Moving
<1>5. MAX_HULL \in Nat /\ POINTS \in Nat
  BY Powers, Sizes
<1> HIDE DEF n
<1>6. Moved(h) \in 1 .. MAX_HULL
  BY <1>2, <1>4, <1>5, SMT
<1>7. length[at[h]] \in 1 .. POINTS
  <2>1. /\ i \in Nat /\ j \in Nat /\ i + 1 <= n /\ Len(t) \in Nat /\ Len(t) <= n
        /\ j <= Len(t) /\ 2 * n <= POINTS
    BY <1>2, <1>4, <1>5, SMT
  <2>2. i + 1 + (Len(t) - j) \in 1 .. POINTS
    BY <1>2, <1>5, <2>1, SMT
  <2> QED  BY <1>4, <2>2
<1>8. at[h] + index[h][1] + Moved(h) \in at[h] .. at[h] + 2 * n - 1
  <2>1. /\ i \in Nat /\ j \in Nat /\ i <= n - 1 /\ Len(t) - j <= n /\ Len(t) - j \in Nat
        /\ Len(t) - j >= 1
    BY <1>2, <1>4, SMT
  <2>2. PICK b \in Nat, m \in Nat : b = at[h] /\ m = Len(t) - j /\ m >= 1 /\ m <= n
    BY <1>2, <2>1
  <2>3. n \in Nat /\ i \in Nat /\ i <= n - 1
    BY <1>2, <2>1
  <2>4. m >= 1 /\ m <= n
    BY <2>2
  <2>5. b + i + m \in b .. b + 2 * n - 1
    BY <2>3, <2>4, SMT
  <2> QED  BY <1>4, <2>2, <2>5
<1> QED  BY <1>2, <1>6, <1>7, <1>8

LEMMA Inside == HullInv => StaysInside
<1> SUFFICES ASSUME HullInv, NEW h \in Participant
             PROVE  /\ Working(h) => Region(h) \subseteq Slot
                    /\ pc[h] = "pack" /\ Working(h) =>
                         /\ at[h] + length[at[h]] <= Other(h)
                         /\ Other(h) + length[Other(h)] - 1 \in Region(h)
                    /\ pc[h] = "move" => at[h] + index[h][1] + Moved(h) \in Region(h)
  BY DEF StaysInside
<1>1. RegionInv
  BY DEF HullInv
<1>2. Working(h) => Region(h) \subseteq Slot
  BY <1>1, AtPair
<1>3. ASSUME pc[h] = "pack", Working(h)
      PROVE  /\ at[h] + length[at[h]] <= Other(h)
             /\ Other(h) + length[Other(h)] - 1 \in Region(h)
  <2> DEFINE n == Interval(level[h])
  <2>1. /\ n \in Nat /\ n >= 2 /\ at[h] \in Nat
        /\ Region(h) = at[h] .. at[h] + 2 * n - 1
    BY <1>1, <1>3, AtPair
  <2>2. length[at[h]] \in 1 .. n /\ length[Other(h)] \in 1 .. n /\ Other(h) = at[h] + n
    BY <1>3, AtPack DEF Other
  <2> HIDE DEF n
  <2>3. at[h] + length[at[h]] <= Other(h)
    BY <2>1, <2>2, SMT
  <2>4. Other(h) + length[Other(h)] - 1 \in at[h] .. at[h] + 2 * n - 1
    BY <2>1, <2>2, SMT
  <2> QED  BY <2>1, <2>3, <2>4
<1>4. pc[h] = "move" => at[h] + index[h][1] + Moved(h) \in Region(h)
  BY MoveRoom
<1> QED  BY <1>2, <1>3, <1>4

LEMMA BothReady == HullInv => HalvesReady
BY AtPack DEF HalvesReady

LEMMA Enough == HullInv => BufferFits
BY MoveRoom DEF BufferFits

LEMMA Whole == HullInv => PrintsHull
<1> SUFFICES ASSUME HullInv, level[0] = DEPTH PROVE IsHullOf(HullAt(0), 0, POINTS)
  BY DEF PrintsHull
<1>1. DEPTH \in 0 .. DEPTH /\ DEPTH > DEPTH - 1 /\ DEPTH # 0 /\ 0 \in Nat
  BY HullSizes, SMT
<1>2. 0 \in Participant
  BY HullAssumption, SMT DEF Participant
<1>3. Owns(0, 0)
  <2>1. PROCESSORS \in Nat
    BY HullSizes
  <2>2. 0 = 0 + 0 * PROCESSORS
    BY <2>1, SMT
  <2> QED  BY <2>2 DEF Owns
<1>4. Kept(DEPTH, 0)
  BY <1>1, <1>2, <1>3 DEF Kept, Done
<1>5. 0 * Interval(DEPTH) = 0 /\ 0 < POINTS /\ Interval(DEPTH) = POINTS
  <2>1. POINTS \in Nat /\ POINTS >= 4 /\ Interval(DEPTH) = POINTS
    BY Powers
  <2> QED  BY <2>1, SMT
<1>6. Ready(DEPTH, 0)
  BY <1>1, <1>4, <1>5 DEF HullInv, KeptInv
<1> QED  BY <1>5, <1>6 DEF Ready

LEMMA HullAlways == Spec /\ []Fit => []HullInv
BY InitHullInv, NextHullInv, PTL DEF Spec

\* No hart leaves its part of the arrays: the loops of main that pack the two
\* hulls of a pair and the memcpys that put the merged hull back stay inside the
\* pair, as long as the hulls fit the local arrays of main.
THEOREM EveryHartStaysInside == Spec /\ []Fit => []StaysInside
BY HullAlways, Inside, PTL

\* A hart that is about to pack a pair finds two finished hulls there, whoever
\* merged them: the barrier between the levels of main is in the right place.
THEOREM TheHalvesAreReady == Spec /\ []Fit => []HalvesReady
BY HullAlways, BothReady, PTL

\* buffer of main holds what the memcpys take through it, and the new value of
\* length does not wrap.
THEOREM TheBufferFits == Spec /\ []Fit => []BufferFits
BY HullAlways, Enough, PTL

\* README.md:2 "finding the upper convex hull for given points": what main
\* prints at the end is the upper hull of the whole input, for every number of
\* points and of harts and whatever the order of their steps.
THEOREM TheHullIsPrinted == Spec /\ []Fit => []PrintsHull
BY HullAlways, Whole, PTL

\* The hulls of a level have no more points than half of the input.
LEMMA SmallFits == 2^DEPTH <= MAX_HULL /\ HullInv => Fit
<1> SUFFICES ASSUME 2^DEPTH <= MAX_HULL, HullInv, NEW h \in Participant, Working(h), pc[h] = "pack"
             PROVE  length[at[h]] <= MAX_HULL /\ length[Other(h)] <= MAX_HULL
  BY DEF Fit
<1> DEFINE n == Interval(level[h])
<1>1. length[at[h]] \in 1 .. n /\ length[Other(h)] \in 1 .. n
  BY AtPack
<1>2. level[h] \in 0 .. DEPTH - 1 /\ n \in Nat /\ n >= 2
  BY AtPair DEF HullInv
<1>3. /\ level[h] \in 0 .. DEPTH /\ DEPTH - 1 \in level[h] .. DEPTH
  BY <1>2, HullSizes, SMT
<1>4. PICK c \in Nat \ {0} : Interval(DEPTH - 1) = c * n
  BY <1>3, Divides
<1>5. Interval(DEPTH - 1) <= MAX_HULL /\ MAX_HULL \in Nat
  BY Powers, Sizes
<1> HIDE DEF n
<1>6. c * n >= n
  <2>1. PICK x \in Nat : c = x + 1
    <3>1. c = (c - 1) + 1 /\ c - 1 \in Nat
      BY SMT
    <3> QED  BY <3>1
  <2>2. x * n \in Nat /\ c * n = x * n + n
    BY <1>2, <2>1, SMT
  <2> QED  BY <1>2, <2>2, SMT
<1>7. n <= MAX_HULL
  <2>1. Interval(DEPTH - 1) >= n
    BY <1>4, <1>6
  <2>2. Interval(DEPTH - 1) \in Nat
    BY <1>2, <1>4, SMT
  <2> QED  BY <1>2, <1>5, <2>1, <2>2, SMT
<1> QED  BY <1>1, <1>2, <1>5, <1>7, SMT

\* When half of the points of input.h fit the local arrays of main, the hulls
\* always do, and all of this holds of every run.
THEOREM SmallInputsFit ==
  2^DEPTH <= MAX_HULL =>
    (Spec => [](Fit /\ StaysInside /\ HalvesReady /\ BufferFits /\ PrintsHull))
<1> SUFFICES ASSUME 2^DEPTH <= MAX_HULL
             PROVE  Spec => [](Fit /\ StaysInside /\ HalvesReady /\ BufferFits /\ PrintsHull)
  OBVIOUS
<1>1. HullInv => Fit
  BY SmallFits
<1>2. HullInv /\ [Next]_vars => HullInv'
  BY <1>1, NextHullInv
<1>3. HullInv => StaysInside /\ HalvesReady /\ BufferFits /\ PrintsHull
  BY Inside, BothReady, Enough, Whole
<1> QED  BY <1>1, <1>2, <1>3, InitHullInv, PTL DEF Spec

-----------------------------------------------------------------------------
(* Hulls that fit because the input is narrow.                             *)

LEMMA Rises ==
  ASSUME NEW s, NEW d, Shape(s, d), \A i \in 1 .. d : s[i] \in Vec,
         NEW i \in 1 .. d, NEW j \in 1 .. d, i < j
  PROVE  s[i][1] < s[j][1]
<1> DEFINE Bad == {x \in i + 1 .. d : ~ (s[i][1] < s[x][1])}
<1>1. d \in Int /\ i \in Int /\ j \in Int /\ 1 <= i /\ j <= d
  BY SMT DEF Shape
<1>2. SUFFICES ASSUME Bad # {} PROVE FALSE
  <2>1. j \in i + 1 .. d
    BY <1>1, SMT
  <2> QED  BY <2>1
<1>3. Bad \in SUBSET Nat
  <2>1. \A x \in i + 1 .. d : x \in Nat
    BY <1>1, SMT
  <2> QED  BY <2>1
<1>4. PICK x \in Bad : \A y \in Bad : x <= y
  BY <1>2, <1>3, LeastElement
<1>5. x \in i + 1 .. d /\ ~ (s[i][1] < s[x][1])
  BY <1>4
<1>6. x - 1 \in 1 .. d - 1 /\ x - 1 \in 1 .. d /\ (x - 1) + 1 = x /\ ~ (x <= x - 1)
      /\ (x - 1 = i \/ x - 1 \in i + 1 .. d) /\ x \in 1 .. d
  BY <1>1, <1>5, SMT
<1>7. s[x - 1][1] < s[x][1]
  BY <1>6 DEF Shape
<1>8. s[x - 1][1] \in Int /\ s[x][1] \in Int /\ s[i][1] \in Int
  BY <1>6 DEF Vec
<1>9. CASE x - 1 = i
  BY <1>5, <1>7, <1>9
<1>10. CASE x - 1 \in i + 1 .. d
  <2>1. s[i][1] < s[x - 1][1]
    BY <1>4, <1>6, <1>10
  <2> QED  BY <1>5, <1>7, <1>8, <2>1, SMT
<1> QED  BY <1>6, <1>9, <1>10

\* Where the next edge of a hull begins, its part has nothing above it.
LEMMA NotBelow ==
  ASSUME NEW p \in Vec, NEW e \in Vec, NEW x \in Vec, NEW y \in Vec, e[1] > 0,
         x[1] < p[1], p[1] < y[1],
         Cross(e, Minus(x, p)) <= 0, Cross(e, Minus(y, p)) <= 0
  PROVE  Cross(Minus(y, x), Minus(p, x)) >= 0
<1> DEFINE v == Minus(y, p)
           w == Minus(p, x)
<1>1. v \in Vec /\ w \in Vec /\ v[1] = y[1] - p[1] /\ w[1] = p[1] - x[1]
  BY Vectors
<1>2. x[1] \in Int /\ y[1] \in Int /\ p[1] \in Int
  BY DEF Vec
<1>3. v[1] > 0 /\ w[1] > 0 /\ v[1] >= 0
  <2> HIDE DEF v, w
  <2> QED  BY <1>1, <1>2, SMT
<1>4. Cross(e, Minus(x, p)) = - Cross(e, w)
  BY CrossSums
<1>5. Cross(Minus(y, x), w) = Cross(v, w) + Cross(w, w)
  BY <1>1, CrossSums
<1>6. Cross(e, v) <= 0
  OBVIOUS
<1> HIDE DEF v, w
<1>7. /\ Cross(e, w) = - Cross(w, e) /\ Cross(w, e) \in Int /\ Cross(e, w) \in Int
      /\ Cross(w, v) = - Cross(v, w) /\ Cross(v, w) \in Int /\ Cross(w, v) \in Int
  BY <1>1, Vectors
<1>8. Cross(w, w) = 0
  BY <1>1, CrossSums
<1>9. Cross(w, e) <= 0
  BY <1>4, <1>7, SMT
<1>10. Cross(w, v) <= 0
  BY <1>1, <1>3, <1>6, <1>9, Steeper
<1>11. Cross(v, w) >= 0
  BY <1>7, <1>10, SMT
<1>12. Cross(Minus(y, x), w) >= 0
  BY <1>5, <1>7, <1>8, <1>11, SMT
<1> QED  BY <1>12 DEF w

\* The points of a hull that do not repeat are on the hull of their part.
LEMMA ChainOnHull ==
  ASSUME NEW s, NEW d, NEW b, NEW n, Part(b, n), IsHullOf(s, b, n), Shape(s, d)
  PROVE  /\ \A i \in 1 .. d : s[i] \in OnHull(original, b, n)
         /\ \A i \in 1 .. d : s[i] \in Vec
         /\ d \in Nat /\ d >= 1 /\ d <= Len(s) /\ Len(s) \in Nat
         /\ d # Len(s) => original[b + n - 1][2] = 0
<1>1. d \in 1 .. Len(s) /\ Len(s) > 0
  BY DEF Shape, IsHullOf
<1>2. /\ Points(b, n) \subseteq Vec /\ original[b + n - 1] \in Points(b, n)
      /\ \A p \in Points(b, n) : p[1] <= original[b + n - 1][1]
  BY PartPoints
<1>3. /\ s[Len(s)] = original[b + n - 1]
      /\ \A i \in 1 .. Len(s) - 1 :
           /\ s[i] \in Points(b, n)
           /\ \A p \in Points(b, n) : Cross(Minus(s[i + 1], s[i]), Minus(p, s[i])) <= 0
  BY DEF IsHullOf, Points
<1>4. Len(s) \in Nat
  BY <1>1, SMT
<1>5. d \in Nat /\ d >= 1 /\ d <= Len(s)
  BY <1>1, <1>4, SMT
<1>6. s[d] = original[b + n - 1] /\ (d # Len(s) => original[b + n - 1][2] = 0)
  <2>1. CASE d = Len(s)
    BY <1>3, <2>1
  <2>2. CASE d # Len(s)
    <3>1. Len(s) \in d + 1 .. Len(s)
      BY <1>4, <1>5, <2>2, SMT
    <3>2. s[Len(s)] = s[d] /\ s[d][2] = 0
      BY <3>1 DEF Shape
    <3> QED  BY <1>3, <3>2
  <2> QED  BY <2>1, <2>2
<1>7. \A i \in 1 .. d : s[i] \in Points(b, n)
  <2> TAKE i \in 1 .. d
  <2>1. i = d \/ i \in 1 .. Len(s) - 1
    BY <1>4, <1>5, SMT
  <2> QED  BY <1>2, <1>3, <1>6, <2>1
<1>8. ASSUME NEW i \in 1 .. d, NEW x \in Points(b, n), NEW y \in Points(b, n),
             x[1] < s[i][1], s[i][1] < y[1]
      PROVE  Cross(Minus(y, x), Minus(s[i], x)) >= 0
  <2>1. s[i] \in Vec /\ x \in Vec /\ y \in Vec /\ s[i][1] \in Int /\ y[1] \in Int
    BY <1>2, <1>7 DEF Vec
  <2>2. i # d
    <3>1. ASSUME i = d PROVE FALSE
      <4>1. y[1] <= s[i][1]
        BY <1>2, <1>6, <3>1
      <4> QED  BY <1>8, <2>1, <4>1, SMT
    <3> QED  BY <3>1
  <2>3. i \in 1 .. Len(s) - 1 /\ i \in 1 .. d - 1 /\ i + 1 \in 1 .. d
    BY <1>4, <1>5, <2>2, SMT
  <2> DEFINE e == Minus(s[i + 1], s[i])
  <2>4. Cross(e, Minus(x, s[i])) <= 0 /\ Cross(e, Minus(y, s[i])) <= 0
    BY <1>3, <2>3
  <2>5. s[i + 1] \in Vec /\ s[i][1] < s[i + 1][1]
    BY <1>2, <1>7, <2>3 DEF Shape
  <2>6. e \in Vec /\ e[1] = s[i + 1][1] - s[i][1]
    BY <2>1, <2>5, Vectors
  <2>7. s[i + 1][1] \in Int
    BY <2>5 DEF Vec
  <2> HIDE DEF e
  <2>8. e[1] > 0
    BY <2>1, <2>5, <2>6, <2>7, SMT
  <2> QED  BY <1>8, <2>1, <2>4, <2>6, <2>8, NotBelow
<1>9. \A i \in 1 .. d : s[i] \in OnHull(original, b, n)
  <2> TAKE i \in 1 .. d
  <2>1. s[i] \in Points(b, n)
    BY <1>7
  <2>2. \A x, y \in Points(b, n) :
          x[1] < s[i][1] /\ s[i][1] < y[1] => Cross(Minus(y, x), Minus(s[i], x)) >= 0
    BY <1>8
  <2> QED  BY <2>1, <2>2, Zenon DEF OnHull, Points
<1>10. \A i \in 1 .. d : s[i] \in Vec
  BY <1>2, <1>7
<1> QED  BY <1>4, <1>5, <1>6, <1>9, <1>10

\* There are no more of them than such points.
LEMMA ChainCounted ==
  ASSUME NEW s, NEW d, NEW b, NEW n, Part(b, n), IsHullOf(s, b, n), Shape(s, d)
  PROVE  Cardinality(OnHull(original, b, n)) \in Nat /\ d <= Cardinality(OnHull(original, b, n))
<1> DEFINE on == OnHull(original, b, n)
           all == b .. b + n - 1
           g == [i \in all |-> original[i]]
           f == [i \in 1 .. d |-> s[i]]
<1>1. b \in Int /\ b + n - 1 \in Int
  BY SMT DEF Part
<1>2. IsFiniteSet(all)
  BY <1>1, FS_Interval
<1>3. g \in Surjection(all, Points(b, n))
  BY DEF Surjection, Points
<1>4. IsFiniteSet(Points(b, n))
  <2> HIDE DEF g, all
  <2> QED  BY <1>2, <1>3, FS_Surjection
<1>5. on \in SUBSET Points(b, n)
  BY DEF OnHull, Points
<1>6. IsFiniteSet(on) /\ Cardinality(on) \in Nat
  <2> HIDE DEF on
  <2> QED  BY <1>4, <1>5, FS_Subset, FS_CardinalityType
<1>7. /\ \A i \in 1 .. d : s[i] \in on
      /\ \A i \in 1 .. d : s[i] \in Vec
      /\ d \in Nat /\ d >= 1
  BY ChainOnHull
<1> HIDE DEF on
<1>8. ASSUME NEW i \in 1 .. d, NEW j \in 1 .. d, s[i] = s[j] PROVE i = j
  <2>1. i \in Int /\ j \in Int /\ s[i][1] \in Int /\ s[j][1] \in Int
    BY <1>7, SMT DEF Vec
  <2>2. i < j => s[i][1] < s[j][1]
    BY <1>7, Rises
  <2>3. j < i => s[j][1] < s[i][1]
    BY <1>7, Rises
  <2> QED  BY <1>8, <2>1, <2>2, <2>3, SMT
<1>9. f \in Injection(1 .. d, on)
  BY <1>7, <1>8 DEF Injection, IsInjective
<1>10. Cardinality(1 .. d) <= Cardinality(on)
  <2> HIDE DEF f
  <2> QED  BY <1>6, <1>9, FS_Injection
<1>11. Cardinality(1 .. d) = d
  <2>1. 1 \in Int /\ d \in Int /\ ~ (1 > d) /\ d - 1 + 1 = d
    BY <1>7, SMT
  <2> QED  BY <2>1, FS_Interval
<1> QED  BY <1>6, <1>10, <1>11 DEF on

\* A part of a narrow input is made into a hull the arrays of main hold.
LEMMA NarrowReady ==
  ASSUME original \in Inputs, Narrow(original, DEPTH, MAX_HULL),
         NEW k \in 0 .. DEPTH - 1, NEW u \in Nat, u * Interval(k) < POINTS, Ready(k, u)
  PROVE  length[u * Interval(k)] <= MAX_HULL
<1> DEFINE n == Interval(k)
           b == u * n
           s == HullAt(b)
           m == Cardinality(OnHull(original, b, n))
<1>1. k \in 0 .. DEPTH /\ k < DEPTH /\ k \in Nat
  BY HullSizes, SMT
<1>2. Part(b, n) /\ n \in Nat /\ n >= 2 /\ b \in Nat
  BY <1>1, Room, Powers
<1>3. b \in Slot /\ u \in Slot
  <2>1. POINTS \in Nat /\ Slot = 0 .. POINTS - 1
    BY Powers
  <2> HIDE DEF n
  <2>2. u <= u * n
    <3>1. PICK c \in Nat : n = c + 1
      <4>1. n = (n - 1) + 1 /\ n - 1 \in Nat
        BY <1>2, SMT
      <4> QED  BY <4>1
    <3>2. u * n = u * c + u /\ u * c \in Nat
      BY <3>1, SMT
    <3> QED  BY <3>2, SMT
  <2>3. u * n \in Nat /\ u * n < POINTS
    BY <1>2 DEF n
  <2>4. u * n \in Slot /\ u \in Slot
    BY <2>1, <2>2, <2>3, SMT
  <2> QED  BY <2>4
<1>4. DOMAIN original = Slot
  BY HullAssumption
<1>5. m <= MAX_HULL /\ (original[b + n - 1][2] = 0 => m + k <= MAX_HULL /\ 2 + k <= MAX_HULL)
  BY <1>3, <1>4 DEF Narrow
<1>6. length[b] \in 1 .. n /\ IsHullOf(s, b, n) /\ \E d : Shape(s, d) /\ Few(s, d, k)
  BY <1>1 DEF Ready
<1>7. PICK d : Shape(s, d) /\ Few(s, d, k)
  BY <1>6
<1>8. Len(s) = length[b]
  <2>1. length[b] \in Nat
    BY <1>2, <1>6, SMT
  <2> QED  BY <2>1 DEF HullAt
<1> HIDE DEF b, n, s, m
<1>9. m \in Nat /\ d <= m
  BY <1>2, <1>6, <1>7, ChainCounted DEF m
<1>10. d \in Nat /\ d >= 1 /\ Len(s) \in Nat /\ (d # Len(s) => original[b + n - 1][2] = 0)
  BY <1>2, <1>6, <1>7, ChainOnHull
<1>11. MAX_HULL \in Nat
  BY Sizes
<1>12. CASE d = Len(s)
  BY <1>5, <1>8, <1>9, <1>10, <1>11, <1>12, SMT DEF b, n
<1>13. CASE d # Len(s)
  <2>1. m + k <= MAX_HULL /\ 2 + k <= MAX_HULL
    BY <1>5, <1>10, <1>13
  <2>2. Len(s) <= d + (IF d = 1 THEN k + 1 ELSE k)
    BY <1>7 DEF Few
  <2>3. Len(s) <= MAX_HULL
    BY <1>1, <1>9, <1>10, <1>11, <2>1, <2>2, SMT
  <2> QED  BY <1>8, <2>3 DEF b, n
<1> QED  BY <1>12, <1>13

LEMMA NarrowFits == HullInv /\ Narrow(original, DEPTH, MAX_HULL) => Fit
<1> SUFFICES ASSUME HullInv, Narrow(original, DEPTH, MAX_HULL),
                    NEW h \in Participant, Working(h), pc[h] = "pack"
             PROVE  length[at[h]] <= MAX_HULL /\ length[Other(h)] <= MAX_HULL
  BY DEF Fit
<1>1. original \in Inputs /\ level[h] \in 0 .. DEPTH - 1
  BY AtPair DEF HullInv, KindInv
<1>2. PICK u \in Nat, w \in Nat :
        /\ u * Interval(level[h]) = at[h] /\ u * Interval(level[h]) < POINTS /\ Ready(level[h], u)
        /\ w * Interval(level[h]) = Other(h) /\ w * Interval(level[h]) < POINTS /\ Ready(level[h], w)
  BY PairReady
<1> QED  BY <1>1, <1>2, NarrowReady

\* The arrays of main hold every hull of an input whose parts are narrow, as
\* those of input.h are (CommittedAssumption of MCHullMerge): then no
\* hypothesis about the run is left.
THEOREM NarrowInputsFit ==
  (\A input \in Inputs : Narrow(input, DEPTH, MAX_HULL)) =>
    (Spec => [](Fit /\ StaysInside /\ HalvesReady /\ BufferFits /\ PrintsHull))
<1> SUFFICES ASSUME \A input \in Inputs : Narrow(input, DEPTH, MAX_HULL)
             PROVE  Spec => [](Fit /\ StaysInside /\ HalvesReady /\ BufferFits /\ PrintsHull)
  OBVIOUS
<1>1. HullInv => Fit
  BY NarrowFits DEF HullInv, KindInv
<1>2. HullInv /\ [Next]_vars => HullInv'
  BY <1>1, NextHullInv
<1>3. HullInv => StaysInside /\ HalvesReady /\ BufferFits /\ PrintsHull
  BY Inside, BothReady, Enough, Whole
<1> QED  BY <1>1, <1>2, <1>3, InitHullInv, PTL DEF Spec
=============================================================================
