------------------------------ MODULE MCTangent ------------------------------
(***************************************************************************)
(* Hulls for the searcher of 16 points with 16 bit coordinates: all chains *)
(* of up to three points on a small grid, long ones of all lengths around  *)
(* the block boundaries (strictly concave, straight, and with a top), and  *)
(* the largest coordinates.                                                *)
(***************************************************************************)
EXTENDS Tangent

Concave(s) ==
  \A i \in 2 .. Len(s) - 1 : Cross(Minus(s[i], s[i - 1]), Minus(s[i + 1], s[i])) <= 0

\* Chains over the columns lo .. lo + 2.
Short(lo) ==
  {s \in UNION {[1 .. n -> (lo .. lo + 2) \X (0 .. 2)] : n \in 1 .. 3} :
     /\ \A i \in 1 .. Len(s) - 1 : s[i][1] < s[i + 1][1]
     /\ Concave(s)}

\* A chain of n points that starts at <<lo, c>> with slope a and bends down by
\* one every b points.
Bent(lo, n, a, b, c) ==
  LET y[k \in 1 .. n] == IF k = 1 THEN c ELSE y[k - 1] + a - (k \div b)
  IN  [k \in 1 .. n |-> <<lo + k, y[k]>>]

Long(lo) ==
  {s \in {Bent(lo, n, a, b, c) :
            n \in {1, 4, 5, 8, 9, 12, 13, 16}, a \in {-2, 0, 2, 6}, b \in {1, 2, 20},
            c \in {0, 30}} :
     \A i \in 1 .. Len(s) : s[i][2] >= 0}

Large(lo) ==
  {<<<<lo, 0>>, <<lo + 16, 32767>>>>, <<<<lo, 32767>>, <<lo + 16, 0>>>>,
   <<<<lo, 32767>>>>, <<<<lo, 0>>>>, <<<<lo, 16000>>, <<lo + 16, 16001>>>>}

MCLeft  == Short(14) \cup Long(0) \cup Large(0)
MCRight == Short(17) \cup Long(16) \cup Large(32751)
=============================================================================
