----------------------------- MODULE MCHullMerge -----------------------------
(***************************************************************************)
(* Inputs for HullMerge with 16 points: one in each column, at heights     *)
(* that rise and fall in many ways, and one shaped like input.h, where a   *)
(* run of equal points fills the first half; and one beyond MAX_HULL.      *)
(***************************************************************************)
EXTENDS HullMerge

Scattered(a, b, c) == [i \in Slot |-> <<i, (a * i * i + b * i + c) % 7>>]

LikeCommitted ==
  [i \in Slot |-> CASE i = 0      -> <<0, 9>>
                    [] i \in 1 .. 8 -> <<2, 0>>
                    [] i > 8      -> <<i, IF i % 3 = 0 THEN (17 - i) * (i - 7) ELSE i % 3>>]

Candidates == {Scattered(a, b, c) : a \in 0 .. 6, b \in 0 .. 6, c \in 0 .. 6} \cup {LikeCommitted}

MCInputs == {input \in Candidates : Narrow(input, DEPTH, MAX_HULL)}

ASSUME LikeCommittedAssumption == LikeCommitted \in MCInputs

\* A first half whose 8 points are all on its hull.
MCLong == {[i \in Slot |-> IF i < 8 THEN <<i, 40 + i * (15 - i)>>
                            ELSE <<i, (i - 11) * (i - 11)>>]}

(***************************************************************************)
(* The points of input.h, at the sizes of the program: DEPTH is 5 and      *)
(* MAX_HULL_SIZE 16.  They are Growing, and Narrow enough.                 *)
(***************************************************************************)
CommittedX ==
  <<1008>> \o [i \in 1 .. 32 |-> 1010] \o
  <<1051, 1094, 1165, 1216, 1243, 1270, 1341, 1413, 1510, 1582, 1620, 1691, 1787, 1861, 1871,
    2234, 2278, 2332, 2395, 2402, 2493, 2539, 2569, 2643, 2689, 2789, 2869, 2942, 3030, 3065, 3072>>

CommittedY ==
  <<1027>> \o [i \in 1 .. 32 |-> 0] \o
  <<1096, 1158, 1245, 1294, 1319, 1337, 1383, 1397, 1408, 1394, 1384, 1331, 1254, 1169, 1069,
    1070, 1126, 1193, 1241, 1245, 1291, 1313, 1326, 1352, 1364, 1384, 1396, 1389, 1306, 1264, 1190>>

Committed == [i \in 0 .. 63 |-> <<CommittedX[i + 1], CommittedY[i + 1]>>]

ASSUME CommittedAssumption ==
  /\ \A i \in 0 .. 63 : Committed[i] \in Coordinate \X Coordinate
  /\ Settles(Committed, 0, 31) /\ Settles(Committed, 32, 63)
  /\ Committed[32] = Committed[31] /\ Committed[32][2] = 0
  /\ Narrow(Committed, 5, 16)
=============================================================================
