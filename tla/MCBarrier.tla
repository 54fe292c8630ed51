------------------------------ MODULE MCBarrier ------------------------------
(* Instances of Barrier for TLC: the values are in the cfg files.          *)
EXTENDS Barrier
=============================================================================
