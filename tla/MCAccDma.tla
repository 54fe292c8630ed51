------------------------------ MODULE MCAccDma ------------------------------
(* Instances of AccDma for TLC: the values are in the cfg files.           *)
EXTENDS AccDma
=============================================================================
