----------------------------- MODULE MCShutdown -----------------------------
(* Instances of Shutdown for TLC: the values are in the cfg files.         *)
EXTENDS Shutdown
=============================================================================
