----------------------------- MODULE MCSemaphore -----------------------------
(* Instances of Semaphore for TLC: the values are in the cfg files.        *)
EXTENDS Semaphore
=============================================================================
