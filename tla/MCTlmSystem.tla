----------------------------- MODULE MCTlmSystem -----------------------------
EXTENDS TlmSystem

MCThreads == {"L", "R", "B", "CT"}
=============================================================================
