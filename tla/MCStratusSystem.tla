--------------------------- MODULE MCStratusSystem ---------------------------
EXTENDS StratusSystem

MCThreads == {"L", "R", "B"}
=============================================================================
