CONSTANTS
  CORES = 3
  PROCESSORS = 3
  DEPTH = 3
  EXIT_AT = 2
SPECIFICATION ExitSpec
INVARIANT ExitLast
PROPERTIES ImplementsTurnstile EndsUnlessStolen
\* The program ends, or harts are left asleep (see README).
CHECK_DEADLOCK FALSE
