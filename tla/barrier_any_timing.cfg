\* Four participants and one core beyond PROCESSORS, three uses of the
\* barrier, any relative speed of the harts.
CONSTANTS
  CORES = 5
  PROCESSORS = 4
  DEPTH = 3
SPECIFICATION Spec
INVARIANTS TypeOK MutualExclusion Conservation TripsFull FirstBarrier
PROPERTIES InitHarmless LockstepUnlessStolen
\* The program ends, and harts may be left asleep for ever (see README).
CHECK_DEADLOCK FALSE
