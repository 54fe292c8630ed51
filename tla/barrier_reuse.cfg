\* Two harts, two uses of the barrier, any timing.
CONSTANTS
  CORES = 2
  PROCESSORS = 2
  DEPTH = 2
SPECIFICATION Spec
INVARIANT SameIteration
CHECK_DEADLOCK FALSE
