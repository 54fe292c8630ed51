\* Three of four harts share 16 points; of which 8 make one hull.
CONSTANTS
  BLOCK = 2
  SCALE = 16
  CORES = 4
  PROCESSORS = 3
  DEPTH = 3
  Inputs <- MCLong
SPECIFICATION Spec
INVARIANT PrintsHull
