\* Three of four harts share 16 points; hulls of at most 4 points.
CONSTANTS
  BLOCK = 2
  SCALE = 16
  CORES = 4
  PROCESSORS = 3
  DEPTH = 3
  Inputs <- MCInputs
SPECIFICATION Spec
INVARIANTS RegionsDisjoint StaysInside HalvesReady BufferFits PrintsHull Fit
