CONSTANTS
  BLOCK = 4
  SCALE = 16
  LeftHulls <- MCLeft
  RightHulls <- MCRight
SPECIFICATION TangentSpec
INVARIANTS BlocksHit FindsTangent
\* A search ends.
CHECK_DEADLOCK FALSE
