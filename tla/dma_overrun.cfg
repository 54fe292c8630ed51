\* Two harts, one pair each, any timing.
CONSTANTS
  CORES = 2
  stack0_data = 40000
  PAIRS = 1
  PromptTransfer = FALSE
SPECIFICATION Spec
INVARIANT FreshIndices
CHECK_DEADLOCK FALSE
