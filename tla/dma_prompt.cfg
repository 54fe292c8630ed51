CONSTANTS
  CORES = 3
  stack0_data = 40000
  PAIRS = 2
  PromptTransfer = TRUE
SPECIFICATION FairSpec
INVARIANTS TypeOK LockExclusive RegistersMine TransferMine FreshIndices OneOutstanding
PROPERTIES AllMerged ImplementsService
\* The program ends.
CHECK_DEADLOCK FALSE
