CONSTANTS
  Threads <- MCThreads
  CAPACITY = 1
  REQUESTS = 5
  INT_BITS = 8
  ADDR_BITS = 16
  BASE = 144
  TARGETS = 1
SPECIFICATION Spec
CHECK_DEADLOCK FALSE
INVARIANTS ResultReady OwnResult NeverAborts
PROPERTIES ImplementsPe Completes
