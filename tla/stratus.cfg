CONSTANTS
  Threads <- MCThreads
  CAPACITY = 2
  REQUESTS = 5
SPECIFICATION Spec
CHECK_DEADLOCK FALSE
INVARIANTS NetTypeOK InStep OwnResult Drained
PROPERTIES ImplementsPe Completes
