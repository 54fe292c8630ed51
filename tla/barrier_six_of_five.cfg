\* PROCESSORS one larger than the number of cores, as 6 is to 5.
CONSTANTS
  CORES = 3
  PROCESSORS = 4
  DEPTH = 2
SPECIFICATION FairSpec
PROPERTY Termination
CHECK_DEADLOCK FALSE
