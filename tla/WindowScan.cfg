SPECIFICATION FairSpec
CONSTANTS
  N = 8
  Count = 3
INVARIANTS FirstFit
PROPERTIES Terminates
CHECK_DEADLOCK FALSE
