SPECIFICATION FairSpec
CONSTANTS
  Thread = {w1, w2}
  Stripes = 2
  Align = 2
  Block = 2
  QueueDepth = 2
  IovSlots = 2
  Engines = {"pwrite", "io_uring"}
  Sizings <- TwoTensors
  MaxId = 2
  Faults <- ReportedFaults
INVARIANTS RegionsDisjoint
PROPERTIES  TransfersEnd
CHECK_DEADLOCK FALSE
