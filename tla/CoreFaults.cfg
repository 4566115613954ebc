SPECIFICATION FairSpec
CONSTANTS
  r1 = r1
  r2 = r2
  t1 = t1
  t2 = t2
  None = None
  Rank = {r1, r2}
  Tensor = {t1, t2}
  Owner <- OwnTensors
  PidOf <- OwnProcesses
  NumSlots = 2
  DrainWorker = {dw}
  ReadbackWorker = {rw}
  DrainOnD2H = TRUE
  Faults = {"restart", "timeout", "zombie", "io", "discard"}
  MaxVersion = 1
  MaxEpoch = 2
  MaxLease = 3
INVARIANTS NoStrandedSlot LeaseBinding
PROPERTIES DrainsEnd ReadbacksEnd
CHECK_DEADLOCK FALSE
