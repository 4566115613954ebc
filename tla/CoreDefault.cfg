SPECIFICATION Spec
CONSTANTS
  r1 = r1
  r2 = r2
  t1 = t1
  t2 = t2
  None = None
  Rank = {r1, r2}
  Tensor = {t1, t2}
  Owner <- OwnTensors
  PidOf <- OwnProcesses
  NumSlots = 2
  DrainWorker = {d1, d2}
  ReadbackWorker = {rw}
  DrainOnD2H = TRUE
  Faults = {}
  MaxVersion = 2
  MaxEpoch = 2
  MaxLease = 4
INVARIANTS TypeOK RestoreExact PinnedBacked ColdBacked OneWriter
PROPERTIES LocationMonotone
CHECK_DEADLOCK FALSE
