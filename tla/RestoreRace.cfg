SPECIFICATION Spec
CONSTANTS
  r1 = r1
  r2 = r2
  t1 = t1
  t2 = t2
  None = None
  Rank = {r1, r2}
  Tensor = {t1, t2}
  Owner <- OwnTensors
  PidOf <- OwnProcesses
  NumSlots = 2
  DrainWorker = {dw}
  ReadbackWorker = {rw}
  DrainOnD2H = FALSE
  Faults = {}
  MaxVersion = 2
  MaxEpoch = 2
  MaxLease = 4
INVARIANTS RestoreExact
CHECK_DEADLOCK FALSE
