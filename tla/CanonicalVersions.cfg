SPECIFICATION Spec
CONSTANTS
  None = None
  Rank = {r1, r2}
  Puller = {p1}
  Param = {a}
  MaxVersion = 2
  MaxId = 2
  NumSlots = 2
  Policies = {"attach", "duplicate"}
  Calls = {"seal", "drop", "pull", "die"}
  Retain = 1
SYMMETRY Renamings
INVARIANTS TypeOK  HoldersAlive NoIdleOrphan TransferHeld LatestSealed CreatorAtWork
CHECK_DEADLOCK FALSE
