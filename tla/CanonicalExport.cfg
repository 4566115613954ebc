SPECIFICATION Spec
CONSTANTS
  None = None
  Rank = {r1, r2}
  Puller = {p1}
  Param = {a}
  MaxVersion = 2
  MaxId = 3
  NumSlots = 1
  Policies = {"attach"}
  Calls = {"seal", "pull", "io"}
  Retain = 0
SYMMETRY Renamings
INVARIANTS TransferHeld Located
CHECK_DEADLOCK FALSE
