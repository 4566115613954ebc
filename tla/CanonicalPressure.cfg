SPECIFICATION Spec
CONSTANTS
  None = None
  Rank = {r1, r2}
  Puller = {p1}
  Param = {a, b}
  MaxVersion = 1
  MaxId = 3
  NumSlots = 2
  Policies = {"attach", "verify", "duplicate"}
  Calls = {"seal", "io", "borrow"}
  Retain = 0
SYMMETRY Renamings
INVARIANTS Backed 
CHECK_DEADLOCK FALSE
