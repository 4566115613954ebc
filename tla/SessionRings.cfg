\* Two registrations and three copies: a second session beside the first one, in
\* its place or in its process, and one flush that overflows a ring.
CONSTANTS
  Rank = {1, 2}
  Pid = {1, 2}
  NoRank = NoRank
  MaxRings = 2
  Capacity = 2
  MaxEpoch = 2
  Caller <- ThenAnother
  MaxLease = 3
  MaxIndex = 3
  Faults <- AgentFaults
SPECIFICATION FairSpec
INVARIANTS
  RingsHeld
  CompletionsKept
PROPERTIES
  Delivered
CHECK_DEADLOCK FALSE
