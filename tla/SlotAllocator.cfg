SPECIFICATION Spec
CONSTANTS
  Gran = 2
  Configs <- SmallConfigs
  Gpu = {0, 1, 2}
  Overflow = 99
  Sizes = {2, 3, 6}
  MaxRuns = 4
INVARIANTS PlanFits RunsDisjoint RunContiguous RefusedOnlyWhenFull 
