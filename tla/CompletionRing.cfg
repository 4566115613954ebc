SPECIFICATION FairSpec
CONSTANTS
  Capacity = 2
  Budget = 2
  MaxCopies = 5
INVARIANTS RestoreFindsCompletion
PROPERTIES RingIsQueue CompletionsArrive RestoreAnswered
