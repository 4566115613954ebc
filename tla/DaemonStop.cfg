\* Two peers that follow each other on one descriptor, a pool of one worker.
CONSTANTS
  NumClients = 2
  NumFds = 1
  Pool = {"drain"}
  PoolSize = 1
  MaxJobs = 1
SPECIFICATION FairSpec
INVARIANTS
  QuietReturn
PROPERTIES
  StopsOrStuck
CHECK_DEADLOCK FALSE
