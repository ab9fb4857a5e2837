SPECIFICATION Spec
CONSTANTS
  Local = local
  h1 = h1
  Hosts = {h1}
  Scheduled <- BatchLanes
  GlobalConcurrency = 2
  CoreReserved = 1
  Directories = 2
  MaxWorkers = 2
  MaxEdges = 1
INVARIANT NeverAsleep OneWorkerPerBatch WritesForHeldTarget
PROPERTY NothingStaleRecorded
CHECK_DEADLOCK FALSE
