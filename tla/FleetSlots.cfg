SPECIFICATION FairSpec
CONSTANTS
  Local = local
  h1 = h1
  Hosts = {h1}
  Scheduled <- SlotLanes
  GlobalConcurrency = 2
  CoreReserved = 1
  Directories = 2
  MaxWorkers = 2
  MaxEdges = 0
PROPERTY CoreStarts NothingStaleRecorded
CHECK_DEADLOCK FALSE
