SPECIFICATION FairSpec
CONSTANTS
  Jobs = {j1, j2}
  NoPid = NoPid
  MaxTicks = 2
  Policy = "mlfq"
  NCPUS = 1
  NumLevels = 2
  Slice = 1
  MaxForkFails = 1
  Requests = {"add", "flush"}
  Operator = {}
CHECK_DEADLOCK FALSE
INVARIANTS TypeOK StartedOnce LevelMatchesPriority
PROPERTIES ImplementsLifecycle EveryStoppedResumes
