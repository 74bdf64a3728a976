SPECIFICATION FairSpec
CONSTANTS
  Jobs = {j1, j2}
  NoPid = NoPid
  MaxTicks = 0
  Policy = "rdrn"
  NCPUS = 1
  NumLevels = 1
  Slice = 1
  MaxForkFails = 1
  Requests = {"add", "flush"}
  Operator = {"type", "interrupt"}
CHECK_DEADLOCK FALSE
PROPERTIES EveryJobLeavesWaiting EveryStoppedResumes EveryZombieReaped ShutdownEnds
