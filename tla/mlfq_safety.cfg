SPECIFICATION Spec
CONSTANTS
  Jobs = {j1, j2, j3}
  NoPid = NoPid
  MaxTicks = 1
  Policy = "mlfq"
  NCPUS = 2
  NumLevels = 2
  Slice = 1
  MaxForkFails = 1
  Requests = {"add", "status"}
  Operator = {"interrupt"}
SYMMETRY Symmetry
CHECK_DEADLOCK FALSE
INVARIANTS IInv OneEntryPerJob QueuedNotRunning LevelMatchesPriority StatusTruthful StoppedAreQueued DemotionPaid
