SPECIFICATION Spec
CONSTANTS
  Jobs = {j1, j2, j3}
  NoPid = NoPid
  MaxTicks = 0
  Policy = "rdrn"
  NCPUS = 2
  NumLevels = 1
  Slice = 1
  MaxForkFails = 1
  Requests = {"add", "flush", "status"}
  Operator = {"interrupt"}
SYMMETRY Symmetry
CHECK_DEADLOCK FALSE
INVARIANTS StoppedAreQueued NoOvercommit ReapPending OneEntryPerJob QueuedNotRunning NewBeforePreempted StatusTruthful NoStoppedOrphan
PROPERTIES ImplementsLifecycle OnlyLateRequestStarts
