SPECIFICATION Spec
CONSTANTS
  Jobs = {j1, j2, j3}
  NoPid = NoPid
  MaxTicks = 0
  Policy = "fifo"
  NCPUS = 2
  NumLevels = 1
  Slice = 1
  MaxForkFails = 1
  Requests = {"add"}
  Operator = {"interrupt"}
SYMMETRY Symmetry
CHECK_DEADLOCK FALSE
INVARIANTS TypeOK CPULimit FifoConservation WaitingCounter StartedOnce
PROPERTIES ImplementsLifecycle OnlyLateRequestStarts
