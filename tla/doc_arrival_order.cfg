SPECIFICATION Spec
CONSTANTS
  Jobs = {j1, j2, j3}
  NoPid = NoPid
  MaxTicks = 0
  Policy = "fifo"
  NCPUS = 1
  NumLevels = 1
  Slice = 1
  MaxForkFails = 0
  Requests = {"add"}
  Operator = {}
SYMMETRY Symmetry
CHECK_DEADLOCK FALSE
INVARIANTS StartsInArrivalOrder
