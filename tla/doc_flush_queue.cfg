SPECIFICATION Spec
CONSTANTS
  Jobs = {j1, j2}
  NoPid = NoPid
  MaxTicks = 0
  Policy = "mlfq"
  NCPUS = 1
  NumLevels = 2
  Slice = 1
  MaxForkFails = 0
  Requests = {"add", "flush"}
  Operator = {}
CHECK_DEADLOCK FALSE
PROPERTIES FlushEmptiesQueue
