SPECIFICATION Spec
CONSTANTS
  Jobs = {sleep, echo, typo}
  Missing = {typo}
  NoPid = NoPid
  NCPUS = 2
  MaxServers = 3
CHECK_DEADLOCK FALSE
INVARIANTS ExecutedOnce
