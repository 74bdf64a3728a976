SPECIFICATION Spec
CONSTANTS
  Clients = {c1}
  NoClient = NoClient
  Requests <- MCRequests
  Numerals <- MCNumerals
  Reads <- MCReads
  Suspendable = {}
  MaxLaunches = 1
CHECK_DEADLOCK FALSE
INVARIANTS PushedAsSubmitted
