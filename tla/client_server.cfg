SPECIFICATION FairSpec
CONSTANTS
  Clients = {c1, c2}
  NoClient = NoClient
  Requests <- MCRequests
  Numerals <- MCNumerals
  Reads <- MCReads
  Suspendable = {c1}
  MaxLaunches = 2
CHECK_DEADLOCK FALSE
INVARIANTS TypeOK WordsOfTheClient OnePushPerAdd ClosedMeansPushed
PROPERTIES EveryClientEnds
