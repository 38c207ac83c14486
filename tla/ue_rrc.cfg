SPECIFICATION FairSpec
CONSTANTS
  Cell = {1, 2, 3, 4}
  ClosedGroup = {3, 4}
  QRxLevMin <- SameMinimum
  FailLimit <- TwiceInCell1
  Reports <- SomeReports
  N310 = 2
  N311 = 3
INVARIANT NoFatalError
INVARIANT ConnectionTimerMatchesState
INVARIANT RadioLinkSupervised
PROPERTY Reconnects
CHECK_DEADLOCK FALSE
