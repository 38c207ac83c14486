SPECIFICATION FairSpec
CONSTANTS
  Cell = {1, 2, 3}
  MeasId = {1, 2}
  Reports <- SomeReports
  Messages <- SomeMessages
  Cios <- SomeCios
INVARIANT TypeOK
INVARIANT AssertionsHold
INVARIANT ReportTimerRuns
INVARIANT PendingTriggersOK
CHECK_DEADLOCK FALSE
PROPERTY ReportsFollowConditions
