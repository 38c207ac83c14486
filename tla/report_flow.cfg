SPECIFICATION Spec
CONSTANTS
  Reporters = 2
  Periodic = {1}
  Initial = {1, 2}
  TxDelays = {1}
  SendIntervals = {2}
  TriggerIntervals = {1, 2}
  Ids = {1}
  MaxAsked = 1
  MaxChains = 2
  MaxStored = 1
INVARIANT TypeOK
INVARIANT OnePlace
INVARIANT NoneStaleSent
INVARIANT SentInTime
INVARIANT KeepsReporting
CHECK_DEADLOCK FALSE
