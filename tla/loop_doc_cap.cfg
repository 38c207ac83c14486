SPECIFICATION MCSpec
CONSTANTS
  Cell = {1, 2, 3}
  Ue = {1}
  FullPower = 46
  SleepPower = 0
  MinActive = 2
  MinDwell = 1
  WarmUp = 1
  MinUes = 1
  IdleExit = 2
  MaxAge = 1
  MaxSim = 4
  MaxFaults = 1
INVARIANTS
  HardCap
CHECK_DEADLOCK FALSE
