SPECIFICATION Spec
CONSTANTS
  Cell = {1, 2}
  Ue = {1}
  MaxTokens = 4
  MaxEnergy = 2
  MaxQoe = 1
  MaxLoad = 1
  CioCell = {1, 2}
  CioSource = {1}
  CioMin = 0
  CioMax = 2
  CioInterval = 2
  CioMaxAge = 1
  MaxDecisions = 2
  MaxCioSim = 5
INVARIANTS
  MostImportantOnly
  SteeredCellsAwake
  NobodyPutToSleep
  BiasIsAsBelieved
CHECK_DEADLOCK FALSE
