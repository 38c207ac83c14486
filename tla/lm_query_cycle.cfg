SPECIFICATION Spec
CONSTANTS
  lmA = lmA
  lmB = lmB
  lmC = lmC
  LM = {lmA, lmB, lmC}
  FirstDefault = lmA
  Setups <- MCSetups
INVARIANTS
  NeverOvertaken
  PromptWithWaitTime
  NoAbortIfDeploymentIsFixed
PROPERTIES
  KeepsDocumentedCycle
  WholeSets
CHECK_DEADLOCK FALSE
