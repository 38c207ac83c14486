SPECIFICATION Spec
CONSTANTS
  Node = {n1, n2}
  Null = Null
  n1 = n1
  n2 = n2
  Setups <- OnlyPunctual
INVARIANT NoCrash
CHECK_DEADLOCK FALSE
