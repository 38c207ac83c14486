SPECIFICATION Spec
CONSTANTS
  Node = {n1, n2}
  Null = Null
  n1 = n1
  n2 = n2
  Setups <- MCSetups
INVARIANT TypeOK
INVARIANT OneOwner
INVARIANT RegisteredIsReachable
INVARIANT SilentIsDeregistered
INVARIANT BeliefIsCurrent
PROPERTY StableIdentity
CHECK_DEADLOCK FALSE
