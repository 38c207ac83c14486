SPECIFICATION FairSpec
CONSTANTS
  k1 = k1
  k2 = k2
  Knob = {k1, k2}
  Start <- Starts
  Lo <- Lows
  Hi <- Highs
  Step <- Steps
  Preferred <- Directions
  KnobsOf <- Lists
  HealKnobs <- Heals
  Interval = 3
  Eval = 4
  Cooldown = 6
  MinStart = 2
  Windows <- SomeWindows
  MaxSim = 12
INVARIANT OnlyAcceptedStays
PROPERTY JudgedInPhase
PROPERTY RoundRobinGoesOn
