SPECIFICATION WatchedSpec
CONSTANTS
  Ue = {1, 2}
  Cell = {1, 2, 3}
  Lm = {1, 2}
  DefaultLm = 2
  Setups <- MCSetups
  Watched <- MCWatched
  MaxChanges = 1
  MaxFailures = 1
  MaxHandovers = 2
  MaxSwitches = 2
INVARIANT CommandsMeetTheirUe
INVARIANT DwellOfServingCell
INVARIANT EndOkNamesTheSource
PROPERTY EndsUpInStrongestCell
CHECK_DEADLOCK FALSE
