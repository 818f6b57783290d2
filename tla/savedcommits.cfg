SPECIFICATION FairSpec
CONSTANTS
  n1 = n1
  n2 = n2
  Nodes = {n1, n2}
  Rounds = {1}
  Stamps = {1}
  Operators <- MCOperators
  Registered = {}
  MaxFaults = 0
  MaxGenerated = 1
  MaxCrashes = 1
  MaxRegistrations = 0
  MaxOutside = 0
  MaxBusy = 3
  NoValue = NoValue
PROPERTY SavedCommitsLeadToRoot
CHECK_DEADLOCK FALSE
