SPECIFICATION Spec
CONSTANTS
  n1 = n1
  n2 = n2
  Nodes = {n1, n2}
  Rounds = {1}
  Stamps = {1}
  Operators <- MCOperators
  Registered = {n1, n2}
  MaxFaults = 0
  MaxGenerated = 1
  MaxCrashes = 0
  MaxRegistrations = 0
  MaxOutside = 0
  MaxBusy = 1
  NoValue = NoValue
PROPERTY RevealFollowsOrder
CHECK_DEADLOCK FALSE
