SPECIFICATION FairSpec
CONSTANTS
  n1 = n1
  n2 = n2
  Nodes = {n1, n2}
  Rounds = {1}
  Stamps = {1}
  Operators <- MCOperators
  Registered = {n1}
  MaxFaults = 1
  MaxGenerated = 1
  MaxCrashes = 0
  MaxRegistrations = 1
  MaxOutside = 0
  MaxBusy = 2
  NoValue = NoValue
CONSTRAINT RootedAndUnsettled
ACTION_CONSTRAINT FailureFirst
INVARIANT RandomFromAllOperators
PROPERTY RecordedRootLeadsToNumber
CHECK_DEADLOCK FALSE
