SPECIFICATION Spec
CONSTANTS
  n1 = n1
  n2 = n2
  Nodes = {n1, n2}
  Rounds = {1}
  Stamps = {1}
  Operators <- MCOperators
  Registered = {n1, n2}
  MaxFaults = 1
  MaxGenerated = 2
  MaxCrashes = 1
  MaxRegistrations = 0
  MaxOutside = 0
  MaxBusy = 1
  NoValue = NoValue
CONSTRAINT NothingHangs
INVARIANTS TypeOK FlagsTruthful CommitsDurable
PROPERTY ImplementsBeacon
CHECK_DEADLOCK FALSE
