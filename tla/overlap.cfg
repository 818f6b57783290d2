SPECIFICATION Spec
CONSTANTS
  n1 = n1
  n2 = n2
  Nodes = {n1, n2}
  Rounds = {1}
  Stamps = {1}
  Operators <- MCOperators
  Registered = {n1, n2}
  MaxFaults = 0
  MaxGenerated = 1
  MaxCrashes = 0
  MaxRegistrations = 0
  MaxOutside = 1
  MaxBusy = 2
  NoValue = NoValue
CONSTRAINT UntilGenerated
INVARIANTS RootBindsCommits CommitBeforeReveal StoredValuesAreCommitted CommitsDurable
CHECK_DEADLOCK FALSE
