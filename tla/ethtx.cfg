SPECIFICATION FairSpec
CONSTANTS
  activate = activate
  root = root
  Calls = {activate, root}
  Once = {activate}
  Conditional = {activate}
  Prices = {1, 2}
  MaxAttempts = 3
  MaxTries = 2
  MaxFaults = 1
  MaxCrashes = 1
INVARIANTS TypeOK SuccessMeansExecuted PendingContiguous TwiceOnlyAfterFault
PROPERTY CallsReturn
CHECK_DEADLOCK FALSE
