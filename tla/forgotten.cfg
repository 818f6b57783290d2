SPECIFICATION Spec
CONSTANTS
  n1 = n1
  n2 = n2
  Nodes = {n1, n2}
  Threshold = 2
  MaxActivated = 2
  Price = 1
  MaxOthers = 0
  MaxFaults = 0
  MaxCharges = 0
  MaxCrashes = 0
  Empty = Empty
INVARIANT ActivatedNodesRegistered
