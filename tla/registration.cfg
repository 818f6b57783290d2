SPECIFICATION FairSpec
CONSTANTS
  n1 = n1
  n2 = n2
  Nodes = {n1, n2}
  Threshold = 2
  MaxActivated = 2
  Price = 1
  MaxOthers = 1
  MaxFaults = 1
  MaxCharges = 1
  MaxCrashes = 1
  Empty = Empty
INVARIANTS TypeOK PeerIdsCurrent
PROPERTY NodesGetActivated
CONSTRAINT TwoTroubles
