SPECIFICATION Spec
CONSTANTS
  Leaf = {c1, c2}
  MaxLeaves = 7
  NoHash = NoHash
  Inputs <- MCInputs
INVARIANTS TypeOK TreeShape RootBindsLeaves
CHECK_DEADLOCK FALSE
