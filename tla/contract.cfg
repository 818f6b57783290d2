SPECIFICATION Spec
CONSTANTS
  a1 = a1
  a2 = a2
  a3 = a3
  Accounts = {a1, a2, a3}
  Threshold = 2
  MaxActivated = 2
  Price = 1
  Amounts = {3}
  MaxBalance = 15
  MaxRounds = 2
  MaxGenerated = 2
SYMMETRY Symmetry
INVARIANTS TypeOK RegistryConsistent StakeCoversActivation DepositsBacked
