SPECIFICATION Spec
CONSTANTS
  L = L
  R = R
  AICSize = 17
  ATBSSize = 13
  MaxRuns = 4
  MaxStarts = 2
  MaxLoss = 1
  Faults <- LossFaults
SYMMETRY BadgeSymmetry
INVARIANTS
  ContactsGenuine
PROPERTIES
  ImplementsExchange
  LeftoverDooms
CHECK_DEADLOCK FALSE
