SPECIFICATION FairSpec
CONSTANTS
  L = L
  R = R
  AICSize = 17
  ATBSSize = 13
  MaxRuns = 3
  MaxStarts = 1
  MaxLoss = 1
  Faults <- AllFaults
INVARIANTS
  NotBothAlice
PROPERTY AttemptEnds
CHECK_DEADLOCK FALSE
