SPECIFICATION StartSpec
CONSTANTS
  MaxAttempts = 6
  BootSuccess = 2
  MaxFaults = 1
  MaxCuts = 2
INVARIANTS
  LockedIsWhole
  OneIdentity
PROPERTIES
  ResetEarned
  BootEnds
  BadUpdateGivenUp
