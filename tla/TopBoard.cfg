SPECIFICATION FairSpec
CONSTANTS
  Dance1 = Dance1  Initial12 = Initial12  Initial13 = Initial13  Initial14 = Initial14
  NoDance = NoDance
  Dances <- MCDances
  Bounce = {Dance1, Initial13}
  Repeat = {Initial12}
  NextOf <- MCNextOf
  ExtraData <- MCExtraData
  DanceSequences = {Dance1, Initial12}
  InitialOFF = Initial12
  Selects <- MCSelects
  Last = 2
  Rounds = 1
  Writes <- MCWrites
  MaxWrites = 2
  Faults <- AllFaults
CHECK_DEADLOCK FALSE
INVARIANTS
  TimerInOnePlace
  InterruptHasTimer
  NeverEarly
  CommandDances
  ActsOnWrites
PROPERTIES
  DanceGoesOn
