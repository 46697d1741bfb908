SPECIFICATION Spec
CONSTANTS
  Cells <- Cube
  Openings <- WholeOpenings
  WinsForFlag = 10
  TimeLimit = 100
  MaxWins = 3
  MaxTime = 1
INVARIANTS
  EachLineCounts
