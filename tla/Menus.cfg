SPECIFICATION Spec
CONSTANTS
  QUEUE_SIZE = 3
  Presses <- MCPresses
  Tours <- MCTours
  MaxTime = 3
  ConstructedTime = 2
  SizeOfKeyboard = 3
  AGENT_NAME_LENGTH = 3
  TOTAL = 3
  MaxVisits = 2
  width = 4  height = 4
  Games <- MCGames
  MaxGenerations = 8
  MAX_COLORS = 3
  MaxRows = 2
CHECK_DEADLOCK FALSE
INVARIANT OnlyCurrentObserves
INVARIANT CalibrationWhole
INVARIANT SettingsSound
PROPERTY LifeByRule
PROPERTY GamesFollow
