SPECIFICATION FairLedSpec
CONSTANTS
  Begins = {"Initial3", "Dance2"}
  LedRounds = 1
  Drops = 1
  Flashes = 1
  Draws = {3, 15}
  MaxTurns = 36
  MaxCommands = 1
  Registers = {1}
INVARIANTS
  ScanShows
  CylonAlone
PROPERTY BouncesEnd
