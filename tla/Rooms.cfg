SPECIFICATION RoomsSpec
CONSTANTS
  Cells <- Corner
  Openings <- CornerOpenings
  WinsForFlag = 2
  TimeLimit = 2
  MaxWins = 3
  MaxTime = 6
  Limit = 2
  Secrets = {0, 7}
  BF_KEY_OFFSET = 2
  Key <- MCKey
  BF_MAX_LINE_BYTES = 7
  OutputSize = 6
  Byte = 10
  WinCount = 2
  Right = 5  Left = 2  Plus = 3  Minus = 4  Dot = 6  Open = 9  Close = 8
  Zed = 1
  Spells <- MCSpells
  AnotherAfter <- MCAnother
  Games <- MCGames
CHECK_DEADLOCK FALSE
INVARIANT BoardInOrder
INVARIANT FlagWithinTime
INVARIANT PasswordsExpire
INVARIANT ClickIsEarned
PROPERTY RunsAsWritten
PROPERTY LooplessEnds
