SPECIFICATION BleSpec
CONSTANTS
  menu = menu  hello = hello  spin = spin
  Command <- MCCommand
  GameOf <- MCGameOf
  Replies <- MCReplies
  Endless <- MCEndless
  Locked = 12
  BadContext = 28
  Payload = 20
  GAME_QUEUE_SIZE = 1
  BLE_QUEUE_SIZE = 2
  MaxWrites = 3
  MaxConns = 2
  MaxRefusals = 1
CHECK_DEADLOCK FALSE
INVARIANT MemoryAccounted
INVARIANT AnswersArrive
PROPERTY RequestsHandled
PROPERTY FoundAgain
