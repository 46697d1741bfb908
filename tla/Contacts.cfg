SPECIFICATION Spec
CONSTANTS
  p1 = p1  p2 = p2  p3 = p3  k1 = k1  k2 = k2
  NoKey = NoKey  NoPeer = NoPeer  NoName = NoName  NoIndex = NoIndex  NoSetting = NoSetting
  Wiping = Wiping  Starting = Starting
  Peers <- MCPeers
  Keys <- MCKeys
  KeyOf <- MCKeyOf
  Names = {n1, n2}
  Times = {1, 5}
  DefaultTime = 1
  ConstructedTime = 5
  MAX_CONTACTS = 3
  Memory = 5
  MaxAdds = 4
  MaxFaults = 2
  Events <- AllEvents
CHECK_DEADLOCK FALSE
INVARIANT IndexSound
INVARIANT ReportedSurvives
INVARIANT IndexedIsStored
