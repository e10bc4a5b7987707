SPECIFICATION FairSpec
CONSTANTS
  P = 2
  Room = 3
  Behind = 2
  Old = 12
  MaxLate = 3
  MaxStarts = 2
  MaxLives = 2
  Hazards = {}
INVARIANTS
  SessionInv
  ReadyWhileUsed
  NoOldSession
PROPERTIES
  PlayedInOrder
  LatencySettles
  GapsEnd
CHECK_DEADLOCK FALSE
