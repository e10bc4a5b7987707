SPECIFICATION FairSpec
CONSTANTS
  NumApos = 2
  NumSlots = 2
  TickMod = 3
  Stale = 1
  Hazards = {"hostChurn"}
PROPERTIES NotMutedWithoutHost
CHECK_DEADLOCK FALSE
