SPECIFICATION FairSpec
CONSTANTS
  NumApos = 2
  NumSlots = 2
  TickMod = 4
  Stale = 1
  Hazards = {"engineCrash"}
INVARIANTS
  SlotExclusive
PROPERTIES
  LeaseSpec
  EventuallyOneMaster
  SoundGoesOn
CHECK_DEADLOCK FALSE
