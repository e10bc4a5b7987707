SPECIFICATION Spec
CONSTANTS
  NumApos = 2
  NumSlots = 2
  TickMod = 3
  Stale = 1
  Hazards = {"parallelClaims", "ticksInClaim", "pauses", "hostChurn", "mapFailures"}
INVARIANTS
  OneSlotPerId
  SlotKnownToOwner
PROPERTIES
  FreedByOwnerOnly
  UseIsOwned
CHECK_DEADLOCK FALSE
