SPECIFICATION Spec
CONSTANTS
  MaxSaves = 1
  Hazards = {}
INVARIANTS SavedStateKept
CHECK_DEADLOCK FALSE
