SPECIFICATION FairSpec
CONSTANTS
  MaxSaves = 1
  Hazards = {}
PROPERTIES CtrlCEnds
CHECK_DEADLOCK FALSE
