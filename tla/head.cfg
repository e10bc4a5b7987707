SPECIFICATION FairSpec
CONSTANTS
  Half = 8
  Snap = 4
  Forward = 4
  NearZero = 1
  Fast = 5
  Still = 2
  Speed = 1
  Mults = {0, 1}
  Poses = {0, 6, 8}
  MaxMoves = 3
INVARIANTS
  DriftIsGentle
PROPERTIES
  Settles
  SolarWins
CHECK_DEADLOCK FALSE
