SPECIFICATION Spec
CONSTANTS
  Capacity = 8
  MaxPacket = 3
  MaxBlock = 2
  MaxFrames = 12
INVARIANTS
  CableInv
  CopiesDisjoint
  LagBounded
PROPERTIES
  FifoSpec
  SyncLeavesBlock
