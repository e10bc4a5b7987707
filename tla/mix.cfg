SPECIFICATION FairSpec
CONSTANTS
  NumSlots = 2
  Room = 3
  Block = 2
  Period = 1
  Behind = 2
  MaxClaims = 3
INVARIANTS
  RingsRaceFree
  OldAudioForgotten
  AllWaitedFor
  MixInv
PROPERTIES
  EveryBlockTaken
