SPECIFICATION PFairSpec
CONSTANTS
  MaxSaves = 1
  Hazards = {}
  Params = {p1}
  MaxEdits = 2
INVARIANTS
  PluginInv
  NoUseAfterUnmap
  FlagLoweredAtEnd
  AnnouncedIsServed
  NoEditLost
  WindowEndKeepsEdits
PROPERTIES
  WindowEnds
  HeardAsShown
CHECK_DEADLOCK FALSE
