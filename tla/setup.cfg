SPECIFICATION Spec
CONSTANTS
  Devices = {d1, d2}
  Releases = {1, 2}
  MaxRuns = 2
  MaxFails = 2
  Hazards = {"freeLive"}
INVARIANTS
  SetupInv
  NoDanglingEndpoint
  UninstallLeavesNothing
  OnlyFailedStepsMissing
  SoundIsBack
CHECK_DEADLOCK FALSE
