SPECIFICATION Spec
CONSTANTS
  BaselineWindow = 4
  BadWindows = 2
  GoodWindows = 3
  Configured = 25000
  CloudHardRecoveryCooldown = 2
  Loads <- MCLoads
  Rtts = {20, 50, 90}
INVARIANTS EpisodeSafety
PROPERTIES ReductionSafety RaisesAreEarned SettledPathRecovers
