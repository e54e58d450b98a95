SPECIFICATION FairWatcherSpec
CONSTANTS
  None = None
  Options <- Instances
  MaxObjects = 3
  MaxSuppress = 1
  Call = {c1}
  MaxEpochs = 2
  MaxGets = 1
  MaxDispatch = 1
  Bounds <- MCBounds
INVARIANTS
  TriggersAreRemembered
  CooldownIsKept
  StopAndResumeAgree
  WatchedAndReleased
PROPERTIES
  ForgottenStaysQuiet
  TriggerServed
  NothingIsCutShort
CHECK_DEADLOCK FALSE
