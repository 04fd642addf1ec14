\* The schedule node restarts once and gives another id, nothing is lost.
SPECIFICATION FairSpec
CONSTANTS
  VersionLimit = 2
  LossLimit = 0
  RestartLimit = 1
  IdShifts = {1}
  Polling = FALSE
  LongDelays = FALSE
  NoChange = NoChange
  Change <- MCChange
PROPERTY EventuallyInSync
CHECK_DEADLOCK FALSE
