\* A delay above the limit, and nothing is lost.
SPECIFICATION FairSpec
CONSTANTS
  VersionLimit = 2
  LossLimit = 0
  RestartLimit = 0
  IdShifts = {0}
  Polling = FALSE
  LongDelays = TRUE
  NoChange = NoChange
  Change <- MCChange
PROPERTY EventuallyInSync
CHECK_DEADLOCK FALSE
