\* The first change is lost and the database polled.
SPECIFICATION FairSpec
CONSTANTS
  VersionLimit = 1
  LossLimit = 1
  RestartLimit = 0
  IdShifts = {0}
  Polling = TRUE
  LongDelays = FALSE
  NoChange = NoChange
  Change <- MCChange
PROPERTY EventuallyInSync
CHECK_DEADLOCK FALSE
