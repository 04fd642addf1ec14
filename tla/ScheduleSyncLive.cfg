\* Four changes in any order, two of them lost.
SPECIFICATION FairSpec
CONSTANTS
  VersionLimit = 3
  LossLimit = 2
  RestartLimit = 0
  IdShifts = {0}
  Polling = FALSE
  LongDelays = TRUE
  NoChange = NoChange
  Change <- MCChange
PROPERTIES
  GapsAreFilled
  CatchesUp
CHECK_DEADLOCK FALSE
