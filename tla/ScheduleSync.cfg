\* Four changes in any order, any of them late, never there or a delay above the limit; up to two restarts.
SPECIFICATION Spec
CONSTANTS
  VersionLimit = 3
  LossLimit = 0
  RestartLimit = 2
  IdShifts = {0, 1}
  Polling = TRUE
  LongDelays = TRUE
  NoChange = NoChange
  Change <- MCChange
INVARIANTS
  TypeOK
  RangesAreTheMissingVersions
  RangesAreMaximal
  NothingSavedWithoutGap
  ReplayIsInOrder
  DatabaseShowsAnItineraryOfThePast
  HistoryIsComplete
PROPERTY DatabaseNeverGoesBack
CHECK_DEADLOCK FALSE
