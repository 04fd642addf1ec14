\* All arrival orders, repetitions and losses of the versions 0 to 7.
SPECIFICATION TrackerSpec
CONSTANTS
  VersionLimit = 7
  NoChange = NoChange
  Change <- MCChange
INVARIANTS
  TrackerTypeOK
  RangesAreTheMissingVersions
  RangesAreMaximal
  NothingSavedWithoutGap
  ReplayIsInOrder
