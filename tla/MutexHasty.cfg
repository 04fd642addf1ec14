\* Robots that claim again while a release of theirs is on its way.
SPECIFICATION Spec
CONSTANTS
  a = a
  b = b
  r1 = r1
  r2 = r2
  r3 = r3
  Unclaimed = Unclaimed
  Robots <- MCRobots
  Groups <- MCGroups
  ClaimLimit = 3
  RestartLimit = 1
  StatesLimit = 2
  RequestsLimit = 1
  Wishes <- Apart
  Nanoseconds <- Descending
  Nested = TRUE
  Hasty = TRUE
  Manual = FALSE
  Idle = FALSE
INVARIANTS
  MutualExclusion
CHECK_DEADLOCK FALSE
