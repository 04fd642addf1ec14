\* Both robots want the same two groups, and their requests cross.
SPECIFICATION Spec
CONSTANTS
  a = a
  b = b
  r1 = r1
  r2 = r2
  r3 = r3
  Unclaimed = Unclaimed
  Robots <- MCRobots
  Groups <- MCGroups
  ClaimLimit = 2
  RestartLimit = 0
  StatesLimit = 2
  RequestsLimit = 2
  Wishes <- Both
  Nanoseconds <- Descending
  Nested = FALSE
  Hasty = FALSE
  Manual = FALSE
  Idle = FALSE
INVARIANTS
  MutualExclusion
CHECK_DEADLOCK FALSE
