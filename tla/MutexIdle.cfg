\* Two robots and one group; one of them is without a task in it.
SPECIFICATION Spec
CONSTANTS
  a = a
  b = b
  r1 = r1
  r2 = r2
  r3 = r3
  Unclaimed = Unclaimed
  Robots <- MCRobots
  Groups = {a}
  ClaimLimit = 2
  RestartLimit = 0
  StatesLimit = 1
  RequestsLimit = 0
  Wishes <- OneGroup
  Nanoseconds <- Descending
  Nested = FALSE
  Hasty = FALSE
  Manual = FALSE
  Idle = TRUE
INVARIANTS
  MutualExclusion
CHECK_DEADLOCK FALSE
