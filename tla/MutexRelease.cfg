\* Three robots and one group; one gives up a claim it never got.
SPECIFICATION Spec
CONSTANTS
  a = a
  b = b
  r1 = r1
  r2 = r2
  r3 = r3
  Unclaimed = Unclaimed
  Robots = {r1, r2, r3}
  Groups = {a}
  ClaimLimit = 3
  RestartLimit = 0
  StatesLimit = 2
  RequestsLimit = 2
  Wishes <- OneGroup
  Nanoseconds <- Descending
  Nested = FALSE
  Hasty = FALSE
  Manual = FALSE
  Idle = FALSE
INVARIANTS
  MutualExclusion
CHECK_DEADLOCK FALSE
