\* Two robots that both want the same two groups, and one restart of an adapter.
SPECIFICATION FairSpec
CONSTANTS
  a = a
  b = b
  r1 = r1
  r2 = r2
  r3 = r3
  Unclaimed = Unclaimed
  Robots <- MCRobots
  Groups <- MCGroups
  ClaimLimit = 2
  RestartLimit = 1
  StatesLimit = 1
  RequestsLimit = 0
  Wishes <- Both
  Nanoseconds <- Descending
  Nested = FALSE
  Hasty = FALSE
  Manual = FALSE
  Idle = TRUE
INVARIANTS
  TypeOK
  AssignedToAClaimant
  AsksForWhatItLacks
PROPERTY
  EveryWaitEnds
CHECK_DEADLOCK FALSE
