\* Three robots whose paths make a ring.
SPECIFICATION FairSpec
CONSTANTS
  A = A
  B = B
  C = C
  Robots = {A, B, C}
  CanHoldAt <- RingPoints
  Conflicts <- RingConflicts
  SearchOrders <- BothOrders
  Dependent <- AfterTheConflicts
  ReleaseLimit = 1
INVARIANTS
  TypeOK
  NoCollision
  NoGridlock
PROPERTY EveryRobotArrives
\* All robots arrive.
CHECK_DEADLOCK FALSE
