\* One path crosses the other one twice.
SPECIFICATION Spec
CONSTANTS
  A = A
  B = B
  C = C
  Robots = {A, B}
  CanHoldAt <- CrossingPoints
  Conflicts <- CrossingConflicts
  SearchOrders <- OneOrder
  Dependent <- Never
  ReleaseLimit = 0
INVARIANT NoCollision
CHECK_DEADLOCK FALSE
