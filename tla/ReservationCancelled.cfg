\* A task is cancelled while its ticket waits.
SPECIFICATION Spec
CONSTANTS
  p = p
  q = q
  w = w
  x = x
  r1 = r1
  r2 = r2
  NoRobot = NoRobot
  Nowhere = Nowhere
  TicketLimit = 4
  MissionLimit = 2
  RequestIds = {0, 1}
  Robots = {r1, r2}
  Locations <- FourSpots
  ParkingSpots <- ParkingWX
  Alternatives <- NoAlternatives
  WaitLists <- WaitsWThenX
  GoalLists <- GoalsPW
  Skipped <- AllKept
  Costs = {1}
  MayCancel = TRUE
  MayAskAgain = FALSE
INVARIANT ExclusiveSpots
CHECK_DEADLOCK FALSE
