\* Tasks are cancelled at any time, and robots sent where they are already.
SPECIFICATION Spec
CONSTANTS
  p = p
  q = q
  w = w
  x = x
  r1 = r1
  r2 = r2
  NoRobot = NoRobot
  Nowhere = Nowhere
  TicketLimit = 4
  MissionLimit = 2
  RequestIds = {0, 1}
  Robots = {r1, r2}
  Locations <- FourSpots
  ParkingSpots <- ParkingWX
  Alternatives <- NoAlternatives
  WaitLists <- WaitsW
  GoalLists <- GoalsPQ
  Skipped <- AllKept
  Costs = {1}
  MayCancel = TRUE
  MayAskAgain = TRUE
PROPERTY KeepsItsSpot
CHECK_DEADLOCK FALSE
