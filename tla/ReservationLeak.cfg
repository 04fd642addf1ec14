\* A robot is sent to the spot it already has.
SPECIFICATION Spec
CONSTANTS
  p = p
  q = q
  w = w
  x = x
  r1 = r1
  r2 = r2
  NoRobot = NoRobot
  Nowhere = Nowhere
  TicketLimit = 4
  MissionLimit = 2
  RequestIds = {0, 1}
  Robots = {r1, r2}
  Locations <- FourSpots
  ParkingSpots <- ParkingWX
  Alternatives <- NoAlternatives
  WaitLists <- WaitsWX
  GoalLists <- GoalsPQ
  Skipped <- AllKept
  Costs = {1}
  MayCancel = FALSE
  MayAskAgain = TRUE
INVARIANT NoForgottenTicket
CHECK_DEADLOCK FALSE
