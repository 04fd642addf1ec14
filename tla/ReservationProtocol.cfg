\* Two robots, two tasks each to spots that are not parking spots.
SPECIFICATION FairSpec
CONSTANTS
  p = p
  q = q
  w = w
  x = x
  r1 = r1
  r2 = r2
  NoRobot = NoRobot
  Nowhere = Nowhere
  TicketLimit = 4
  MissionLimit = 2
  RequestIds = {0, 1}
  Robots = {r1, r2}
  Locations <- FourSpots
  ParkingSpots <- ParkingWX
  Alternatives <- NoAlternatives
  WaitLists <- WaitsWX
  GoalLists <- GoalsPQ
  Skipped <- AllKept
  Costs = {1}
  MayCancel = FALSE
  MayAskAgain = FALSE
INVARIANTS
  TypeOK
  ExclusiveSpots
  NoForgottenTicket
  NobodyIsOvertaken
PROPERTY EveryTaskEnds
CHECK_DEADLOCK FALSE
