\* Every order of requests, claims and releases of four tickets of three robots.
SPECIFICATION NodeSpec
CONSTANTS
  p = p
  q = q
  w = w
  r1 = r1
  r2 = r2
  r3 = r3
  NoRobot = NoRobot
  Nowhere = Nowhere
  TicketLimit = 4
  RequestIds = {0}
  Locations <- MCLocations
  Robots <- MCRobots
  ParkingSpots <- MCParkingSpots
  Alternatives <- MCAlternatives
  WaitLists <- MCWaitLists
SYMMETRY RobotsAreAlike
INVARIANTS
  NodeTypeOK
  HolderAndPlacedAgree
  QueuedEverywhereOrNowhere
  QueuesAgreeOnOrder
PROPERTY LedgerSpec
