\* Two delays of one route, nothing lost.
SPECIFICATION Spec
CONSTANTS
  p1 = p1
  p2 = p2
  m1 = m1
  m2 = m2
  Participants = {p1}
  Mirrors = {m1}
  Itineraries <- MCItineraries
  DelayStep = 1
  NoRoute = NoRoute
  CullTimes = {5}
  CheckpointLimit = 1
  VersionLimit = 5
  TransitionLimit = 2
  DisturbanceLimit = 0
PROPERTY FollowsTheSchedule
CHECK_DEADLOCK FALSE
