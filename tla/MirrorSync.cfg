\* One participant, a route of the past and one of the present, three changes, one
\* patch or request lost.
SPECIFICATION FairSpec
CONSTANTS
  p1 = p1
  p2 = p2
  m1 = m1
  m2 = m2
  Participants = {p1}
  Mirrors = {m1}
  Itineraries <- MCItineraries
  DelayStep = 1
  NoRoute = NoRoute
  CullTimes = {5}
  CheckpointLimit = 1
  VersionLimit = 4
  TransitionLimit = 1
  DisturbanceLimit = 1
INVARIANTS
  TypeOK
  PatchesLeadFromEveryVersion
PROPERTIES
  FollowsTheSchedule
  EveryMirrorCatchesUp
CHECK_DEADLOCK FALSE
