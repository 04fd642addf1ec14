\* Two tasks for two fleets; one task may be cancelled, plans may fail.
SPECIFICATION FairSpec
CONSTANTS
  Tasks <- Two
  Fleets = {f1, f2}
  None = None
  f1 = f1
  f2 = f2
  t1 = t1
  t2 = t2
  t3 = t3
  Addressed <- Shared
  Cancels = 1
  CanFail = TRUE
  Prompt = TRUE
  CommandsLimit = 0
INVARIANTS
  TypeOK
  OneFleetPerTask
  NothingIsDoneTwice
  DispatchedTasksAreKept
PROPERTY EveryAuctionEnds
\* The tasks end.
CHECK_DEADLOCK FALSE
