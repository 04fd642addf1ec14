\* An award may be acknowledged after the auctioneer's timer fired again: the
\* next award then lands on a bid that was made before the first one.
SPECIFICATION Spec
CONSTANTS
  Tasks <- MCTasks
  Fleets = {f1}
  None = None
  f1 = f1
  f2 = f2
  t1 = t1
  t2 = t2
  t3 = t3
  Addressed <- All
  Cancels = 1
  CanFail = TRUE
  Prompt = FALSE
  CommandsLimit = 1
INVARIANT DispatchedTasksAreKept
CHECK_DEADLOCK FALSE
