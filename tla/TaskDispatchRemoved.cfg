\* A task is cancelled at any time.
SPECIFICATION Spec
CONSTANTS
  Tasks <- Two
  Fleets = {f1}
  None = None
  f1 = f1
  f2 = f2
  t1 = t1
  t2 = t2
  t3 = t3
  Addressed <- All
  Cancels = 1
  CanFail = FALSE
  Prompt = TRUE
  CommandsLimit = 0
INVARIANT RemovedTasksStayAway
CHECK_DEADLOCK FALSE
