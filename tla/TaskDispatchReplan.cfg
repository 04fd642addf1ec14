\* Two tasks for two fleets; one task may be cancelled, plans may fail.
SPECIFICATION Spec
CONSTANTS
  Tasks <- MCTasks
  Fleets = {f1}
  None = None
  f1 = f1
  f2 = f2
  t1 = t1
  t2 = t2
  t3 = t3
  Addressed <- All
  Cancels = 2
  CanFail = TRUE
  Prompt = TRUE
  CommandsLimit = 0
INVARIANTS
  TypeOK
  OneFleetPerTask
  NothingIsDoneTwice
  DispatchedTasksAreKept
\* The tasks end.
CHECK_DEADLOCK FALSE
