\* Nothing is cancelled, but an award may take longer than the timer.
SPECIFICATION Spec
CONSTANTS
  Tasks <- Two
  Fleets = {f1}
  None = None
  f1 = f1
  f2 = f2
  t1 = t1
  t2 = t2
  t3 = t3
  Addressed <- All
  Cancels = 0
  CanFail = FALSE
  Prompt = FALSE
  CommandsLimit = 0
INVARIANT FailsOnlyAfterAuction
CHECK_DEADLOCK FALSE
