CONSTANTS
  Repos <- MCConflicts
  Memories = {}
  TaskIds = {t1}
  MaxTasks = 0
  Pending = Pending
SPECIFICATION MCSpec
INVARIANT MapFitsBudget
CHECK_DEADLOCK FALSE
