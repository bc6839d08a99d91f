CONSTANTS
  Repos <- MCRepos
  Memories <- MCMemories
  TaskIds = {t1, t2, t3}
  MaxTasks = 3
  Pending = Pending
SPECIFICATION MCSpec
INVARIANTS SearchDecides LazyMatchesNaive AnswersAreWhole
CHECK_DEADLOCK FALSE
