CONSTANTS
  Options <- MCOptions
  HistoryLimit = 2
  MaxStarts = 3
  Absent = Absent
  Torn = Torn
  Calls = {1, 2}
  Patterns = {"p1"}
  Requests <- MCRequests
  Configs <- MCConfigs
SPECIFICATION MCSpec
INVARIANTS RecordedWorkIsNotRerun GenerationsPartition OutcomeIsEvidence
PROPERTIES LoopEnds EveryCommandIsSwept
CHECK_DEADLOCK FALSE
