CONSTANTS
  Tasks = {t1}
  Generations = {g1, g2}
  None = None
  NoHash = NoHash
  Unrecorded = Unrecorded
  Drafts <- MCDrafts
  MaxFindings = 3
  Calls = {c1, c2, c3}
  Requests <- MCRequests
  Absent = Absent
  Fragment = Fragment
  MaxTears = 1
  Records = {c1, c2, c3}
  MaxSize = 2
  Missing = Missing
SYMMETRY MCSymmetry
SPECIFICATION MCSpec
INVARIANTS ParentageIsEarned WrittenRecordParses
PROPERTIES CommittedIsFrozen FanOutIsMeasured AppendsSurvive GateIsSound
CHECK_DEADLOCK FALSE
