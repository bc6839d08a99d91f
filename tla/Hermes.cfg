SPECIFICATION Spec
CONSTANTS
  gpu = gpu
  box = box
  cloud = cloud
  m1 = m1
  m2 = m2
  Lanes = {gpu, box, cloud}
  Models = {m1, m2}
  Profiles = {"default", "special"}
  Configs <- MCConfigs
  Conditions <- MCConditions
  Delegations <- MCDelegations
  Wanted = {{}, {m2}}
  Requests = {r1, r2}
  Commands = {d1, d2}
  MaxClock = 3
  MaxChanges = 1
  ProbeMax = 1
  MaxSlices = 2
  NoLane = NoLane
  NoOrder = NoOrder
  Nothing = Nothing
SYMMETRY MCSymmetry
INVARIANTS
  CloudIsLastResort
  CloudNeedsConsent
  FailedLaneIsLeftAlone
  ToolsAreProven
PROPERTIES
  VerdictIsRecent
CHECK_DEADLOCK FALSE
