CONSTANTS
  Sessions = {s1}
  Gone = Gone
  Lanes = {l1}
  NoLane = NoLane
  NoKey = NoKey
  ProgressTimeout = 1
  HardTimeout = 1
  StaleTtl = 2
  MaxAttempts = 2
  MaxFailures = 2
  BackoffInitial = 1
  BackoffMax = 1
  FailureReset = 1
  BanAfter = 2
  DedupeWindow = 1
  AbortWindow = 1
  ValidationWindow = 1
  Events = {"busy", "output"}
  TickInputs <- MCMoving
  Checks = {"evidence", "pass", "fail"}
  CompleteInputs <- MCEndings
  Restarts = {TRUE}
  Operators = {"abort", "synthesize"}
  MaxStalls = 0
  Crashes = FALSE
  Commands = {"test", "test_one"}
  Reports <- MCReports
  PartOf <- MCPartOf
  Tasks = {t1, t2}
  Agents = {a1}
  Nobody = Nobody
  NoContract = NoContract
  Idle = Idle
SPECIFICATION GateSpec
PROPERTIES CompletionIsProven ContractsAreValidated
SYMMETRY Alike
