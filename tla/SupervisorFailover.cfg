CONSTANTS
  Sessions = {s1}
  Gone = Gone
  Lanes = {l1, l2}
  NoLane = NoLane
  NoKey = NoKey
  ProgressTimeout = 1
  HardTimeout = 3
  StaleTtl = 3
  MaxAttempts = 3
  MaxFailures = 3
  BackoffInitial = 1
  BackoffMax = 3
  FailureReset = 3
  BanAfter = 2
  DedupeWindow = 1
  AbortWindow = 1
  ValidationWindow = 1
  Events = {}
  TickInputs <- MCQuiet
  Checks = {}
  CompleteInputs <- MCFinish
  Restarts = {TRUE}
  Operators = {"abort", "synthesize"}
  MaxStalls = 3
  Crashes = TRUE
  TaskIds = {t1}
  NoSession = NoSession
  NoLease = NoLease
  Notes = {}
  NoNote = NoNote
  SynthesisNote = SynthesisNote
  Keep = Keep
  MaxTime = 3
  MaxResumes = 2
  CreateInputs <- MCRegister
  UpdateInputs <- MCReLease
  Nothing = Nothing
SPECIFICATION SSpec
INVARIANT FinalizedSessionHoldsNoClaim
PROPERTIES FailedOverLaneIsFenced OvertakenLaneMeetsDeadline SynthesisOverwritesNoResult
