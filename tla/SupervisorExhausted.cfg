CONSTANTS
  Sessions = {s1}
  Gone = Gone
  Lanes = {l1, l2}
  NoLane = NoLane
  NoKey = NoKey
  ProgressTimeout = 1
  HardTimeout = 5
  StaleTtl = 6
  MaxAttempts = 1
  MaxFailures = 3
  BackoffInitial = 1
  BackoffMax = 3
  FailureReset = 3
  BanAfter = 2
  DedupeWindow = 1
  AbortWindow = 1
  ValidationWindow = 1
  Events = {}
  TickInputs <- MCQuiet
  Checks = {}
  CompleteInputs = {}
  Restarts = {FALSE}
  Operators = {}
  MaxStalls = 3
  Crashes = FALSE
  TaskIds = {t1, t2}
  NoSession = NoSession
  NoLease = NoLease
  Notes = {}
  NoNote = NoNote
  SynthesisNote = SynthesisNote
  Keep = Keep
  MaxTime = 5
  MaxResumes = 2
  CreateInputs <- MCRegister
  UpdateInputs <- MCProgress
  Nothing = Nothing
SPECIFICATION SSpec
INVARIANT EndedSessionHoldsNoClaim
