CONSTANTS
  Sessions = {s1}
  Gone = Gone
  Lanes = {l1, l2, l3}
  NoLane = NoLane
  NoKey = NoKey
  ProgressTimeout = 2
  HardTimeout = 5
  StaleTtl = 22
  MaxAttempts = 3
  MaxFailures = 3
  BackoffInitial = 1
  BackoffMax = 3
  FailureReset = 3
  BanAfter = 2
  DedupeWindow = 1
  AbortWindow = 1
  ValidationWindow = 1
  Events = {}
  TickInputs <- SilentTicks
  Checks = {}
  CompleteInputs = {}
  Restarts = {FALSE}
  Operators = {}
  MaxStalls = 3
  Crashes = TRUE
  MaxCrashes = 2
SPECIFICATION HSpec
PROPERTIES SilenceIsNotForgiven FailoversPaced SilentSessionSettles
