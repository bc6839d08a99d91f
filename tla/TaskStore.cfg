CONSTANTS
  TaskIds = {t1, t2, t3}
  Sessions = {s1}
  NoSession = NoSession
  NoLease = NoLease
  Notes = {}
  NoNote = NoNote
  SynthesisNote = SynthesisNote
  Keep = Keep
  Fleet = Fleet
  MaxTime = 1
  MaxAttempts = 1
  LeaseExpiries = {1}
  CreateInputs <- MCCreateInputs
  UpdateInputs <- MCUpdateInputs
SYMMETRY TaskSymmetry
SPECIFICATION Spec
INVARIANTS NoDependencyCycle QuietStopIsHonest
PROPERTY DeadClaimLandsNothing
