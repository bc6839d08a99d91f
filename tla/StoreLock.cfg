SPECIFICATION Spec
CONSTANTS
  c1 = c1
  c2 = c2
  c3 = c3
  Calls = {c1, c2, c3}
  Mixes <- MCMixes
  NoCall = NoCall
  MaxDeaths = 1
INVARIANTS
  AcknowledgedSurvives
PROPERTIES
  SectionsAreAtomic
  EveryCallEnds
CHECK_DEADLOCK FALSE
