SPECIFICATION FairSpec
CONSTANTS
  s1 = s1
  s2 = s2
  Sessions = {s1, s2}
  Scenarios <- DrainScenarios
  RING = 2
  MaxCommands = 2
CHECK_DEADLOCK FALSE
INVARIANTS
  TypeOK
  NothingOrphaned
  QuietRingIsAccurate
PROPERTIES
  DrainEnds
