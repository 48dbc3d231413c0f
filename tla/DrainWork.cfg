SPECIFICATION Spec
CONSTANTS
  s1 = s1
  s2 = s2
  Sessions = {s1, s2}
  Scenarios <- OneWorking
  RING = 2
  MaxCommands = 1
CHECK_DEADLOCK FALSE
INVARIANTS
  NoWorkAtExit
