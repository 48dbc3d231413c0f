SPECIFICATION FairSpec
CONSTANTS
  s1 = s1
  s2 = s2
  Steers = {s1, s2}
  NoSteer = NoSteer
  Plain = Plain
  MaxPlain = 1
  MaxTurns = 2
  Worlds <- SteerWorlds
CHECK_DEADLOCK FALSE
INVARIANTS
  NoSteerLost
  HeardOnce
  CancelledNeverHeard
PROPERTIES
  EverySteerHeard
