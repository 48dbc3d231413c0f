SPECIFICATION CreateSpec
CONSTANTS
  m1 = m1
  m2 = m2
  m3 = m3
  d1 = d1
  Messages = {m1, m2, m3}
  Keys = {m1, m2, m3}
  Ids = {m1, m2, m3}
  Delegations = {d1}
  Jobs = {j1, j2, j3, j4}
  NoKey = NoKey
  NoJob = NoJob
  NoDelegation = NoDelegation
  DelegationOf <- AllOwn
  MAX_CONCURRENT_LAUNCH_BODIES = 2
  BOUND = 1
  ADMISSION_QUEUE_CAP = 1
  MAX_DELEGATION_RECEIPTS = 2
  PressureTurns = 1
  MayDrain = TRUE
CHECK_DEADLOCK FALSE
INVARIANTS
  OvershootIsBounded
  OneCustodian
