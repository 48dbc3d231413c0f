SPECIFICATION FairSpec
CONSTANTS
  Keys = {k1, k2}
  Ids = {i1}
  Delegations = {d1}
  Jobs = {j1, j2, j3}
  NoKey = NoKey
  NoJob = NoJob
  NoDelegation = NoDelegation
  MAX_CONCURRENT_LAUNCH_BODIES = 1
CHECK_DEADLOCK FALSE
INVARIANTS
  BusyKeyHasOneWorker
  PermitsConserved
  ReservationsPairUp
  PendingHeavyInOrder
PROPERTIES
  OrderedSpec
  OnlyStuckBodiesDelay
