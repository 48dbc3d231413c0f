SPECIFICATION RoutingSpec
CONSTANTS
  w = w
  t = t
  n = n
  c1 = c1
  c2 = c2
  c3 = c3
  c4 = c4
  Ids = {w, t, n}
  Keys = {w, t, n}
  Jobs = {c1, c2, c3, c4}
  Delegations = {}
  NoKey = NoKey
  NoJob = NoJob
  NoDelegation = NoDelegation
  Scenarios <- RoutingScenarios
  Resumes = {c1, c2}
  LogOf <- Logs
  SessionOf <- OneConversation
  MAX_CONCURRENT_LAUNCH_BODIES = 2
CHECK_DEADLOCK FALSE
INVARIANTS
  NoSessionShadowed
  ArrivalOrder
  ReservationsAgree
