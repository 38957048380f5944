\* One node with every kind of failure and both startup fence modes.
SPECIFICATION FairSpec
CONSTANTS
  U64Max = 100
  MaxFreshnessAge = 1
  MaxFutureSkew = 0
  MinSourceGeneration = 1
  Node = n1
  Others = {n2}
  Ttl = 0
  MaxTime = 2
  MaxGeneration = 1
  FenceModes = {TRUE, FALSE}
  StopOnError = TRUE
  FaultKinds = {"read", "action", "ledger", "crash"}
  MaxFaults = 2
INVARIANTS GateFollowsController AdmitsOnlyPromoted UnreadLeaseFences
PROPERTIES PromotionHappens DemotionHappens
