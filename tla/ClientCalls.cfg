\* Two calls of any kind in every configuration, with two faults.
SPECIFICATION FairSpec
CONSTANTS
  n1 = n1
  n2 = n2
  Nodes = {n1, n2}
  None = None
  Bad = Bad
  Token = "secret"
  NoToken = "none"
  Configs <- AllConfigs
  ReplicaReads = TRUE
  Kinds = {"execute", "drop"}
  MaxRetries = 2
  MaxCalls = 2
  Endless = FALSE
  MaxFaults = 2
CHECK_DEADLOCK FALSE
INVARIANTS TypeOK WritesOnce
PROPERTIES CallsEnd RecoversWhenStable
