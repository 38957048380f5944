\* A client that only writes and goes on writing, across one failover.
SPECIFICATION FairSpec
CONSTANTS
  n1 = n1
  n2 = n2
  Nodes = {n1, n2}
  None = None
  Bad = Bad
  Token = "secret"
  NoToken = "none"
  Configs <- PlainClient
  ReplicaReads = FALSE
  Kinds = {"execute"}
  MaxRetries = 2
  MaxCalls = 0
  Endless = TRUE
  MaxFaults = 2
PROPERTIES HealsAfterFailover
