\* One failing action at the promotion: is the ready node ever served by its gateway?
SPECIFICATION FairSpec
CONSTANTS
  U64Max = 100
  MaxFreshnessAge = 1
  MaxFutureSkew = 0
  MinSourceGeneration = 1
  Node = n1
  Others = {n2}
  Ttl = 1
  MaxTime = 3
  MaxGeneration = 1
  FenceModes = {FALSE}
  StopOnError = TRUE
  FaultKinds = {"action"}
  MaxFaults = 1
PROPERTIES ReadyComesToServe
