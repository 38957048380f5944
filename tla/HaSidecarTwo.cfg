\* Two sidecars and the single writer.
SPECIFICATION Spec
CONSTANTS
  U64Max = 100
  MaxFreshnessAge = 2
  MaxFutureSkew = 0
  MinSourceGeneration = 0
  Nodes = {n1, n2}
  Ttl = 1
  MaxTime = 3
  MaxGeneration = 1
  MaxVersion = 4
INVARIANTS AtMostOneWriter
