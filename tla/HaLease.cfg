\* Two nodes around an authoritative lease.
SPECIFICATION Spec
CONSTANTS
  U64Max = 100
  MaxFreshnessAge = 10
  MaxFutureSkew = 0
  MinSourceGeneration = 0
  Nodes = {n1, n2}
  Stamps <- FreshStamps
  Ttl = 1
  MaxDelay = 1
  MaxTime = 3
  MaxGeneration = 1
SYMMETRY NodeSymmetry
INVARIANTS TypeOK AtMostOneWriter MemoriesBehind
