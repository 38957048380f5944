CONSTANTS
  GROUP_SIZE = 2
  MaxPages = 3
  Content = {"a", "b"}
  Mode = "local"
  OriginPageSize = 4096
  ReplicaPageSizes = {4096, 1024}
  DefaultPageSize = 4096
  OfferedVersions = {2}
  PROTOCOL_VERSION = 2
  OriginMayShrink = TRUE
  LeftoverWal = FALSE
  MaxSessions = 1
  MaxFaults = 0
SPECIFICATION Spec
INVARIANTS FaultFreeSucceeds
