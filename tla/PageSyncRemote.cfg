CONSTANTS
  GROUP_SIZE = 1
  MaxPages = 2
  Content = {"a", "b"}
  Mode = "remote"
  OriginPageSize = 4096
  ReplicaPageSizes = {4096}
  DefaultPageSize = 4096
  OfferedVersions = {1, 3}
  PROTOCOL_VERSION = 2
  OriginMayShrink = FALSE
  LeftoverWal = TRUE
  MaxSessions = 2
  MaxFaults = 1
SPECIFICATION FairSpec
INVARIANTS NoViolation
PROPERTIES CleanStartIsSynced
