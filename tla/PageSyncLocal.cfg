CONSTANTS
  GROUP_SIZE = 2
  MaxPages = 3
  Content = {"a", "b"}
  Mode = "local"
  OriginPageSize = 4096
  ReplicaPageSizes = {4096, 1024}
  DefaultPageSize = 4096
  OfferedVersions = {2}
  PROTOCOL_VERSION = 2
  OriginMayShrink = FALSE
  LeftoverWal = FALSE
  MaxSessions = 2
  MaxFaults = 1
SPECIFICATION FairSpec
INVARIANTS TypeOK SyncedIsSnapshot SyncInv OldOrNew FaultFreeSucceeds
PROPERTIES SyncedPagesStay RetriesConverge ImplementsCopy
