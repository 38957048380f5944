\* Command lines and manifests of MCBatchRun; the origin may be written once.
SPECIFICATION FairSpec
CONSTANTS
  ExponentCap = 31
  DelayCap = 1000
  Unset = Unset
  Invocations <- AllRuns
  Replicas = {"a", "b", "c"}
  Pages = {1, 2}
  MaxEntries = 3
  MaxChanges = 2
CHECK_DEADLOCK FALSE
INVARIANTS SuccessStays ReportTells
PROPERTIES OthersFinish DryRunsTouchNothing
