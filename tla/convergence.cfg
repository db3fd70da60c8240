SPECIFICATION FairSpec
CONSTANTS
  None = None
  c1 = c1
  c2 = c2
  Names = {1}
  Specs <- MovingSpecs
  Models <- MCModels
  ModelSpecs <- RoomyModels
  TenantSpecs <- GoodTenants
  Claims = {c1, c2}
  HandWrittenNames = {}
  Unservable = {}
  Validation = TRUE
  Lag = {"isvc"}
  Ops = {"edit", "delete", "drift", "rollout", "fail", "restart", "apiError"}
  MaxOps = 3
INVARIANTS ConfiguredIsApplied ConvergedAtRest
PROPERTIES StatusIsCurrent EventuallyConverged StatusRecorded
CHECK_DEADLOCK FALSE
