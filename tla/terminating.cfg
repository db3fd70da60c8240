SPECIFICATION WorkloadsSpec
CONSTANTS
  None = None
  c1 = c1
  c2 = c2
  Names = {1}
  Specs <- ContestedSpecs
  Models <- MCModels
  ModelSpecs <- RoomyModels
  TenantSpecs <- GoodTenants
  Claims = {c1, c2}
  HandWrittenNames = {2}
  Unservable = {}
  Validation = TRUE
  Lag = {}
  Ops = {"retire", "rollout"}
  MaxOps = 2
INVARIANT GuardCoversPods
CHECK_DEADLOCK FALSE
