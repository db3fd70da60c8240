SPECIFICATION WorkloadsSpec
CONSTANTS
  None = None
  c1 = c1
  c2 = c2
  Names = {1, 2}
  Specs <- ResizedSpecs
  Models <- MCModels
  ModelSpecs <- RoomyModels
  TenantSpecs <- GoodTenants
  Claims = {c1, c2}
  HandWrittenNames = {2}
  Unservable = {}
  Validation = TRUE
  Lag = {"isvc", "deployment"}
  Ops = {"edit", "rollout", "restart", "apiError"}
  MaxOps = 3
INVARIANTS DeploymentsExclusive ClaimHasWinner PodsExclusive
PROPERTY ClaimsArbitrated
CHECK_DEADLOCK FALSE
