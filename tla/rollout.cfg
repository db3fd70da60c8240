SPECIFICATION Spec
CONSTANTS
  None = None
  c1 = c1
  c2 = c2
  Names = {1}
  Specs <- OneSpec
  Models <- MCModels
  ModelSpecs <- GoodModels
  TenantSpecs <- TwoTenants
  Claims = {c1, c2}
  HandWrittenNames = {}
  Unservable = {}
  Validation = TRUE
  Lag = {}
  Ops = {"tenant", "rollout"}
  MaxOps = 2
INVARIANT ReadyMeansRolledOut
CHECK_DEADLOCK FALSE
