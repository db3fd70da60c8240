SPECIFICATION Spec
CONSTANTS
  None = None
  c1 = c1
  c2 = c2
  Names = {1, 2}
  Specs <- SharedSpecs
  Models <- MCModels
  ModelSpecs <- GoodModels
  TenantSpecs <- GoodTenants
  Claims = {c1, c2}
  HandWrittenNames = {}
  Unservable = {2}
  Validation = TRUE
  Lag = {"isvc"}
  Ops = {"edit", "delete", "sameSecond"}
  MaxOps = 3
SYMMETRY ClaimSymmetry
INVARIANTS DeploymentsExclusive GenerationObservedAtRest
CHECK_DEADLOCK FALSE
