SPECIFICATION Spec
CONSTANTS
  None = None
  c1 = c1
  c2 = c2
  Names = {1, 2}
  Specs <- ContestedSpecs
  Models <- MCModels
  ModelSpecs <- GoodModels
  TenantSpecs <- GoodTenants
  Claims = {c1, c2}
  HandWrittenNames = {}
  Unservable = {}
  Validation = TRUE
  Lag = {"deployment"}
  Ops = {"sameSecond"}
  MaxOps = 2
INVARIANT DeploymentsExclusive
CHECK_DEADLOCK FALSE
