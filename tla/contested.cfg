SPECIFICATION Spec
CONSTANTS
  None = None
  c1 = c1
  c2 = c2
  Names = {1, 2}
  Specs <- SharedSpecs
  Models <- MCModels
  ModelSpecs <- GoodModels
  TenantSpecs <- GoodTenants
  Claims = {c1, c2}
  HandWrittenNames = {}
  Unservable = {}
  Validation = TRUE
  Lag = {}
  Ops = {"edit", "restart"}
  MaxOps = 4
INVARIANT ClaimHasWinner
CHECK_DEADLOCK FALSE
