SPECIFICATION FairOperatorSpec
CONSTANTS
  None = None
  c1 = c1
  c2 = c2
  Names = {1}
  Specs <- OneSpec
  Models <- MCModels
  ModelSpecs <- GoodModels
  TenantSpecs <- BlobTenants
  Claims = {c1, c2}
  HandWrittenNames = {}
  Unservable = {}
  Validation = TRUE
  Lag = {"tenant"}
  Ops = {"delete", "tenant", "restart", "apiError"}
  MaxOps = 3
INVARIANTS TenantStatusHonest InitDataTraceable
PROPERTY EventuallyQuiet
CHECK_DEADLOCK FALSE
