SPECIFICATION FairSpec
CONSTANTS
  None = None
  c1 = c1
  c2 = c2
  Names = {1}
  Specs <- OneSpec
  Models <- MCModels
  ModelSpecs <- GoodModels
  TenantSpecs <- GoodTenants
  Claims = {c1, c2}
  HandWrittenNames = {1, 2}
  Unservable = {}
  Validation = TRUE
  Lag = {"isvc", "deployment", "pod"}
  Ops = {"retire", "annotate"}
  MaxOps = 4
PROPERTIES ClaimsArbitrated NudgeRecovers
CHECK_DEADLOCK FALSE
