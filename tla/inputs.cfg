SPECIFICATION Spec
CONSTANTS
  None = None
  c1 = c1
  c2 = c2
  Names = {1}
  Specs <- OwnSpecs
  Models <- MCModels
  ModelSpecs <- VariedModels
  TenantSpecs <- VariedTenants
  Claims = {c1, c2}
  HandWrittenNames = {}
  Unservable = {}
  Validation = FALSE
  Lag = {"isvc", "tenant", "model"}
  Ops = {"edit", "tenant", "model"}
  MaxOps = 3
INVARIANTS TypeOK ConvergedAtRest
PROPERTY ReconcileIsIdempotent
CHECK_DEADLOCK FALSE
