CONSTANTS
  Keys = {k1, k2, k3, k4}
  Cname = TRUE
  ExpireAfter = 2
  DeleteDelay = 0
  RevokedRetention = 1
  MaxRevoked = 1
  StaleResolver = TRUE
  OtherHost = FALSE
  ForceAllowed = FALSE
  MaxOperator = 1
  MaxFaults = 1
  InitialKeys = 3
SPECIFICATION Spec
SYMMETRY KeySymmetry
INVARIANTS
  ActiveResolves
PROPERTIES
  CompletedReorderReconciles
