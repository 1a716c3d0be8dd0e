SPECIFICATION FairSpec
CONSTANTS
  Keys = {k1, k2, k3}
  Cname = FALSE
  ExpireAfter = 2
  DeleteDelay = 0
  RevokedRetention = 1
  MaxRevoked = 1
  StaleResolver = TRUE
  OtherHost = TRUE
  ForceAllowed = TRUE
  MaxOperator = 1
  MaxFaults = 1
INVARIANTS
  NoOrphanRecord
  ActiveKeyPublished
PROPERTIES
  NeverUnsigned
  QuietBeforeRetirement
  KeepsSettling
  TombstonesEnd
