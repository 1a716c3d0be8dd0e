SPECIFICATION Spec
CONSTANTS
  Hosts = {h1, h2}
  RotateOps = {r1, r2}
  CreateOps = {c1}
  ActivateOps = {a1}
  Genesis = genesis
  NoOp = noOp
  MaxGeneration = 3
  EntryCount = 2
  MaxFaults = 2
SYMMETRY HostAndCampaignSymmetry
INVARIANTS
  NoMixedGeneration
  ActivatedKeysPublished
  ActivationEvidence
PROPERTIES
  ReportedActivationHolds
  OnlyItsRunActivates
  ImplementsLog
