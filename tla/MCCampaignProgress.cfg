SPECIFICATION FairSpec
CONSTANTS
  Hosts = {h1, h2}
  RotateOps = {r1}
  CreateOps = {c1}
  ActivateOps = {}
  Genesis = genesis
  NoOp = noOp
  MaxGeneration = 3
  EntryCount = 1
  MaxFaults = 1
PROPERTIES
  CampaignProgress
  CreateProgress
