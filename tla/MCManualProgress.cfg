CONSTANTS
  Procs = {1}
  Algorithms = {1, 2}
  LastNumber = 5
  Overlap = 1
  MaxCrashes = 1
  Campaigns = FALSE
SPECIFICATION FairSpec
PROPERTIES
  StagedSettles
  RetirementEnds
CHECK_DEADLOCK FALSE
