SPECIFICATION Spec
CONSTANTS
  Hosts = {h1, h2}
  LegacyCounts = {1, 3}
  StartGeneration = 5
  LastGeneration = 7
  Records = {a, b1, b2}
  Root = root
  a = a
  b1 = b1
  b2 = b2
  Coherent <- OneSelectorLess
  MaxGenerations = 4
  MinRollbackGenerations = 1
  MaxDeleteBatch = 2
  MaxFaults = 2
SYMMETRY Symmetry
INVARIANTS
  RootOutlivesRecords
  PartialIsJournalled
PROPERTIES
  OnlyEligibleDeleted
  LimitKept
