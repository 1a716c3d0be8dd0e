SPECIFICATION FairSpec
CONSTANTS
  Hosts = {h1}
  LegacyCounts = {1}
  StartGeneration = 4
  LastGeneration = 5
  Records = {a, b1, b2}
  Root = root
  a = a
  b1 = b1
  b2 = b2
  Coherent <- OneSelectorLess
  MaxGenerations = 2
  MinRollbackGenerations = 1
  MaxDeleteBatch = 1
  MaxFaults = 1
PROPERTIES
  PartialPurgeResumes
