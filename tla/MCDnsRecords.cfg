SPECIFICATION Spec
CONSTANTS
  c1 = c1  c2 = c2
  name1 = name1  name2 = name2
  key1 = key1  key2 = key2
  Callers = {c1, c2}
  Owners = {name1, name2}
  Keys = {key1, key2}
  Tasks <- MCTasks
  ZoneSets <- MCZoneSets
  MaxAttempts = 2
  MaxFaults = 1
  MaxEdits = 1
  MaxLate = 1
SYMMETRY MCSymmetry
INVARIANTS
  ReportedIsThere
  ProvedIsResolvable
PROPERTIES
  WritesAreGuarded
