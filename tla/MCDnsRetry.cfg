SPECIFICATION RetrySpec
CONSTANTS
  c1 = c1  c2 = c2
  name1 = name1  name2 = name2
  key1 = key1  key2 = key2
  Callers = {c1, c2}
  Owners = {name1, name2}
  Keys = {key1}
  Tasks <- MCRetryTasks
  ZoneSets <- MCRetryZoneSets
  MaxAttempts = 2
  MaxFaults = 1
  MaxEdits = 0
  MaxLate = 1
PROPERTIES
  PublishedEventually
  ProvedEventually
  RetiredEventually
