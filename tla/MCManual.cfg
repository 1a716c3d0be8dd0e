CONSTANTS
  Procs = {1, 2}
  Algorithms = {1, 2}
  LastNumber = 4
  Overlap = 1
  MaxCrashes = 1
  Campaigns = TRUE
SPECIFICATION Spec
INVARIANTS
  OwnCandidate
  ActivePublished
  PhasePredictsRetirement
PROPERTIES
  PointerProven
  OverlapKept
  PointerForward
CHECK_DEADLOCK FALSE
