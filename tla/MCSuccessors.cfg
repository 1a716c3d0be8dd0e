CONSTANTS
  Bindings = {1, 2}
  Algorithms = {1, 2}
  RotateAfter = 1
  MaxBindings = 2
  Reserve = 1
  LastNumber = 5
  MaxTime = 1
SPECIFICATION Spec
INVARIANTS
  SelectorsStayUnique
  ResumeMatchesPlan
  RetirementIsTheDifference
PROPERTIES
  AgeSurvivesSuccessors
CHECK_DEADLOCK FALSE
