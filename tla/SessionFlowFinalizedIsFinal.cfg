SPECIFICATION Spec
CONSTANTS
  Fresh = Fresh
  Reqs = {r1, r2, r3}
  EventIds = {e1}
  NumSteps = 1
  PhotoSteps = {}
  CriticalSteps = {}
  ScanLimit = 500
  Workload = {"advance", "pause", "finalize"}
PROPERTIES
  FinalizedIsFinal
CHECK_DEADLOCK FALSE
