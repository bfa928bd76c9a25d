SPECIFICATION Spec
CONSTANTS
  Fresh = Fresh
  Reqs = {r1, r2, r3}
  EventIds = {e1}
  NumSteps = 1
  PhotoSteps = {}
  CriticalSteps = {0}
  ScanLimit = 2
  Workload = {"advance", "skip", "pause", "resume", "note", "voice", "utterance", "photo", "finalize"}
SYMMETRY Symmetry
INVARIANTS
  ClosedInOrder
PROPERTIES
  Implements
CHECK_DEADLOCK FALSE
