SPECIFICATION Spec
CONSTANTS
  Fresh = Fresh
  Reqs = {r1, r2, r3}
  EventIds = {e1}
  NumSteps = 3
  PhotoSteps = {1}
  CriticalSteps = {1}
  ScanLimit = 500
  Workload = {"advance", "skip", "pause", "photo"}
SYMMETRY Symmetry
INVARIANTS
  StepsInOrder
  PhotoGate
  AcceptedIsRecorded
PROPERTIES
  Implements
CHECK_DEADLOCK FALSE
