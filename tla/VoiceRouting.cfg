SPECIFICATION Spec
CONSTANTS
  Free = r1
  Skipper = r2
  Mover = r3
  Reqs <- MCReqs
  NumSteps = 2
  CriticalSteps = {1}
  None = None
  Workload <- MCWorkload
INVARIANTS TypeOK FiledWhereItWas AcceptedIsTold WordsComeFirst
PROPERTIES PauseHolds
CHECK_DEADLOCK FALSE
