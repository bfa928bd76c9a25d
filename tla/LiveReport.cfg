SPECIFICATION Spec
CONSTANTS
  Reqs = {r1, r2, r3, r4}
  Commands = {"event", "get", "finalize"}
  ReportLimit = 2
SYMMETRY Symmetry
INVARIANTS
  FinalReportWhole
PROPERTIES
  NeverStartsOver
CHECK_DEADLOCK FALSE
