SPECIFICATION Spec
CONSTANTS
  Requests = {r1, r2}
  Questions = {q1}
  MaxManuals = 2
  MaxTasks = 2
  Blank = {2}
SYMMETRY Symmetric
INVARIANTS
  TypeOK
  ChunksAreTrue
  ArchivedForGood
  VersionsGrow
  PendingIsAwaited
CHECK_DEADLOCK FALSE
