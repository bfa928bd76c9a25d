SPECIFICATION AuthSpec
CONSTANTS
  Apps = {a1, a2}
  Calls = {c1, c2}
  AccessTTL = 1
  RefreshTTL = 2
  Window = 1
  Limit = 2
  MaxPairs = 3
  MaxTime = 2
SYMMETRY Symmetric
INVARIANTS
  AuthTypeOK
  DeadStaysDead
  WithinLimit
CHECK_DEADLOCK FALSE
