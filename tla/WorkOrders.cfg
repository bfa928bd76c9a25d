SPECIFICATION Spec
CONSTANTS
  Reqs = {r1, r2, r3, r4, r5}
  NoSession = NoSession
SYMMETRY Symmetry
INVARIANTS
  StartsAreTrue
  OneOpenSession
CHECK_DEADLOCK FALSE
