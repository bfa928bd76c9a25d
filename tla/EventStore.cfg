SPECIFICATION Spec
CONSTANTS
  Fresh = Fresh
  Reqs = {r1, r2, r3}
  EventIds = {e1, e2}
SYMMETRY Symmetry
INVARIANTS
  AnswersAreTrue
  PublishedIsStored
PROPERTIES
  Implements
CHECK_DEADLOCK FALSE
