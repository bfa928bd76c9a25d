SPECIFICATION FairSpec
CONSTANTS
  Fresh = Fresh
  NoPhoto = NoPhoto
  NoId = NoId
  Reqs = {r1, r2, r3}
  e1 = e1
  e2 = e2
  EventIds = {e1, e2, e3}
  StepOf <- MCStepOf
  MaxRetries = 1
INVARIANTS
  PhotosAreTrue
  GateIsEarned
PROPERTIES
  Judged
CHECK_DEADLOCK FALSE
