SPECIFICATION FairSpec
CONSTANTS
  s1 = s1
  s2 = s2
  s3 = s3
  s4 = s4
  near = near
  far = far
  Socket = {s1, s2, s3, s4}
  Source = {near, far}
  From <- MCFrom
  MaxHandshakes = 2
  Limit = 2
  Window = 2
  SweepThreshold = 1
  MaxTime = 2
INVARIANTS SlotsMatch WindowLimit
PROPERTIES DenialIsEarned CapIsTemporary
CHECK_DEADLOCK FALSE
