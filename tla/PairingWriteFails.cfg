SPECIFICATION Spec
CONSTANTS
  A = A
  B = B
  c1 = c1
  c2 = c2
  Conn = {c1}
  None = None
  MaxForgets = 0
  Signalling = FALSE
  WriteFails = TRUE
  LinkFails = FALSE
CHECK_DEADLOCK FALSE
INVARIANT FailedMeansUntrusted
