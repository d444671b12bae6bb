SPECIFICATION Spec
CONSTANTS
  A = A
  B = B
  c1 = c1
  c2 = c2
  Conn = {c1, c2}
  None = None
  MaxForgets = 0
  Signalling = TRUE
  WriteFails = TRUE
  LinkFails = FALSE
CHECK_DEADLOCK FALSE
SYMMETRY Symmetry
INVARIANTS SingleDriver TokensAgreeUnlessRaced BothHumansAccepted
