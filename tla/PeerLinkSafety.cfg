SPECIFICATION Spec
CONSTANTS
  A = A
  B = B
  a1 = a1
  a2 = a2
  b1 = b1
  r1 = r1
  x = x
  y = y
  None = None
  SendersA = {a1}
  SendersB = {b1}
  RetryA = {r1}
  RetryB = {}
  Conn = {x, y}
  SendBuffer = 2
  MaxTries = 1
  Forgetters = {B}
  MaxFaults = 1
CHECK_DEADLOCK FALSE
SYMMETRY Symmetry
INVARIANTS TypeOK SingleFlight NoOrphanSocket SignalsAccounted RegistriesAgree 
