SPECIFICATION FairSpec
CONSTANTS
  A = A
  B = B
  a1 = a1
  a2 = a2
  b1 = b1
  r1 = r1
  x = x
  y = y
  None = None
  SendersA = {a1}
  SendersB = {}
  RetryA = {r1}
  RetryB = {}
  Conn = {x, y}
  SendBuffer = 2
  MaxTries = 1
  Forgetters = {B}
  MaxFaults = 1
CHECK_DEADLOCK FALSE
PROPERTIES EverySendReturns DeadSocketUnregistered
