SPECIFICATION FairSpec
CONSTANTS
  t1 = t1
  t2 = t2
  None = None
  Transfer = {t1}
  Largest = 4
  Ceiling = 3
  HighWater = 1
  LowWater = 0
  AckEvery = 2
  Impatient = TRUE
  IOFails = TRUE
  LinkFails = TRUE
PROPERTIES EverySendReturns ActiveReceptionEnds
CHECK_DEADLOCK FALSE
