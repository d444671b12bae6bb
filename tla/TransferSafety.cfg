SPECIFICATION Spec
CONSTANTS
  t1 = t1
  t2 = t2
  None = None
  Transfer = {t1, t2}
  Largest = 4
  Ceiling = 3
  HighWater = 1
  LowWater = 0
  AckEvery = 2
  Impatient = TRUE
  IOFails = TRUE
  LinkFails = TRUE
SYMMETRY Symmetry
INVARIANTS TypeOK ConsentGated DeliveredWhole BufferBounded ReceptionIsFed
PROPERTIES SettledOnce
CHECK_DEADLOCK FALSE
