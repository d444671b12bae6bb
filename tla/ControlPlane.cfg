SPECIFICATION FairSpec
CONSTANTS
  p1 = p1
  e1 = e1
  e2 = e2
  None = None
  Main = Main
  Panel = {p1}
  Event = {e1, e2}
  Results = {e1}
  SendBuffer = 2
INVARIANTS TypeOK NothingIsLost ResultBeforeList
PROPERTIES CallbackReturns StopsAsAWhole
CHECK_DEADLOCK FALSE
