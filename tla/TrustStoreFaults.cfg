SPECIFICATION Spec
CONSTANTS
  d1 = d1  d2 = d2  t1 = t1  t2 = t2  n1 = n1  n2 = n2  s1 = s1
  p1 = p1  p2 = p2
  Device = {d1, d2}
  Token = {t1, t2}
  Name = {n1, n2}
  Stamp = {s1}
  Proc = {p1, p2}
  Absent = Absent
  Torn = Torn
  Free = Free
  Faults = {"write", "crash", "power", "read"}
SYMMETRY Symmetry
INVARIANTS SnapshotIsCurrent WriteMuHasOwner ForgottenStaysForgotten AckedPairingSurvives
PROPERTY ImplementsLedger
