SPECIFICATION Spec
CONSTANTS
  p1 = p1
  lan4 = lan4
  glob6 = glob6
  t1 = t1
  t2 = t2
  c1 = c1
  None = None
  Peer = {p1}
  Address = {lan4, glob6}
  Kind <- MCKind
  Views <- MCViews
  TTL = 2
  Refresh = 1
  Epsilon = 1
  DropAfter = 3
  QueueSize = 1
  Timer = {t1, t2}
  Caller = {c1}
SYMMETRY Symmetry
CHECK_DEADLOCK FALSE
INVARIANTS  StatusIsEarned RosterMirrorsBrowser
