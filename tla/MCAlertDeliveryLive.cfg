CONSTANTS
  w1 = w1
  w2 = w2
  u1 = u1
  u2 = u2
  m1 = m1
  m2 = m2
  i1 = i1
  i2 = i2
  k1 = k1
  k2 = k2
  Worker = {w1, w2}
  User = {u1}
  Monitor = {m1}
  Item = {i1}
  Slot = {k1}
  Owner <- MCOwner
  Periodic = {"10m"}
  MaxNotices = 1
  MaxEdits = 2
  MaxFaults = 1
SPECIFICATION FairSpec
PROPERTIES KeepsContract AlertsArrive
CHECK_DEADLOCK FALSE
