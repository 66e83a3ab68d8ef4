CONSTANTS
  w1 = w1
  w2 = w2
  u1 = u1
  u2 = u2
  m1 = m1
  m2 = m2
  i1 = i1
  i2 = i2
  k1 = k1
  k2 = k2
  Worker = {w1}
  User = {u1, u2}
  Monitor = {m1, m2}
  Item = {i1}
  Slot = {k1}
  Owner <- MCOwner
  Periodic = {"10m"}
  MaxNotices = 1
  MaxEdits = 3
  MaxFaults = 0
SPECIFICATION Spec
INVARIANT TypeOK
PROPERTY KeepsContract
CHECK_DEADLOCK FALSE
