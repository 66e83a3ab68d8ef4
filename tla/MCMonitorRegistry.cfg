CONSTANTS
  s1 = s1
  s2 = s2
  u1 = u1
  u2 = u2
  r1 = r1
  k1 = k1
  k2 = k2
  lower = lower
  title = title
  Session = {s1, s2}
  User = {u1, u2}
  Subreddit = {r1}
  Key = {k1, k2}
  Spelling = {lower, title}
  Cadence = {"off", "30m"}
  Default = "30m"
  MaxId = 3
  MaxRequests = 3
SPECIFICATION Spec
SYMMETRY Symmetry
INVARIANTS TypeOK CadencesAreServed
PROPERTIES ColumnsFollowRequests CreatesTakeEffect
CHECK_DEADLOCK FALSE
