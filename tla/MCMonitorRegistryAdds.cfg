CONSTANTS
  s1 = s1
  s2 = s2
  u1 = u1
  u2 = u2
  r1 = r1
  k1 = k1
  k2 = k2
  lower = lower
  title = title
  Session = {s1, s2}
  User = {u1}
  Subreddit = {r1}
  Key = {k1}
  Spelling = {lower, title}
  Cadence = {"off", "30m"}
  Default = "30m"
  MaxId = 2
  MaxRequests = 2
SPECIFICATION Spec
SYMMETRY Symmetry
INVARIANT NoDuplicates
CHECK_DEADLOCK FALSE
