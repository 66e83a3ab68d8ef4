CONSTANTS
  s1 = s1
  s2 = s2
  u1 = u1
  u2 = u2
  m1 = m1
  m2 = m2
  p = p
  c = c
  Session = {s1, s2}
  User = {u1}
  Worker = {w1}
  Monitor = {m1, m2}
  Item = {p, c}
  Comment = {c}
  Existing = {m2}
  Owner <- MCOwner
  Mode <- MCMode
  Keyword <- MCKeyword
  NoModel = {}
  MonitorSeq <- MCMonitorSeq
  Pages <- MCPages
  Forever = Forever
  Days = {0, Forever}
  DefaultDays = 0
  ItemRetention = 0
  Cooldown = 1
  MaxCalls = 1
  MaxClock = 1
  MaxLeads = 2
  MaxEvents = 3
SPECIFICATION FairSpec
INVARIANTS TypeOK HiddenStaysHidden BudgetIsSpentInOrder
PROPERTIES ExpiredLeadsGo RunsEnd LeadsDoNotReturn StatusFollowsRequests LeadsAreKept CooldownHolds
CHECK_DEADLOCK FALSE
