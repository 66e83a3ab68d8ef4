CONSTANTS
  w1 = w1
  w2 = w2
  search = search
  stream = stream
  comments = comments
  p1 = p1
  c1 = c1
  c2 = c2
  mk = mk
  ms = ms
  NoItem = NoItem
  Worker = {w1, w2}
  Feed = {comments}
  Item = {c2}
  Monitor = {mk}
  MaxVersion = 2
  MaxFailures = 1
  MaxFaults = 1
  Mode <- MCMode
  Kind <- MCKind
  Type <- MCType
  Sub <- MCSub
  Rank <- MCRank
  Hit <- MCHit
SPECIFICATION FairSpec
INVARIANT KeywordHitsAreMatched
PROPERTIES DueFeedsAreServed TasksEnd
CHECK_DEADLOCK FALSE
