CONSTANTS
  w1 = w1
  w2 = w2
  k1 = k1
  k2 = k2
  kb = kb
  s1 = s1
  s2 = s2
  NoWord = NoWord
  NoFeed = NoFeed
  FeedSpec <- MCFeedSpec
  Monitor = {k1, k2, kb, s1, s2}
  Described = {kb, s1}
  Word = {"ask", "Job", "job"}
  Sub <- MCSub
  Mode <- MCMode
  Keyword <- MCKeyword
  Key <- MCKey
  MaxTerms = 2
  OAuthConfigured = FALSE
  PreferredFormat = "rss"
  Worker = {w1, w2}
  Interval = 1
  BackoffBase = 2
  BackoffMax = 3
  ManyFailures = 2
  Fetched <- MCFetched
  MaxEvents = 1
SPECIFICATION FairSpec
INVARIANTS TypeOK PlanServesMonitors PlanIsStable
PROPERTIES FeedsAreServed RecoveredFeedsReset FailingFeedsBackOff
CHECK_DEADLOCK FALSE
