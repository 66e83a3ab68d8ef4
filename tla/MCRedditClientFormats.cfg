CONSTANTS
  t1 = t1
  t2 = t2
  Thread = {t1, t2}
  NoThread = NoThread
  BadPage = BadPage
  PostName <- MCPosts
  CommentName <- MCComments
  Footer = "submitted by"
  OAuthConfigured = TRUE
  PreferredFormat = "rss"
  Pages <- MCPages
  Lifetimes = {1, 3}
  Buffer = 2
  PostTimeout = 1
  GetTimeout = 1
  MaxClock = 2
  MaxRequests = 1
SPECIFICATION Spec
INVARIANT OAuthAsksJson
CHECK_DEADLOCK FALSE
