CONSTANTS
  Cookies = {k1, k2}
  Handlers = {h1, h2}
  Replies = {r1, r2}
  MayDrop = TRUE
  NoReply = NoReply
  NoCookie = NoCookie
SPECIFICATION FairCacheSpec
INVARIANT InflightOwned
INVARIANT CacheHoldsLast
INVARIANT CachedWasSent
PROPERTY HandledAgainOnlyIfForgotten
PROPERTY CookiesAreReleased
