\* One client reconnecting through two GET goroutines, a buffer of two events, a channel of two.
SPECIFICATION FairSpec
CONSTANTS
  k1 = k1
  k2 = k2
  h1 = h1
  h2 = h2
  h3 = h3
  Clients = {k1}
  Handlers = {h1, h2}
  NoHandler = NoHandler
  MaxBuf = 2
  SubCap = 2
  MaxNotifications = 3
  ReconnectModes = {"resume", "fresh", "fallback"}
INVARIANTS BufferWindow SubscribersOpen ConnectionInOrder NoHolesWithRoom
PROPERTIES AtMostOnceInOrder TeardownEndsGets AbandonedGetsEnd
CHECK_DEADLOCK FALSE
