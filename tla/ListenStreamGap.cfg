\* A client that always comes back with Last-Event-ID, and a buffer that keeps everything.
SPECIFICATION Spec
CONSTANTS
  k1 = k1
  k2 = k2
  h1 = h1
  h2 = h2
  h3 = h3
  Clients = {k1}
  Handlers = {h1, h2}
  NoHandler = NoHandler
  MaxBuf = 5
  SubCap = 5
  MaxNotifications = 4
  ReconnectModes = {"resume"}
PROPERTIES ResumeHasNoGap
CHECK_DEADLOCK FALSE
