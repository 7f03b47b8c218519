\* A GET and a DELETE of one session.
SPECIFICATION FairSpec
CONSTANTS
  s1 = s1
  s2 = s2
  h1 = h1
  h2 = h2
  h3 = h3
  NoSession = NoSession
  NoVersion = NoVersion
  NoStream = NoStream
  Reaper = Reaper
  Main = Main
  Sessions = {s1}
  Handlers = {h1, h2}
  Versions = {"v"}
  PreferSSE = FALSE
  TTL = 0
  MaxClock = 0
  MaxStreams = 2
PROPERTIES ClosedSessionsEndGets
CHECK_DEADLOCK FALSE
