\* One session, three request goroutines, SSE responses; the clock stands still.
SPECIFICATION Spec
CONSTANTS
  s1 = s1
  s2 = s2
  h1 = h1
  h2 = h2
  h3 = h3
  NoSession = NoSession
  NoVersion = NoVersion
  NoStream = NoStream
  Reaper = Reaper
  Main = Main
  Sessions = {s1}
  Handlers = {h1, h2, h3}
  Versions = {"v"}
  PreferSSE = TRUE
  TTL = 0
  MaxClock = 0
  MaxStreams = 3
SYMMETRY MCSymmetry
INVARIANTS StreamAccounted OneListenStream PostStreamsOwned ResponseLostOnlyOnTeardown
CHECK_DEADLOCK FALSE
