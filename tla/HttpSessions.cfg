\* One session ended by DELETE, the reaper or shutdown while two requests race; answers in JSON, at most one SSE stream.
SPECIFICATION FairSpec
CONSTANTS
  s1 = s1
  s2 = s2
  h1 = h1
  h2 = h2
  h3 = h3
  NoSession = NoSession
  NoVersion = NoVersion
  NoStream = NoStream
  Reaper = Reaper
  Main = Main
  Sessions = {s1}
  Handlers = {h1, h2}
  Versions = {"v", "w"}
  PreferSSE = FALSE
  TTL = 1
  MaxClock = 2
  MaxStreams = 1
INVARIANTS SessionAccounted
PROPERTIES ReapedOnlyIdle SessionsLiveOnce EndedSessionsAreTornDown IdleSessionsReaped UnlistedGetsEnd ShutdownReturns
CHECK_DEADLOCK FALSE
