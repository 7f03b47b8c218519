\* Two goroutines on one session, with handlers and the application registering primitives.
SPECIFICATION FairSpec
CONSTANTS
  c1 = c1
  c2 = c2
  app = app
  s1 = s1
  s2 = s2
  a = a
  b = b
  NoName = NoName
  NoProc = NoProc
  NoSession = NoSession
  Matches <- MCMatches
  Primitives <- MCPrimitives
  Callers = {c1, c2}
  Apps = {app}
  Sessions = {s1}
  Names = {a, b}
  Messages <- MCBodies
  MaxAdds = 2
INVARIANTS AnswersInOrder GatedAfterInitialize ListsArePrefixes
PROPERTIES RequestsAnswered
