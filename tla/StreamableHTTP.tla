---------------------------- MODULE StreamableHTTP ----------------------------
(***************************************************************************)
(* The Streamable HTTP transport of mcpruntime: the session manager and    *)
(* its reaper, the table of SSE streams of each session, the goroutines    *)
(* that serve POST, GET and DELETE, and the shutdown of the server.        *)
(*                                                                         *)
(* Each critical section (sessionManager.mu, Session.mu, sessionStreams.mu,*)
(* messageStream.mu) is one action, except that sections in which nothing  *)
(* another goroutine does could be told apart are merged.  The content of  *)
(* a stream is the subject of ListenStream; here a stream is only in its   *)
(* table or not, closed or not, and has subscribers.  A request refused    *)
(* before it has found its session changes nothing and is not a step.      *)
(***************************************************************************)
EXTENDS Integers, Sequences, FiniteSets

CONSTANTS
  Sessions,    \* session ids that can be generated
  Handlers,    \* goroutines that can serve requests at the same time
  Versions,    \* protocol versions a client may ask for
  NoSession, NoVersion, NoStream,
  Reaper,      \* the goroutine of sessionManager.reaper
  Main,        \* the goroutine of ServeStreamableHTTP
  PreferSSE,   \* StreamableHTTPOptions.PreferSSE
  TTL,         \* StreamableHTTPOptions.SessionTTL, in ticks of the clock
  MaxClock,    \* bound: the clock stops there
  MaxStreams   \* bound: requests that may open a stream, per session

ASSUME ActorsAssumption == Reaper # Main /\ {Reaper, Main} \cap Handlers = {}
ASSUME NullAssumption == NoSession \notin Sessions /\ NoVersion \notin Versions
ASSUME PreferSSEAssumption == PreferSSE \in BOOLEAN
ASSUME BoundsAssumption == TTL \in Nat /\ MaxClock \in Nat /\ MaxStreams \in Nat

Actors == Handlers \cup {Reaper, Main}

\* A stream is known by its session and its number (sessionStreams.nextID).
StreamIds == Sessions \X (Nat \ {0})

ASSUME NoStreamAssumption == NoStream \notin StreamIds

VARIABLES
  clock,      \* time.Now(), in ticks
  made,       \* sessions that have been created
  table,      \* sessionManager.sessions
  ready,      \* sessions with Session.ready set
  version,    \* version[s]: Session.protocolVersion
  lastActive, \* lastActive[s]: Session.lastActive
  torn,       \* sessions on which closeAll has run (history)
  streams,    \* streams[s]: sessionStreams.streams
  listenIDs,  \* listenIDs[s]: sessionStreams.listenIDs
  nextID,     \* nextID[s]: sessionStreams.nextID
  listens,    \* streams opened as "listen" (the others are "post")
  closed,     \* streams with messageStream.closed set
  subs,       \* handlers whose channel is in the subs of their stream
  pc,         \* pc[h]: where ServeHTTP is
  op,         \* op[h]: what h serves
  sess,       \* sess[h]: the session h has resolved
  stream,     \* stream[h]: the stream h works on
  doomed,     \* doomed[p]: sessions p has removed and has still to Close
  dying,      \* dying[p]: streams p has removed and has still to close
  reaper,     \* where the reaper is
  deadline,   \* the deadline reapExpired computed before taking the lock
  main,       \* where ServeStreamableHTTP is
  stopped     \* sessionManager.stopped

sessVars   == <<made, table, ready, version, lastActive>>
streamVars == <<streams, listenIDs, nextID, listens>>
reqVars    == <<pc, op, sess, stream>>
closeVars  == <<doomed, dying, torn, closed, subs>>
ownVars    == <<reaper, deadline, main, stopped>>
vars == <<clock, sessVars, streamVars, reqVars, closeVars, ownVars>>

Ops == {"none", "initialize", "request", "notification", "get", "delete"}

-----------------------------------------------------------------------------
(* sessionManager: Create and Get, at the start of a request *)

Begin(h, o, s, p) ==
  /\ pc' = [pc EXCEPT ![h] = p]
  /\ op' = [op EXCEPT ![h] = o]
  /\ sess' = [sess EXCEPT ![h] = s]
  /\ UNCHANGED stream

\* The response has been sent: the goroutine is free.
Finish(h) ==
  /\ pc' = [pc EXCEPT ![h] = "idle"]
  /\ op' = [op EXCEPT ![h] = "none"]
  /\ sess' = [sess EXCEPT ![h] = NoSession]
  /\ stream' = [stream EXCEPT ![h] = NoStream]

Goto(h, p) ==
  /\ pc' = [pc EXCEPT ![h] = p]
  /\ UNCHANGED <<op, sess, stream>>

Touch(s) == lastActive' = [lastActive EXCEPT ![s] = clock]

\* Requests that may open a stream.
Opens(o) == o = "get" \/ (PreferSSE /\ o \in {"initialize", "request"})

\* Bound: there is room for one more stream besides those of requests under way.
Room(s, o) ==
  Opens(o) => nextID[s] + Cardinality({h \in Handlers :
                sess[h] = s /\ Opens(op[h]) /\ stream[h] = NoStream}) < MaxStreams

\* POST initialize without MCP-Session-Id: the id generated is a new one.
Create(h, s) ==
  /\ pc[h] = "idle"
  /\ s \notin made
  /\ made' = made \cup {s}
  /\ table' = table \cup {s}
  /\ Touch(s)
  /\ Begin(h, "initialize", s, "dispatch")
  /\ UNCHANGED <<clock, ready, version, streamVars, closeVars, ownVars>>

\* Any POST or GET that names session s: Get touches it under the manager lock.
Get(h, o, s) ==
  /\ pc[h] = "idle"
  /\ o \in {"initialize", "request", "notification", "get"}
  /\ s \in table /\ Room(s, o)
  /\ Touch(s)
  /\ Begin(h, o, s, IF o = "get" THEN "checkReady" ELSE "dispatch")
  /\ UNCHANGED <<clock, made, table, ready, version, streamVars, closeVars, ownVars>>

-----------------------------------------------------------------------------
(* Session.Close and sessionStreams.closeAll, run by whoever removed the session *)

\* MUTANT: the streams are closed but left in the table.
CloseAllKeepsStreams(p, s) ==
  /\ s \in doomed[p] /\ dying[p] = {}
  /\ doomed' = [doomed EXCEPT ![p] = @ \ {s}]
  /\ dying' = [dying EXCEPT ![p] = streams[s]]
  /\ torn' = torn \cup {s}
  /\ UNCHANGED <<clock, sessVars, streamVars, reqVars, closed, subs, ownVars>>

\* One session of doomed[p]: its table is emptied under sessionStreams.mu.
CloseAll(p, s) ==
  /\ s \in doomed[p] /\ dying[p] = {}
  /\ doomed' = [doomed EXCEPT ![p] = @ \ {s}]
  /\ dying' = [dying EXCEPT ![p] = streams[s]]
  /\ streams' = [streams EXCEPT ![s] = {}]
  /\ listenIDs' = [listenIDs EXCEPT ![s] = <<>>]
  /\ torn' = torn \cup {s}
  /\ UNCHANGED <<clock, sessVars, nextID, listens, reqVars, closed, subs, ownVars>>

\* messageStream.close, after that lock is released: the channels are closed.
CloseStream(p, x) ==
  /\ x \in dying[p]
  /\ dying' = [dying EXCEPT ![p] = @ \ {x}]
  /\ closed' = closed \cup {x}
  /\ subs' = {h \in subs : stream[h] # x}
  /\ UNCHANGED <<clock, sessVars, streamVars, reqVars, doomed, torn, ownVars>>

Quiet(p) == doomed[p] = {} /\ dying[p] = {}

\* 400 once the session has been found and touched: MCP-Protocol-Version is not a
\* supported version, or Last-Event-ID does not parse.
Refuse(h) ==
  /\ \/ pc[h] = "dispatch" /\ op[h] # "initialize"
     \/ pc[h] \in {"checkReady", "attach"}
  /\ Finish(h)
  /\ UNCHANGED <<clock, sessVars, streamVars, closeVars, ownVars>>

-----------------------------------------------------------------------------
(* POST *)

\* HandleRaw touches the session before it dispatches.
Dispatch(h) ==
  /\ pc[h] = "dispatch"
  /\ Touch(sess[h])
  /\ Goto(h, "handle")
  /\ UNCHANGED <<clock, made, table, ready, version, streamVars, closeVars, ownVars>>

\* 202 for a notification; a request has its response to send.
Answer(h) == IF op[h] = "notification" THEN Finish(h) ELSE Goto(h, "respond")

\* MUTANT: a second initialize is let through.
InitializeAgain(h, v) ==
  /\ pc[h] = "handle" /\ op[h] \in {"initialize", "notification"}
  /\ Answer(h)
  /\ ready' = ready \cup {sess[h]}
  /\ version' = [version EXCEPT ![sess[h]] = v]
  /\ Touch(sess[h])
  /\ UNCHANGED <<clock, made, table, streamVars, closeVars, ownVars>>

\* Refuses a second time.
markReady(s, v) ==
  /\ s \notin ready
  /\ ready' = ready \cup {s}
  /\ version' = [version EXCEPT ![s] = v]
  /\ Touch(s)

\* handleInitialize: invalid params, or markReady.
\* It runs for an initialize without id, a notification, too.
Initialize(h, v) ==
  /\ pc[h] = "handle" /\ op[h] \in {"initialize", "notification"}
  /\ Answer(h)
  /\ \/ UNCHANGED <<ready, version, lastActive>>
     \/ markReady(sess[h], v)
  /\ UNCHANGED <<clock, made, table, streamVars, closeVars, ownVars>>

\* Any other method: the handler runs, or requireReady refuses.
Call(h) ==
  /\ pc[h] = "handle" /\ op[h] \in {"request", "notification"}
  /\ Answer(h)
  /\ UNCHANGED <<clock, sessVars, streamVars, closeVars, ownVars>>

RespondJSON(h) ==
  /\ pc[h] = "respond" /\ ~PreferSSE
  /\ Finish(h)
  /\ UNCHANGED <<clock, sessVars, streamVars, closeVars, ownVars>>

\* The next stream number of session s.
Fresh(s) == <<s, nextID[s] + 1>>

\* writePOSTSSE: openStream("post").
OpenPost(h) ==
  LET s == sess[h]
  IN /\ pc[h] = "respond" /\ PreferSSE
     /\ nextID' = [nextID EXCEPT ![s] = @ + 1]
     /\ streams' = [streams EXCEPT ![s] = @ \cup {Fresh(s)}]
     /\ stream' = [stream EXCEPT ![h] = Fresh(s)]
     /\ pc' = [pc EXCEPT ![h] = "publish"]
     /\ UNCHANGED <<clock, sessVars, listenIDs, listens, op, sess, closeVars, ownVars>>

\* MUTANT: the stream is left behind.
PublishResponseOnly(h) ==
  /\ pc[h] = "publish"
  /\ Goto(h, "teardown")
  /\ UNCHANGED <<clock, sessVars, streamVars, closeVars, ownVars>>

\* Prime and response; on a closed stream publish fails and no response is
\* written.  Either way the deferred closeStream removes the stream, if closeAll
\* has not, and closes it after releasing sessionStreams.mu.
PublishResponse(h) ==
  LET s == sess[h]
  IN /\ pc[h] = "publish"
     /\ streams' = [streams EXCEPT ![s] = @ \ {stream[h]}]
     /\ dying' = [dying EXCEPT ![h] = streams[s] \cap {stream[h]}]
     /\ Goto(h, "teardown")
     /\ UNCHANGED <<clock, sessVars, listenIDs, nextID, listens, doomed, torn,
                    closed, subs, ownVars>>

\* A POST has closed its stream, or a DELETE its session: the handler returns.
TornDown(h) ==
  /\ pc[h] = "teardown" /\ Quiet(h)
  /\ Finish(h)
  /\ UNCHANGED <<clock, sessVars, streamVars, closeVars, ownVars>>

-----------------------------------------------------------------------------
(* GET *)

\* 400 for a session that has not been initialized.
CheckReady(h) ==
  /\ pc[h] = "checkReady"
  /\ IF sess[h] \in ready THEN Goto(h, "attach") ELSE Finish(h)
  /\ UNCHANGED <<clock, sessVars, streamVars, closeVars, ownVars>>

\* The first entry of listenIDs that is still in the table.
ListenStreams(s) == {i \in DOMAIN listenIDs[s] : <<s, listenIDs[s][i]>> \in streams[s]}

\* MUTANT: every GET opens a listen stream.
AttachListenAnew(h) ==
  LET s == sess[h]
  IN /\ pc[h] = "attach"
     /\ pc' = [pc EXCEPT ![h] = "subscribe"]
     /\ nextID' = [nextID EXCEPT ![s] = @ + 1]
     /\ streams' = [streams EXCEPT ![s] = @ \cup {Fresh(s)}]
     /\ listenIDs' = [listenIDs EXCEPT ![s] = Append(@, nextID[s] + 1)]
     /\ listens' = listens \cup {Fresh(s)}
     /\ stream' = [stream EXCEPT ![h] = Fresh(s)]
     /\ UNCHANGED <<clock, sessVars, op, sess, closeVars, ownVars>>

\* openStream("listen"), without Last-Event-ID or when it names no stream here:
\* the listen stream is reused, and reopened, or else opened.
AttachListen(h) ==
  LET s == sess[h]
  IN /\ pc[h] = "attach"
     /\ pc' = [pc EXCEPT ![h] = "subscribe"]
     /\ \/ /\ ListenStreams(s) # {}
           /\ \E i \in ListenStreams(s) :
                /\ \A j \in ListenStreams(s) : i <= j
                /\ stream' = [stream EXCEPT ![h] = <<s, listenIDs[s][i]>>]
                /\ closed' = closed \ {<<s, listenIDs[s][i]>>}
           /\ UNCHANGED streamVars
        \/ /\ ListenStreams(s) = {}
           /\ nextID' = [nextID EXCEPT ![s] = @ + 1]
           /\ streams' = [streams EXCEPT ![s] = @ \cup {Fresh(s)}]
           /\ listenIDs' = [listenIDs EXCEPT ![s] = Append(@, nextID[s] + 1)]
           /\ listens' = listens \cup {Fresh(s)}
           /\ stream' = [stream EXCEPT ![h] = Fresh(s)]
           /\ UNCHANGED closed
     /\ UNCHANGED <<clock, sessVars, op, sess, doomed, dying, torn, subs, ownVars>>

\* Last-Event-ID names stream x, listen or post, which is still in the table.
AttachResume(h, x) ==
  /\ pc[h] = "attach" /\ x \in streams[sess[h]]
  /\ stream' = [stream EXCEPT ![h] = x]
  /\ pc' = [pc EXCEPT ![h] = "subscribe"]
  /\ UNCHANGED <<clock, sessVars, streamVars, op, sess, closeVars, ownVars>>

\* MUTANT: subscribe does not look at closed.
SubscribeUnchecked(h) ==
  /\ pc[h] = "subscribe"
  /\ subs' = subs \cup {h}
  /\ Goto(h, "stream")
  /\ UNCHANGED <<clock, sessVars, streamVars, doomed, dying, torn, closed, ownVars>>

\* subscribe: on a closed stream the channel is closed from the start.
Subscribe(h) ==
  /\ pc[h] = "subscribe"
  /\ subs' = IF stream[h] \in closed THEN subs ELSE subs \cup {h}
  /\ Goto(h, "stream")
  /\ UNCHANGED <<clock, sessVars, streamVars, doomed, dying, torn, closed, ownVars>>

\* The channel has been closed: the response ends.
StreamEnded(h) ==
  /\ pc[h] = "stream" /\ h \notin subs
  /\ Finish(h)
  /\ UNCHANGED <<clock, sessVars, streamVars, closeVars, ownVars>>

\* MUTANT: the end of a GET takes its stream out of the table.
HangUpUnlists(h) ==
  /\ pc[h] = "stream"
  /\ subs' = subs \ {h}
  /\ streams' = [streams EXCEPT ![sess[h]] = @ \ {stream[h]}]
  /\ Finish(h)
  /\ UNCHANGED <<clock, sessVars, listenIDs, nextID, listens, doomed, dying, torn,
                 closed, ownVars>>

\* The client goes away: the deferred unsubscribe.
HangUp(h) ==
  /\ pc[h] = "stream"
  /\ subs' = subs \ {h}
  /\ Finish(h)
  /\ UNCHANGED <<clock, sessVars, streamVars, doomed, dying, torn, closed, ownVars>>

-----------------------------------------------------------------------------
(* DELETE, the reaper, shutdown *)

\* MUTANT: the session is closed but stays in the table.
DeleteKeeps(h, s) ==
  /\ pc[h] = "idle"
  /\ s \in table
  /\ doomed' = [doomed EXCEPT ![h] = {s}]
  /\ Begin(h, "delete", s, "teardown")
  /\ UNCHANGED <<clock, sessVars, streamVars, dying, torn, closed, subs, ownVars>>

\* sessionManager.Delete: the lock is released before the session is closed.
Delete(h, s) ==
  /\ pc[h] = "idle"
  /\ s \in table
  /\ table' = table \ {s}
  /\ doomed' = [doomed EXCEPT ![h] = {s}]
  /\ Begin(h, "delete", s, "teardown")
  /\ UNCHANGED <<clock, made, ready, version, lastActive, streamVars, dying, torn,
                 closed, subs, ownVars>>

\* The ticker fires: reapExpired reads the clock before it takes the lock.
ReaperTick ==
  /\ reaper = "wait"
  /\ reaper' = "sweep"
  /\ deadline' = clock - TTL
  /\ UNCHANGED <<clock, sessVars, streamVars, reqVars, closeVars, main, stopped>>

\* MUTANT: a session is reaped a tick early.
ExpiredEarly == {s \in table : lastActive[s] <= deadline}

Expired == {s \in table : lastActive[s] < deadline}

\* MUTANT: expired sessions are forgotten, not closed.
ReaperSweepOnly ==
  /\ reaper = "sweep"
  /\ reaper' = "close"
  /\ deadline' = 0
  /\ table' = table \ Expired
  /\ UNCHANGED <<clock, made, ready, version, lastActive, streamVars, reqVars, closeVars,
                 main, stopped>>

\* The deadline is a local variable: it is forgotten after its last use.
ReaperSweep ==
  /\ reaper = "sweep"
  /\ reaper' = "close"
  /\ deadline' = 0
  /\ table' = table \ Expired
  /\ doomed' = [doomed EXCEPT ![Reaper] = Expired]
  /\ UNCHANGED <<clock, made, ready, version, lastActive, streamVars, reqVars, dying,
                 torn, closed, subs, main, stopped>>

\* MUTANT: the reaper runs once.
ReaperDoneForGood ==
  /\ reaper = "close" /\ Quiet(Reaper)
  /\ reaper' = "stopped"
  /\ UNCHANGED <<clock, sessVars, streamVars, reqVars, closeVars, deadline, main,
                 stopped>>

ReaperDone ==
  /\ reaper = "close" /\ Quiet(Reaper)
  /\ reaper' = "wait"
  /\ UNCHANGED <<clock, sessVars, streamVars, reqVars, closeVars, deadline, main,
                 stopped>>

ReaperStop ==
  /\ reaper = "wait" /\ stopped
  /\ reaper' = "stopped"
  /\ UNCHANGED <<clock, sessVars, streamVars, reqVars, closeVars, deadline, main,
                 stopped>>

\* ctx is cancelled: srv.Shutdown accepts no new connection.  One that has been
\* accepted may still bring a request, now or after Shutdown has timed out.
BeginShutdown ==
  /\ main = "serving"
  /\ main' = "draining"
  /\ UNCHANGED <<clock, sessVars, streamVars, reqVars, closeVars, reaper, deadline, stopped>>

\* MUTANT: shutdown waits for every request to end.
ManagerCloseWaits ==
  /\ main = "draining" /\ \A h \in Handlers : pc[h] = "idle"
  /\ main' = "closing"
  /\ stopped' = TRUE
  /\ table' = {}
  /\ doomed' = [doomed EXCEPT ![Main] = table]
  /\ UNCHANGED <<clock, made, ready, version, lastActive, streamVars, reqVars, dying,
                 torn, closed, subs, reaper, deadline>>

\* sessionManager.Close: once every handler has returned or the 5 s of Shutdown
\* are over, or as soon as Serve has failed, which stops no connection.
ManagerClose ==
  /\ main \in {"serving", "draining"}
  /\ main' = "closing"
  /\ stopped' = TRUE
  /\ table' = {}
  /\ doomed' = [doomed EXCEPT ![Main] = table]
  /\ UNCHANGED <<clock, made, ready, version, lastActive, streamVars, reqVars, dying,
                 torn, closed, subs, reaper, deadline>>

\* ServeStreamableHTTP returns.
Return ==
  /\ main = "closing" /\ Quiet(Main)
  /\ main' = "returned"
  /\ UNCHANGED <<clock, sessVars, streamVars, reqVars, closeVars, reaper, deadline,
                 stopped>>

Tick ==
  /\ clock < MaxClock
  /\ clock' = clock + 1
  /\ UNCHANGED <<sessVars, streamVars, reqVars, closeVars, ownVars>>

-----------------------------------------------------------------------------
Init ==
  /\ clock = 0
  /\ made = {} /\ table = {} /\ ready = {} /\ torn = {}
  /\ version = [s \in Sessions |-> NoVersion]
  /\ lastActive = [s \in Sessions |-> 0]
  /\ streams = [s \in Sessions |-> {}]
  /\ listenIDs = [s \in Sessions |-> <<>>]
  /\ nextID = [s \in Sessions |-> 0]
  /\ listens = {} /\ closed = {} /\ subs = {}
  /\ pc = [h \in Handlers |-> "idle"]
  /\ op = [h \in Handlers |-> "none"]
  /\ sess = [h \in Handlers |-> NoSession]
  /\ stream = [h \in Handlers |-> NoStream]
  /\ doomed = [p \in Actors |-> {}]
  /\ dying = [p \in Actors |-> {}]
  /\ reaper = "wait" /\ deadline = 0
  /\ main = "serving" /\ stopped = FALSE

Teardown(p) ==
  \/ \E s \in Sessions : CloseAll(p, s)
  \/ \E x \in dying[p] : CloseStream(p, x)

\* What a goroutine does by itself once it has a request.
HandlerStep(h) ==
  \/ Dispatch(h) \/ (\E v \in Versions : Initialize(h, v)) \/ Call(h)
  \/ Refuse(h) \/ RespondJSON(h) \/ OpenPost(h) \/ PublishResponse(h)
  \/ CheckReady(h) \/ AttachListen(h) \/ (\E s \in Sessions : \E x \in streams[s] : AttachResume(h, x))
  \/ Subscribe(h) \/ StreamEnded(h)
  \/ Teardown(h) \/ TornDown(h)

ReaperStep == ReaperTick \/ ReaperSweep \/ Teardown(Reaper) \/ ReaperDone \/ ReaperStop

MainStep == ManagerClose \/ Teardown(Main) \/ Return

Request(h) ==
  \E s \in Sessions :
    \/ Create(h, s)
    \/ \E o \in Ops : Get(h, o, s)
    \/ Delete(h, s)

Next ==
  \/ \E h \in Handlers : Request(h) \/ HandlerStep(h) \/ HangUp(h)
  \/ ReaperStep
  \/ BeginShutdown \/ MainStep
  \/ Tick

Spec == Init /\ [][Next]_vars

\* A goroutine that can run does run, and Shutdown times out.  Clients owe
\* nothing: they need not hang up, send requests or ever end their session.
Fairness ==
  /\ \A h \in Handlers : WF_vars(HandlerStep(h))
  /\ WF_vars(ReaperStep)
  /\ WF_vars(Teardown(Main) \/ Return)
  /\ WF_vars(main = "draining" /\ ManagerClose)

FairSpec == Spec /\ Fairness

-----------------------------------------------------------------------------
Steps == {"idle", "dispatch", "handle", "respond", "publish", "teardown",
          "checkReady", "attach", "subscribe", "stream"}

\* Every session that was created is in the table, or has been removed by exactly
\* one of DELETE, the reaper and shutdown, which has still to close it, or has
\* been closed: none leaks and none is closed twice, whoever races to end it.
SessionAccounted ==
  /\ table \cap torn = {}
  /\ \A s \in made :
       Cardinality({p \in Actors : s \in doomed[p]}) =
         IF s \in table \/ s \in torn THEN 0 ELSE 1

\* Every stream that was opened is in the table of its session, or has been taken
\* out by exactly one goroutine, which has still to close it, or is closed: no
\* stream leaks between closeStream and closeAll, and none is closed while listed.
StreamAccounted ==
  \A s \in Sessions : \A n \in 1..nextID[s] :
    LET x == <<s, n>>
        holders == {p \in Actors : x \in dying[p]}
    IN  \/ x \in streams[s] /\ x \notin closed /\ holders = {}
        \/ x \notin streams[s] /\ x \notin closed /\ Cardinality(holders) = 1
        \/ x \notin streams[s] /\ x \in closed /\ holders = {}

\* A session has at most one listen stream, and listenIDs is exactly the list of
\* those in its table: every GET of the session shares it and every notification
\* finds it.
OneListenStream ==
  \A s \in Sessions :
    /\ Len(listenIDs[s]) <= 1
    /\ {<<s, listenIDs[s][i]>> : i \in DOMAIN listenIDs[s]} = streams[s] \cap listens

\* A POST stream is in a table only while the POST that opened it is running.
PostStreamsOwned ==
  \A s \in Sessions : \A x \in streams[s] \ listens :
    \E h \in Handlers : pc[h] = "publish" /\ stream[h] = x

\* The response of a POST is lost to a closed stream only if the session ended.
ResponseLostOnlyOnTeardown ==
  \A h \in Handlers :
    pc[h] = "publish" /\ stream[h] \notin streams[sess[h]] => sess[h] \notin table

\* A session leaves the table only by a DELETE that names it, by shutdown, or
\* after more than TTL without a request: a client that keeps within the TTL is
\* never answered 404, although the reaper computes its deadline before it locks.
ReapedOnlyIdle ==
  [][\A s \in table \ table' :
       \/ lastActive[s] + TTL < clock
       \/ stopped' # stopped
       \/ \E h \in Handlers : op[h] # "delete" /\ op'[h] = "delete" /\ sess'[h] = s]_vars

\* Sessions behave as SessionLifecycle says: ids are never reused, a protocol
\* version is negotiated at most once although initialize requests may race, and
\* an ended session never comes back.
Lifecycle == INSTANCE SessionLifecycle WITH
  phase <- [s \in Sessions |-> IF s \in table THEN "live"
                               ELSE IF s \in made THEN "ended" ELSE "unused"],
  negotiated <- version
SessionsLiveOnce == Lifecycle!Spec

\* Whoever removes a session from the table goes on to close its streams.
EndedSessionsAreTornDown ==
  \A s \in Sessions : (s \in made \ table) ~> (s \in torn)

\* A GET whose stream has been taken out of its table ends, even if its client
\* stays: it cannot miss the close, wherever the two goroutines are.
UnlistedGetsEnd ==
  \A h \in Handlers :
    (op[h] = "get" /\ stream[h] # NoStream /\ stream[h] \notin streams[sess[h]])
      ~> (pc[h] = "idle")

\* ServeStreamableHTTP returns once its context is cancelled.
ShutdownReturns == (main = "draining") ~> (main = "returned")

\* A session idle for longer than the TTL is removed, or used again, unless the
\* manager has been closed.
IdleSessionsReaped ==
  \A s \in Sessions :
    (s \in table /\ lastActive[s] + TTL < clock)
      ~> (s \notin table \/ lastActive[s] + TTL >= clock \/ stopped)

\* session.go says of Session.Close that it tears down the session's SSE streams.
\* Then no client goes on listening to a session whose Close has run.
ClosedSessionsEndGets ==
  \A h \in Handlers :
    (pc[h] = "stream" /\ sess[h] \in torn) ~> (pc[h] # "stream")
=============================================================================
