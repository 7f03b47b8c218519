------------------------- MODULE StreamableHTTPProofs -------------------------
(***************************************************************************)
(* What TLAPS proves of StreamableHTTP, for any sets of sessions, request  *)
(* goroutines and versions, any TTL and any bounds.  The facts are proved  *)
(* in layers, each inductive relative to the ones before it: the types and *)
(* what a goroutine holds where, then the sessions, then the streams.      *)
(***************************************************************************)
EXTENDS StreamableHTTP, FiniteSetTheorems, SequenceTheorems, TLAPS

-----------------------------------------------------------------------------
(* Types, and what a goroutine holds at each place of its code *)

Numbers == Nat \ {0}

\* The values the variables range over: sessions, streams, requests, owners.
SessTypes ==
  /\ clock \in Nat
  /\ made \in SUBSET Sessions /\ table \in SUBSET Sessions
  /\ ready \in SUBSET Sessions /\ torn \in SUBSET Sessions
  /\ version \in [Sessions -> Versions \cup {NoVersion}]
  /\ lastActive \in [Sessions -> Nat]

StreamTypes ==
  /\ streams \in [Sessions -> SUBSET StreamIds]
  /\ listenIDs \in [Sessions -> Seq(Numbers)]
  /\ nextID \in [Sessions -> Nat]
  /\ listens \in SUBSET StreamIds /\ closed \in SUBSET StreamIds
  /\ subs \in SUBSET Handlers

RequestTypes ==
  /\ pc \in [Handlers -> Steps]
  /\ op \in [Handlers -> Ops]
  /\ sess \in [Handlers -> Sessions \cup {NoSession}]
  /\ stream \in [Handlers -> StreamIds \cup {NoStream}]

OwnTypes ==
  /\ doomed \in [Actors -> SUBSET Sessions]
  /\ dying \in [Actors -> SUBSET StreamIds]
  /\ reaper \in {"wait", "sweep", "close", "stopped"}
  /\ deadline \in Int
  /\ main \in {"serving", "draining", "closing", "returned"}

TypeOK == SessTypes /\ StreamTypes /\ RequestTypes /\ OwnTypes

\* A request under way has found a session that was created.
Resolved ==
  /\ table \subseteq made
  /\ \A h \in Handlers :
       /\ pc[h] = "idle" => op[h] = "none"
       /\ pc[h] # "idle" => sess[h] \in made

\* Only in its teardown has a goroutine sessions or streams left to close.
QuietOutside ==
  /\ \A h \in Handlers : pc[h] # "teardown" => Quiet(h)
  /\ reaper # "close" => Quiet(Reaper)
  /\ main # "closing" => Quiet(Main)

\* The manager is stopped by its Close only.
StoppedByMain ==
  /\ stopped \in BOOLEAN
  /\ main \in {"serving", "draining"} => stopped = FALSE

\* The reaper's deadline is no later than the TTL allows, however old it is.
DeadlineOld == reaper = "sweep" => deadline <= clock - TTL

Base == TypeOK /\ Resolved /\ QuietOutside /\ StoppedByMain /\ DeadlineOld

LEMMA BaseInit == Init => Base
<1> SUFFICES ASSUME Init PROVE Base
  OBVIOUS
<1>1. SessTypes
  BY DEF Init, SessTypes
<1>2. StreamTypes
  BY EmptySeq DEF Init, StreamTypes
<1>3. RequestTypes
  BY DEF Init, RequestTypes, Steps, Ops
<1>4. OwnTypes
  <2>1. doomed \in [Actors -> SUBSET Sessions] /\ dying \in [Actors -> SUBSET StreamIds]
    BY DEF Init
  <2>2. deadline \in Int
    BY DEF Init
  <2>3. /\ reaper \in {"wait", "sweep", "close", "stopped"}
        /\ main \in {"serving", "draining", "closing", "returned"}
    BY DEF Init
  <2> QED BY <2>1, <2>2, <2>3 DEF OwnTypes
<1>5. Resolved /\ QuietOutside /\ StoppedByMain /\ DeadlineOld
  BY DEF Init, Resolved, QuietOutside, Quiet, StoppedByMain, DeadlineOld, Actors
<1> QED BY <1>1, <1>2, <1>3, <1>4, <1>5 DEF Base, TypeOK

\* Every step is a step of one goroutine, or the clock's.
LEMMA StepCases ==
  ASSUME [Next]_vars
  PROVE  \/ \E h \in Handlers, s \in Sessions :
              Create(h, s) \/ (\E o \in Ops : Get(h, o, s)) \/ Delete(h, s)
         \/ \E h \in Handlers :
              \/ Dispatch(h) \/ (\E v \in Versions : Initialize(h, v)) \/ Call(h)
              \/ Refuse(h) \/ RespondJSON(h) \/ OpenPost(h) \/ PublishResponse(h)
              \/ CheckReady(h) \/ AttachListen(h) \/ (\E x : AttachResume(h, x))
              \/ Subscribe(h) \/ StreamEnded(h) \/ HangUp(h) \/ TornDown(h)
         \/ \E p \in Actors :
              (\E s \in Sessions : CloseAll(p, s)) \/ (\E x \in dying[p] : CloseStream(p, x))
         \/ ReaperTick \/ ReaperSweep \/ ReaperDone \/ ReaperStop
         \/ BeginShutdown \/ ManagerClose \/ Return
         \/ Tick \/ UNCHANGED vars
BY DEF Next, Request, HandlerStep, Teardown, ReaperStep, MainStep, Actors

\* Wherever a goroutine goes, its request is typed.
LEMMA MoveTypes ==
  ASSUME RequestTypes, NEW h \in Handlers
  PROVE  /\ Finish(h) => RequestTypes'
         /\ \A p \in Steps : Goto(h, p) => RequestTypes'
         /\ Answer(h) => RequestTypes'
BY DEF RequestTypes, Finish, Goto, Answer, Steps, Ops

\* The number of the next stream of a session.
LEMMA FreshTypes ==
  ASSUME Base, NEW h \in Handlers, pc[h] # "idle"
  PROVE  /\ sess[h] \in made /\ sess[h] \in Sessions
         /\ nextID[sess[h]] \in Nat /\ nextID[sess[h]] + 1 \in Numbers
         /\ Fresh(sess[h]) \in StreamIds
         /\ streams[sess[h]] \in SUBSET StreamIds
BY DEF Base, TypeOK, SessTypes, StreamTypes, Resolved, Fresh, StreamIds, Numbers

LEMMA TypeStep == Base /\ [Next]_vars => TypeOK'
<1> SUFFICES ASSUME Base, [Next]_vars PROVE TypeOK'
  OBVIOUS
<1> USE DEF sessVars, streamVars, reqVars, closeVars, ownVars, vars, Base, TypeOK,
            SessTypes, StreamTypes, RequestTypes, OwnTypes, Steps, Ops
<1>1. ASSUME NEW h \in Handlers, NEW s \in Sessions, Create(h, s) PROVE TypeOK'
  BY <1>1 DEF Create, Begin, Touch
<1>2. ASSUME NEW h \in Handlers, NEW s \in Sessions, NEW o \in Ops, Get(h, o, s) PROVE TypeOK'
  BY <1>2 DEF Get, Begin, Touch
<1>3. ASSUME NEW h \in Handlers, NEW s \in Sessions, Delete(h, s) PROVE TypeOK'
  BY <1>3 DEF Delete, Begin
<1>4. ASSUME NEW h \in Handlers, Dispatch(h) PROVE TypeOK'
  BY <1>4 DEF Dispatch, Touch, Goto
<1>5. ASSUME NEW h \in Handlers, NEW v \in Versions, Initialize(h, v) PROVE TypeOK'
  <2>1. RequestTypes' /\ UNCHANGED <<clock, made, table, streamVars, closeVars, ownVars>>
    BY <1>5, MoveTypes DEF Initialize
  <2>2. \/ UNCHANGED <<ready, version, lastActive>>
        \/ sess[h] \in Sessions /\ markReady(sess[h], v)
    BY <1>5, FreshTypes DEF Initialize
  <2>3. SessTypes'
    <3>1. CASE UNCHANGED <<ready, version, lastActive>>
      BY <2>1, <3>1
    <3>2. CASE sess[h] \in Sessions /\ markReady(sess[h], v)
      <4>1. version' \in [Sessions -> Versions \cup {NoVersion}] /\ ready' \in SUBSET Sessions
        BY <3>2 DEF markReady
      <4>2. lastActive' \in [Sessions -> Nat]
        BY <3>2 DEF markReady, Touch
      <4> QED BY <2>1, <4>1, <4>2
    <3> QED BY <2>2, <3>1, <3>2
  <2> QED BY <2>1, <2>3
<1>6. ASSUME NEW h \in Handlers, Call(h) PROVE TypeOK'
  BY <1>6 DEF Call, Answer, Finish, Goto
<1>7. ASSUME NEW h \in Handlers, Refuse(h) PROVE TypeOK'
  BY <1>7 DEF Refuse, Finish
<1>8. ASSUME NEW h \in Handlers, RespondJSON(h) PROVE TypeOK'
  BY <1>8 DEF RespondJSON, Finish
<1>9. ASSUME NEW h \in Handlers, OpenPost(h) PROVE TypeOK'
  <2>1. /\ sess[h] \in Sessions /\ nextID[sess[h]] + 1 \in Nat
        /\ Fresh(sess[h]) \in StreamIds
    BY <1>9, FreshTypes DEF OpenPost, Numbers
  <2>2. StreamTypes'
    BY <1>9, <2>1 DEF OpenPost
  <2>3. RequestTypes'
    BY <1>9, <2>1 DEF OpenPost
  <2> QED BY <1>9, <2>2, <2>3 DEF OpenPost
<1>10. ASSUME NEW h \in Handlers, PublishResponse(h) PROVE TypeOK'
  <2>1. sess[h] \in Sessions /\ streams[sess[h]] \in SUBSET StreamIds
    BY <1>10, FreshTypes DEF PublishResponse
  <2>2. StreamTypes'
    BY <1>10, <2>1 DEF PublishResponse
  <2>3. RequestTypes'
    BY <1>10, MoveTypes DEF PublishResponse
  <2>4. OwnTypes'
    BY <1>10, <2>1 DEF PublishResponse
  <2> QED BY <1>10, <2>2, <2>3, <2>4 DEF PublishResponse
<1>11. ASSUME NEW h \in Handlers, CheckReady(h) PROVE TypeOK'
  BY <1>11 DEF CheckReady, Goto, Finish
<1>12. ASSUME NEW h \in Handlers, AttachListen(h) PROVE TypeOK'
  <2> DEFINE s == sess[h]
  <2>1. /\ s \in Sessions /\ nextID[s] \in Nat /\ nextID[s] + 1 \in Numbers
        /\ Fresh(s) \in StreamIds /\ listenIDs[s] \in Seq(Numbers)
    BY <1>12, FreshTypes DEF AttachListen
  <2>2. CASE ListenStreams(s) # {}
    <3>1. PICK i \in ListenStreams(s) :
            /\ stream' = [stream EXCEPT ![h] = <<s, listenIDs[s][i]>>]
            /\ closed' = closed \ {<<s, listenIDs[s][i]>>}
      BY <1>12, <2>2 DEF AttachListen
    <3>2. <<s, listenIDs[s][i]>> \in StreamIds
      BY <2>1, <3>1 DEF ListenStreams
    <3>3. RequestTypes'
      BY <1>12, <3>1, <3>2 DEF AttachListen
    <3>4. StreamTypes'
      BY <1>12, <2>2, <3>1 DEF AttachListen
    <3> QED BY <1>12, <3>3, <3>4 DEF AttachListen
  <2>3. CASE ListenStreams(s) = {}
    <3>1. Append(listenIDs[s], nextID[s] + 1) \in Seq(Numbers)
      BY <2>1, AppendProperties
    <3>2. /\ nextID' = [nextID EXCEPT ![s] = @ + 1]
          /\ streams' = [streams EXCEPT ![s] = @ \cup {Fresh(s)}]
          /\ listenIDs' = [listenIDs EXCEPT ![s] = Append(@, nextID[s] + 1)]
          /\ listens' = listens \cup {Fresh(s)}
          /\ stream' = [stream EXCEPT ![h] = Fresh(s)]
          /\ UNCHANGED <<closed, subs>>
      BY <1>12, <2>3 DEF AttachListen
    <3>3. RequestTypes'
      BY <1>12, <2>1, <3>2 DEF AttachListen
    <3>4. StreamTypes'
      BY <2>1, <3>1, <3>2
    <3> QED BY <1>12, <3>3, <3>4 DEF AttachListen
  <2> QED BY <2>2, <2>3
<1>13. ASSUME NEW h \in Handlers, NEW x, AttachResume(h, x) PROVE TypeOK'
  <2>1. x \in StreamIds
    BY <1>13, FreshTypes DEF AttachResume
  <2> QED BY <1>13, <2>1 DEF AttachResume
<1>14. ASSUME NEW h \in Handlers, Subscribe(h) PROVE TypeOK'
  BY <1>14 DEF Subscribe, Goto
<1>15. ASSUME NEW h \in Handlers, StreamEnded(h) PROVE TypeOK'
  BY <1>15 DEF StreamEnded, Finish
<1>16. ASSUME NEW h \in Handlers, HangUp(h) PROVE TypeOK'
  BY <1>16 DEF HangUp, Finish
<1>17. ASSUME NEW h \in Handlers, TornDown(h) PROVE TypeOK'
  BY <1>17 DEF TornDown, Finish
<1>18. ASSUME NEW p \in Actors, NEW s \in Sessions, CloseAll(p, s) PROVE TypeOK'
  BY <1>18 DEF CloseAll
<1>19. ASSUME NEW p \in Actors, NEW x \in dying[p], CloseStream(p, x) PROVE TypeOK'
  BY <1>19 DEF CloseStream
<1>20. ASSUME ReaperTick PROVE TypeOK'
  BY <1>20 DEF ReaperTick
<1>21. ASSUME ReaperSweep PROVE TypeOK'
  <2>1. Expired \in SUBSET Sessions /\ Reaper \in Actors
    BY DEF Expired, Actors
  <2>2. OwnTypes'
    BY <1>21, <2>1 DEF ReaperSweep
  <2> QED BY <1>21, <2>2 DEF ReaperSweep
<1>22. ASSUME ReaperDone PROVE TypeOK'
  BY <1>22 DEF ReaperDone
<1>23. ASSUME ReaperStop PROVE TypeOK'
  BY <1>23 DEF ReaperStop
<1>24. ASSUME BeginShutdown PROVE TypeOK'
  BY <1>24 DEF BeginShutdown
<1>25. ASSUME ManagerClose PROVE TypeOK'
  BY <1>25 DEF ManagerClose
<1>26. ASSUME Return PROVE TypeOK'
  BY <1>26 DEF Return
<1>27. ASSUME Tick PROVE TypeOK'
  BY <1>27 DEF Tick
<1>28. ASSUME UNCHANGED vars PROVE TypeOK'
  BY <1>28
<1> QED BY StepCases, <1>1, <1>2, <1>3, <1>4, <1>5, <1>6, <1>7, <1>8, <1>9, <1>10, <1>11, <1>12, <1>13, <1>14, <1>15, <1>16, <1>17, <1>18, <1>19, <1>20, <1>21, <1>22, <1>23, <1>24, <1>25, <1>26, <1>27, <1>28

\* What the reaper and the goroutine of ServeStreamableHTTP keep for themselves is
\* changed by their own steps only.
LEMMA OwnSteps ==
  ASSUME [Next]_vars
  PROVE  \/ ReaperTick \/ ReaperSweep \/ ReaperDone \/ ReaperStop
         \/ BeginShutdown \/ ManagerClose \/ Return
         \/ UNCHANGED ownVars /\ (clock' = clock \/ clock' = clock + 1)
BY StepCases DEF vars, Create, Get, Delete, Dispatch, Initialize, Call, Refuse, RespondJSON,
   OpenPost, PublishResponse, CheckReady, AttachListen, AttachResume, Subscribe,
   StreamEnded, HangUp, TornDown, CloseAll, CloseStream, Tick

LEMMA DeadlineStep == Base /\ [Next]_vars => DeadlineOld' /\ StoppedByMain'
<1> SUFFICES ASSUME Base, [Next]_vars PROVE DeadlineOld' /\ StoppedByMain'
  OBVIOUS
<1>1. /\ clock \in Nat /\ deadline \in Int /\ TTL \in Nat
      /\ DeadlineOld /\ StoppedByMain
  BY BoundsAssumption DEF Base, TypeOK, SessTypes, OwnTypes
<1>2. DeadlineOld'
  <2>1. CASE ReaperTick
    BY <1>1, <2>1 DEF DeadlineOld, ReaperTick
  <2>2. CASE ReaperSweep \/ ReaperDone \/ ReaperStop
    BY <2>2 DEF DeadlineOld, ReaperSweep, ReaperDone, ReaperStop
  <2>3. CASE BeginShutdown \/ ManagerClose \/ Return
    BY <1>1, <2>3 DEF DeadlineOld, BeginShutdown, ManagerClose, Return
  <2>4. CASE UNCHANGED ownVars /\ (clock' = clock \/ clock' = clock + 1)
    BY <1>1, <2>4 DEF DeadlineOld, ownVars
  <2> QED BY OwnSteps, <2>1, <2>2, <2>3, <2>4
<1>3. StoppedByMain'
  BY <1>1, OwnSteps DEF StoppedByMain, ReaperTick, ReaperSweep, ReaperDone, ReaperStop,
     BeginShutdown, ManagerClose, Return, ownVars
<1> QED BY <1>2, <1>3

\* The steps of request goroutines; any other leaves their requests alone.
LEMMA RequestSteps ==
  ASSUME [Next]_vars
  PROVE  \/ \E h \in Handlers, s \in Sessions :
              Create(h, s) \/ (\E o \in Ops : Get(h, o, s)) \/ Delete(h, s)
         \/ \E h \in Handlers :
              \/ Dispatch(h) \/ (\E v \in Versions : Initialize(h, v)) \/ Call(h)
              \/ Refuse(h) \/ RespondJSON(h) \/ OpenPost(h) \/ PublishResponse(h)
              \/ CheckReady(h) \/ AttachListen(h) \/ (\E x : AttachResume(h, x))
              \/ Subscribe(h) \/ StreamEnded(h) \/ HangUp(h) \/ TornDown(h)
         \/ UNCHANGED reqVars
BY StepCases DEF vars, CloseAll, CloseStream, ReaperTick, ReaperSweep, ReaperDone,
   ReaperStop, BeginShutdown, ManagerClose, Return, Tick

\* A request starts with a session of the table, and its goroutine is free again
\* when it has ended.
LEMMA ResolvedStep == Base /\ [Next]_vars => Resolved'
<1> SUFFICES ASSUME Base, [Next]_vars PROVE Resolved'
  OBVIOUS
<1> USE DEF Base, Resolved, TypeOK, RequestTypes, reqVars, sessVars, vars
<1>1. table' \subseteq made' /\ made \subseteq made'
  BY StepCases DEF Create, Get, Delete, Dispatch, Initialize, Call, Refuse, RespondJSON,
     OpenPost, PublishResponse, CheckReady, AttachListen, AttachResume, Subscribe,
     StreamEnded, HangUp, TornDown, CloseAll, CloseStream, ReaperTick, ReaperSweep,
     ReaperDone, ReaperStop, BeginShutdown, ManagerClose, Return, Tick
<1>2. ASSUME NEW h \in Handlers, NEW s \in Sessions,
             Create(h, s) \/ (\E o \in Ops : Get(h, o, s)) \/ Delete(h, s)
      PROVE  Resolved'
  BY <1>1, <1>2 DEF Create, Get, Delete, Begin
<1>3. ASSUME NEW h \in Handlers,
             \/ Goto(h, "handle") \/ Goto(h, "teardown") \/ Goto(h, "stream")
             \/ Goto(h, "attach") \/ Goto(h, "respond") \/ Finish(h),
             pc[h] # "idle"
      PROVE  Resolved'
  BY <1>1, <1>3 DEF Goto, Finish
<1>4. ASSUME NEW h \in Handlers,
             OpenPost(h) \/ AttachListen(h) \/ (\E x : AttachResume(h, x))
      PROVE  Resolved'
  BY <1>1, <1>4 DEF OpenPost, AttachListen, AttachResume
<1>5. ASSUME NEW h \in Handlers,
             \/ Dispatch(h) \/ (\E v \in Versions : Initialize(h, v)) \/ Call(h) \/ Refuse(h) \/ RespondJSON(h)
             \/ PublishResponse(h) \/ CheckReady(h) \/ Subscribe(h) \/ StreamEnded(h)
             \/ HangUp(h) \/ TornDown(h)
      PROVE  Resolved'
  BY <1>3, <1>5 DEF Dispatch, Initialize, Call, Refuse, RespondJSON, PublishResponse,
     CheckReady, Subscribe, StreamEnded, HangUp, TornDown, Answer
<1>6. ASSUME UNCHANGED reqVars PROVE Resolved'
  BY <1>1, <1>6
<1> QED BY RequestSteps, <1>2, <1>4, <1>5, <1>6

\* Six actions put something in a goroutine's hands or take it out of them.
LEMMA HandSteps ==
  ASSUME [Next]_vars
  PROVE  \/ \E h \in Handlers, s \in Sessions : Delete(h, s)
         \/ \E h \in Handlers : PublishResponse(h)
         \/ \E p \in Actors, s \in Sessions : CloseAll(p, s)
         \/ \E p \in Actors : \E x \in dying[p] : CloseStream(p, x)
         \/ ReaperSweep \/ ManagerClose
         \/ UNCHANGED <<doomed, dying>>
BY StepCases DEF vars, closeVars, Create, Get, Dispatch, Initialize, Call, Refuse,
   RespondJSON, OpenPost, CheckReady, AttachListen, AttachResume, Subscribe,
   StreamEnded, HangUp, TornDown, ReaperTick, ReaperDone, ReaperStop, BeginShutdown,
   Return, Tick

\* A goroutine leaves its teardown with empty hands only.
LEMMA TeardownEnds ==
  ASSUME Base, [Next]_vars
  PROVE  /\ \A h \in Handlers : pc[h] = "teardown" /\ pc'[h] # "teardown" => Quiet(h)
         /\ reaper = "close" /\ reaper' # "close" => Quiet(Reaper)
         /\ main = "closing" /\ main' # "closing" => Quiet(Main)
<1>1. ASSUME NEW h \in Handlers, pc[h] = "teardown", pc'[h] # "teardown" PROVE Quiet(h)
  <2>1. pc \in [Handlers -> Steps]
    BY DEF Base, TypeOK, RequestTypes
  <2> QED
    BY <1>1, <2>1, StepCases DEF vars, reqVars, Begin, Goto, Finish, Answer, Create, Get,
       Delete, Dispatch, Initialize, Call, Refuse, RespondJSON, OpenPost, PublishResponse,
       CheckReady, AttachListen, AttachResume, Subscribe, StreamEnded, HangUp, TornDown,
       CloseAll, CloseStream, ReaperTick, ReaperSweep, ReaperDone, ReaperStop,
       BeginShutdown, ManagerClose, Return, Tick
<1>2. /\ reaper = "close" /\ reaper' # "close" => Quiet(Reaper)
      /\ main = "closing" /\ main' # "closing" => Quiet(Main)
  BY OwnSteps DEF ownVars, ReaperTick, ReaperSweep, ReaperDone, ReaperStop,
     BeginShutdown, ManagerClose, Return
<1> QED BY <1>1, <1>2

LEMMA QuietStep == Base /\ [Next]_vars => QuietOutside'
<1> SUFFICES ASSUME Base, [Next]_vars PROVE QuietOutside'
  OBVIOUS
<1>1. /\ QuietOutside /\ doomed \in [Actors -> SUBSET Sessions]
      /\ dying \in [Actors -> SUBSET StreamIds] /\ pc \in [Handlers -> Steps]
  BY DEF Base, TypeOK, OwnTypes, RequestTypes
<1>2. Handlers \subseteq Actors /\ Reaper \in Actors /\ Main \in Actors
      /\ Reaper \notin Handlers /\ Main \notin Handlers /\ Reaper # Main
  BY ActorsAssumption DEF Actors
\* What is to be shown of each goroutine.
<1> DEFINE Active(p) == \/ p \in Handlers /\ pc[p] = "teardown"
                        \/ p = Reaper /\ reaper = "close"
                        \/ p = Main /\ main = "closing"
<1>3. QuietOutside <=> \A p \in Actors : Active(p) \/ Quiet(p)
  BY <1>2 DEF QuietOutside, Actors
<1>4. QuietOutside' <=> \A p \in Actors : Active(p)' \/ Quiet(p)'
  BY <1>2 DEF QuietOutside, Actors
\* Hands that a step does not touch were empty, or their goroutine stays in its teardown.
<1>5. ASSUME NEW p \in Actors, doomed'[p] = doomed[p], dying'[p] = dying[p]
      PROVE  Active(p)' \/ Quiet(p)'
  BY <1>1, <1>2, <1>3, <1>5, TeardownEnds DEF Quiet, Actors
<1>6. ASSUME NEW q \in Actors, Active(q)',
             \A p \in Actors \ {q} : doomed'[p] = doomed[p] /\ dying'[p] = dying[p]
      PROVE  QuietOutside'
  BY <1>4, <1>5, <1>6
<1>7. CASE \E h \in Handlers, s \in Sessions : Delete(h, s)
  <2>1. PICK h \in Handlers, s \in Sessions : Delete(h, s)
    BY <1>7
  <2>2. pc'[h] = "teardown" /\ \A p \in Actors \ {h} : doomed'[p] = doomed[p] /\ dying'[p] = dying[p]
    BY <1>1, <2>1 DEF Delete, Begin
  <2> QED BY <1>2, <1>6, <2>2
<1>8. CASE \E h \in Handlers : PublishResponse(h)
  <2>1. PICK h \in Handlers : PublishResponse(h)
    BY <1>8
  <2>2. pc'[h] = "teardown" /\ \A p \in Actors \ {h} : doomed'[p] = doomed[p] /\ dying'[p] = dying[p]
    BY <1>1, <2>1 DEF PublishResponse, Goto
  <2> QED BY <1>2, <1>6, <2>2
<1>9. CASE \E p \in Actors : \/ \E s \in Sessions : CloseAll(p, s)
                             \/ \E x \in dying[p] : CloseStream(p, x)
  <2>1. PICK p \in Actors : \/ \E s \in Sessions : CloseAll(p, s)
                            \/ \E x \in dying[p] : CloseStream(p, x)
    BY <1>9
  <2>2. ~Quiet(p) /\ UNCHANGED <<pc, reaper, main>>
    BY <2>1 DEF Quiet, CloseAll, CloseStream, reqVars, ownVars
  <2>3. Active(p)'
    BY <1>1, <1>3, <2>2
  <2>4. \A q \in Actors \ {p} : doomed'[q] = doomed[q] /\ dying'[q] = dying[q]
    BY <1>1, <2>1 DEF CloseAll, CloseStream
  <2> QED BY <1>6, <2>3, <2>4
<1>10. CASE ReaperSweep
  <2>1. \A p \in Actors \ {Reaper} : doomed'[p] = doomed[p] /\ dying'[p] = dying[p]
    BY <1>1, <1>10 DEF ReaperSweep
  <2> QED BY <1>2, <1>6, <1>10, <2>1 DEF ReaperSweep
<1>11. CASE ManagerClose
  <2>1. \A p \in Actors \ {Main} : doomed'[p] = doomed[p] /\ dying'[p] = dying[p]
    BY <1>1, <1>11 DEF ManagerClose
  <2> QED BY <1>2, <1>6, <1>11, <2>1 DEF ManagerClose
<1>12. CASE UNCHANGED <<doomed, dying>>
  BY <1>4, <1>5, <1>12
<1> QED BY HandSteps, <1>7, <1>8, <1>9, <1>10, <1>11, <1>12

\* Every goroutine is in a place its code has, with a session that exists and
\* nothing in its hands that it would forget.
THEOREM BaseHolds == Spec => []Base
<1>1. Base /\ [Next]_vars => Base'
  BY TypeStep, ResolvedStep, QuietStep, DeadlineStep DEF Base
<1> QED BY BaseInit, <1>1, PTL DEF Spec

-----------------------------------------------------------------------------
(* Sessions *)

\* The session of a step is in one place, and no two goroutines hold it.
SessionPlaces ==
  /\ torn \subseteq made /\ table \cap torn = {}
  /\ \A p \in Actors :
       /\ doomed[p] \subseteq made /\ doomed[p] \cap (table \cup torn) = {}
       /\ \A q \in Actors \ {p} : doomed[p] \cap doomed[q] = {}
  /\ \A s \in made : s \in table \/ s \in torn \/ \E p \in Actors : s \in doomed[p]

\* Five actions move a session from one place to another.
LEMMA SessionSteps ==
  ASSUME [Next]_vars
  PROVE  \/ \E h \in Handlers, s \in Sessions : Create(h, s) \/ Delete(h, s)
         \/ \E p \in Actors, s \in Sessions : CloseAll(p, s)
         \/ ReaperSweep \/ ManagerClose
         \/ UNCHANGED <<made, table, torn, doomed>>
BY StepCases DEF vars, sessVars, closeVars, Get, Dispatch, Initialize, Call, Refuse,
   RespondJSON, OpenPost, PublishResponse, CheckReady, AttachListen, AttachResume,
   Subscribe, StreamEnded, HangUp, TornDown, CloseStream, ReaperTick, ReaperDone,
   ReaperStop, BeginShutdown, Return, Tick

LEMMA SessionPlacesStep == Base /\ SessionPlaces /\ [Next]_vars => SessionPlaces'
<1> SUFFICES ASSUME Base, SessionPlaces, [Next]_vars PROVE SessionPlaces'
  OBVIOUS
<1>1. /\ doomed \in [Actors -> SUBSET Sessions] /\ table \subseteq made
      /\ Handlers \subseteq Actors /\ Reaper \in Actors /\ Main \in Actors
  BY DEF Base, TypeOK, OwnTypes, Resolved, Actors
<1>2. ASSUME NEW h \in Handlers, NEW s \in Sessions, Create(h, s) PROVE SessionPlaces'
  BY <1>1, <1>2 DEF SessionPlaces, Create, closeVars
\* Whoever takes sessions out of the table had empty hands.
<1>3. ASSUME NEW p \in Actors, doomed[p] = {}, NEW S \in SUBSET table,
             table' = table \ S, doomed' = [doomed EXCEPT ![p] = S],
             UNCHANGED <<made, torn>>
      PROVE  SessionPlaces'
  BY <1>1, <1>3 DEF SessionPlaces
<1>4. ASSUME NEW h \in Handlers, NEW s \in Sessions, Delete(h, s) PROVE SessionPlaces'
  <2>1. doomed[h] = {}
    BY <1>4 DEF Delete, Base, QuietOutside, Quiet
  <2> QED BY <1>1, <1>3, <1>4, <2>1 DEF Delete
<1>5. CASE ReaperSweep
  <2>1. doomed[Reaper] = {} /\ Expired \in SUBSET table
    BY <1>5 DEF ReaperSweep, Expired, Base, QuietOutside, Quiet
  <2> QED BY <1>1, <1>3, <1>5, <2>1 DEF ReaperSweep
<1>6. CASE ManagerClose
  <2>1. doomed[Main] = {} /\ table' = table \ table
    BY <1>6 DEF ManagerClose, Base, QuietOutside, Quiet
  <2> QED BY <1>1, <1>3, <1>6, <2>1 DEF ManagerClose
<1>7. ASSUME NEW p \in Actors, NEW s \in Sessions, CloseAll(p, s) PROVE SessionPlaces'
  BY <1>1, <1>7 DEF SessionPlaces, CloseAll, sessVars
<1>8. CASE UNCHANGED <<made, table, torn, doomed>>
  BY <1>8 DEF SessionPlaces
<1> QED BY SessionSteps, <1>2, <1>4, <1>5, <1>6, <1>7, <1>8

\* Of a set of goroutines of which one at most holds s, the holders are one or none.
LEMMA PlacesAccount == SessionPlaces => SessionAccounted
<1> SUFFICES ASSUME SessionPlaces, NEW s \in made
             PROVE  Cardinality({p \in Actors : s \in doomed[p]}) =
                      IF s \in table \/ s \in torn THEN 0 ELSE 1
  BY DEF SessionPlaces, SessionAccounted
<1>1. CASE s \in table \/ s \in torn
  <2>1. {p \in Actors : s \in doomed[p]} = {}
    BY <1>1 DEF SessionPlaces
  <2> QED BY <1>1, <2>1, FS_EmptySet
<1>2. CASE ~(s \in table \/ s \in torn)
  <2>1. PICK p \in Actors : s \in doomed[p]
    BY <1>2 DEF SessionPlaces
  <2>2. {q \in Actors : s \in doomed[q]} = {p}
    BY <2>1 DEF SessionPlaces
  <2> QED BY <1>2, <2>2, FS_Singleton
<1> QED BY <1>1, <1>2

\* A session that was created is in the table, or has been removed by exactly one of
\* DELETE, the reaper and shutdown, which has still to close it, or has been closed.
THEOREM EverySessionAccounted == Spec => []SessionAccounted
<1>1. Init => SessionPlaces
  BY DEF Init, SessionPlaces
<1> QED BY BaseHolds, <1>1, SessionPlacesStep, PlacesAccount, PTL DEF Spec

\* A session leaves the table only by a DELETE that names it, by shutdown, or after
\* more than TTL without a request, however old the reaper's deadline is.
THEOREM OnlyIdleReaped == Spec => ReapedOnlyIdle
<1> DEFINE Left(s) == \/ lastActive[s] + TTL < clock
                      \/ stopped' # stopped
                      \/ \E h \in Handlers : op[h] # "delete" /\ op'[h] = "delete" /\ sess'[h] = s
<1>1. ASSUME Base, [Next]_vars, NEW s \in table, s \notin table' PROVE Left(s)
  <2>1. /\ lastActive[s] \in Nat /\ clock \in Nat /\ deadline \in Int /\ TTL \in Nat
        /\ op \in [Handlers -> Ops] /\ sess \in [Handlers -> Sessions \cup {NoSession}]
    BY <1>1, BoundsAssumption DEF Base, TypeOK, SessTypes, OwnTypes, RequestTypes
  <2>2. ASSUME NEW h \in Handlers, NEW t \in Sessions, Delete(h, t) PROVE Left(s)
    <3>1. table' = table \ {t} /\ pc[h] = "idle"
      BY <2>2 DEF Delete
    <3>2. op[h] # "delete"
      BY <1>1, <3>1 DEF Base, Resolved
    <3>3. op' = [op EXCEPT ![h] = "delete"] /\ sess' = [sess EXCEPT ![h] = t]
      BY <2>2 DEF Delete, Begin
    <3>4. op'[h] = "delete" /\ sess'[h] = s
      BY <1>1, <2>1, <3>1, <3>3
    <3> QED BY <3>2, <3>4
  <2>3. CASE ReaperSweep
    <3>1. lastActive[s] < deadline /\ deadline <= clock - TTL
      BY <1>1, <2>3 DEF ReaperSweep, Expired, Base, DeadlineOld
    <3> QED BY <2>1, <3>1
  <2>4. CASE ManagerClose
    BY <1>1, <2>4 DEF ManagerClose, Base, StoppedByMain
  <2> QED BY <1>1, <2>2, <2>3, <2>4, SessionSteps DEF Create, CloseAll, sessVars
<1>2. Base /\ [Next]_vars =>
        [\A s \in table \ table' :
           \/ lastActive[s] + TTL < clock
           \/ stopped' # stopped
           \/ \E h \in Handlers : op[h] # "delete" /\ op'[h] = "delete" /\ sess'[h] = s]_vars
  BY <1>1
<1> QED BY BaseHolds, <1>2, PTL DEF Spec, ReapedOnlyIdle

-----------------------------------------------------------------------------
(* The sessions implement SessionLifecycle *)

\* A session that is not ready has no version yet.
ReadyFirst == \A s \in Sessions : s \notin ready => version[s] = NoVersion

\* A version is agreed by markReady alone.
LEMMA VersionSteps ==
  ASSUME [Next]_vars
  PROVE  \/ \E h \in Handlers, v \in Versions :
              pc[h] = "handle" /\ markReady(sess[h], v) /\ UNCHANGED <<made, table>>
         \/ UNCHANGED <<ready, version>>
BY StepCases DEF vars, sessVars, Create, Get, Delete, Dispatch, Initialize, Call, Refuse,
   RespondJSON, OpenPost, PublishResponse, CheckReady, AttachListen, AttachResume,
   Subscribe, StreamEnded, HangUp, TornDown, CloseAll, CloseStream, ReaperTick,
   ReaperSweep, ReaperDone, ReaperStop, BeginShutdown, ManagerClose, Return, Tick

LEMMA ReadyFirstStep == Base /\ ReadyFirst /\ [Next]_vars => ReadyFirst'
BY VersionSteps DEF ReadyFirst, markReady, Base, TypeOK, SessTypes

\* What the session manager does to one session or to many is a step of the
\* abstract lifecycle, and everything else leaves it alone.
LEMMA LifecycleStep ==
  ASSUME Base, ReadyFirst, [Next]_vars
  PROVE  [Lifecycle!Next]_(Lifecycle!vars)
<1> DEFINE phase == [s \in Sessions |-> IF s \in table THEN "live"
                                        ELSE IF s \in made THEN "ended" ELSE "unused"]
<1>1. /\ table \subseteq made /\ made \subseteq Sessions
      /\ version \in [Sessions -> Versions \cup {NoVersion}]
  BY DEF Base, TypeOK, SessTypes, Resolved
<1> SUFFICES ASSUME ~(phase' = phase /\ version' = version)
             PROVE  Lifecycle!Next
  BY DEF Lifecycle!vars
<1>2. CASE \E h \in Handlers, v \in Versions :
             pc[h] = "handle" /\ markReady(sess[h], v) /\ UNCHANGED <<made, table>>
  <2>1. PICK h \in Handlers, v \in Versions :
               pc[h] = "handle" /\ markReady(sess[h], v) /\ UNCHANGED <<made, table>>
    BY <1>2
  <2>2. sess[h] \in made
    BY <2>1 DEF Base, Resolved
  <2>3. Lifecycle!Negotiate(sess[h], v)
    BY <1>1, <2>1, <2>2 DEF Lifecycle!Negotiate, markReady, ReadyFirst
  <2> QED BY <1>1, <2>2, <2>3 DEF Lifecycle!Next
<1>3. CASE UNCHANGED <<ready, version>>
  <2>1. ASSUME NEW h \in Handlers, NEW s \in Sessions, Create(h, s) PROVE Lifecycle!Next
    <3>1. Lifecycle!Start(s)
      BY <1>1, <1>3, <2>1 DEF Lifecycle!Start, Create
    <3> QED BY <3>1 DEF Lifecycle!Next
  <2>2. ASSUME NEW S \in SUBSET table, table' = table \ S, made' = made
        PROVE  Lifecycle!Next
    <3>1. S # {}
      BY <1>3, <2>2
    <3>2. Lifecycle!End(S) /\ S \in SUBSET Sessions
      BY <1>1, <1>3, <2>2, <3>1 DEF Lifecycle!End
    <3> QED BY <3>2 DEF Lifecycle!Next
  <2>3. \/ \E h \in Handlers, s \in Sessions : Create(h, s)
        \/ \E S \in SUBSET table : table' = table \ S /\ made' = made
    <3>1. ASSUME NEW h \in Handlers, NEW s \in Sessions, Delete(h, s)
          PROVE  \E S \in SUBSET table : table' = table \ S /\ made' = made
      <4>1. {s} \in SUBSET table /\ table' = table \ {s} /\ made' = made
        BY <3>1 DEF Delete
      <4> QED BY <4>1
    <3>2. ASSUME ReaperSweep
          PROVE  \E S \in SUBSET table : table' = table \ S /\ made' = made
      <4>1. Expired \in SUBSET table /\ table' = table \ Expired /\ made' = made
        BY <3>2 DEF ReaperSweep, Expired
      <4> QED BY <4>1
    <3>3. ASSUME ManagerClose
          PROVE  \E S \in SUBSET table : table' = table \ S /\ made' = made
      <4>1. table' = table \ table /\ made' = made
        BY <3>3 DEF ManagerClose
      <4> QED BY <4>1
    <3>4. ASSUME UNCHANGED <<made, table>>
          PROVE  \E S \in SUBSET table : table' = table \ S /\ made' = made
      <4>1. table' = table \ {} /\ made' = made
        BY <3>4
      <4> QED BY <4>1
    <3> QED BY SessionSteps, <3>1, <3>2, <3>3, <3>4 DEF CloseAll, sessVars
  <2> QED BY <2>1, <2>2, <2>3
<1> QED BY VersionSteps, <1>2, <1>3

\* Session ids are used once, a version is negotiated at most once although initialize
\* requests may race, and an ended session never comes back.
THEOREM ImplementsSessionLifecycle == Spec => SessionsLiveOnce
<1>1. Init => ReadyFirst /\ Lifecycle!Init
  BY DEF Init, ReadyFirst, Lifecycle!Init
<1>2. Base /\ ReadyFirst /\ [Next]_vars => [Lifecycle!Next]_(Lifecycle!vars)
  BY LifecycleStep
<1> QED BY BaseHolds, ReadyFirstStep, <1>1, <1>2, PTL DEF Spec, SessionsLiveOnce, Lifecycle!Spec

-----------------------------------------------------------------------------
(* Streams *)

\* The streams opened so far.
Opened == {x \in StreamIds : x[2] <= nextID[x[1]]}

\* A stream is in one place, and no two goroutines hold it.
StreamPlaces ==
  /\ closed \subseteq Opened /\ listens \subseteq Opened
  /\ \A s \in Sessions :
       streams[s] \subseteq {x \in Opened : x[1] = s} /\ streams[s] \cap closed = {}
  /\ \A p \in Actors :
       /\ dying[p] \subseteq Opened /\ dying[p] \cap closed = {}
       /\ \A s \in Sessions : dying[p] \cap streams[s] = {}
       /\ \A q \in Actors \ {p} : dying[p] \cap dying[q] = {}
  /\ \A x \in Opened : x \in streams[x[1]] \/ x \in closed \/ \E p \in Actors : x \in dying[p]

\* A POST that writes to a stream has it for itself.
PublishersOwn ==
  \A h \in Handlers : pc[h] = "publish" =>
    /\ stream[h] \in Opened \ listens /\ stream[h][1] = sess[h]
    /\ \A g \in Handlers \ {h} : pc[g] = "publish" => stream[g] # stream[h]

StreamsInv == StreamPlaces /\ PublishersOwn

\* Two actions open a stream, three take streams out of tables or close them.
LEMMA StreamSteps ==
  ASSUME [Next]_vars
  PROVE  \/ \E h \in Handlers : OpenPost(h) \/ PublishResponse(h) \/ AttachListen(h)
         \/ \E p \in Actors :
              (\E s \in Sessions : CloseAll(p, s)) \/ (\E x \in dying[p] : CloseStream(p, x))
         \/ UNCHANGED <<streamVars, dying, closed>>
BY StepCases DEF vars, closeVars, Create, Get, Delete, Dispatch, Initialize, Call, Refuse,
   RespondJSON, CheckReady, AttachResume, Subscribe, StreamEnded, HangUp, TornDown,
   ReaperTick, ReaperSweep, ReaperDone, ReaperStop, BeginShutdown, ManagerClose,
   Return, Tick

\* A goroutine comes to its publish by OpenPost and leaves it by PublishResponse.
LEMMA PublishSteps ==
  ASSUME Base, [Next]_vars, NEW h \in Handlers, pc[h] = "publish" \/ pc'[h] = "publish",
         ~OpenPost(h), ~PublishResponse(h)
  PROVE  pc'[h] = pc[h] /\ stream'[h] = stream[h] /\ sess'[h] = sess[h]
<1>1. /\ pc \in [Handlers -> Steps] /\ sess \in [Handlers -> Sessions \cup {NoSession}]
      /\ stream \in [Handlers -> StreamIds \cup {NoStream}]
  BY DEF Base, TypeOK, RequestTypes
<1> DEFINE Kept == pc'[h] = pc[h] /\ stream'[h] = stream[h] /\ sess'[h] = sess[h]
\* A step of another goroutine leaves h alone; h itself does not come or go.
<1>2. ASSUME NEW g \in Handlers, NEW s \in Sessions,
             Create(g, s) \/ (\E o \in Ops : Get(g, o, s)) \/ Delete(g, s)
      PROVE  Kept
  BY <1>1, <1>2 DEF Create, Get, Delete, Begin
<1>3. ASSUME NEW g \in Handlers, pc[g] # "publish",
             \/ Goto(g, "handle") \/ Goto(g, "stream") \/ Goto(g, "attach")
             \/ Goto(g, "respond") \/ Finish(g)
      PROVE  Kept
  BY <1>1, <1>3 DEF Goto, Finish
<1>4. ASSUME NEW g \in Handlers, pc[g] # "publish",
             \/ Dispatch(g) \/ (\E v \in Versions : Initialize(g, v)) \/ Call(g) \/ Refuse(g)
             \/ RespondJSON(g) \/ CheckReady(g) \/ Subscribe(g) \/ StreamEnded(g)
             \/ HangUp(g) \/ TornDown(g)
      PROVE  Kept
  BY <1>3, <1>4 DEF Dispatch, Initialize, Call, Refuse, RespondJSON, CheckReady,
     Subscribe, StreamEnded, HangUp, TornDown, Answer
<1>5. ASSUME NEW g \in Handlers, pc[g] = "publish",
             \/ Dispatch(g) \/ (\E v \in Versions : Initialize(g, v)) \/ Call(g) \/ Refuse(g)
             \/ RespondJSON(g) \/ CheckReady(g) \/ Subscribe(g) \/ StreamEnded(g)
             \/ HangUp(g) \/ TornDown(g)
      PROVE  Kept
  BY <1>5 DEF Dispatch, Initialize, Call, Refuse, RespondJSON, CheckReady,
     Subscribe, StreamEnded, HangUp, TornDown
<1>6. ASSUME NEW g \in Handlers, AttachListen(g) \/ (\E x : AttachResume(g, x))
      PROVE  Kept
  <2>1. pc[g] = "attach" /\ pc' = [pc EXCEPT ![g] = "subscribe"] /\ UNCHANGED sess
    BY <1>6 DEF AttachListen, AttachResume
  <2>2. g # h
    BY <1>1, <2>1
  <2>3. stream'[h] = stream[h]
    BY <1>1, <1>6, <2>2 DEF AttachListen, AttachResume
  <2> QED BY <1>1, <2>1, <2>2, <2>3
<1>7. ASSUME NEW g \in Handlers, OpenPost(g) \/ PublishResponse(g) PROVE Kept
  BY <1>1, <1>7 DEF OpenPost, PublishResponse, Goto
<1>8. ASSUME UNCHANGED reqVars PROVE Kept
  BY <1>8 DEF reqVars
<1> QED BY RequestSteps, <1>2, <1>4, <1>5, <1>6, <1>7, <1>8

\* The next number of a session makes a stream that was not there.
LEMMA FreshIsNew ==
  ASSUME Base, NEW s \in Sessions, nextID' = [nextID EXCEPT ![s] = @ + 1]
  PROVE  /\ Fresh(s) \in StreamIds /\ Fresh(s)[1] = s /\ Fresh(s) \notin Opened
         /\ Opened' = Opened \cup {Fresh(s)}
<1>1. nextID \in [Sessions -> Nat]
  BY DEF Base, TypeOK, StreamTypes
<1>2. /\ Fresh(s) \in StreamIds /\ Fresh(s)[1] = s /\ Fresh(s)[2] = nextID[s] + 1
      /\ nextID[s] \in Nat
  BY <1>1 DEF Fresh, StreamIds
<1>3. Fresh(s) \notin Opened
  BY <1>2 DEF Opened
<1>4. ASSUME NEW x \in StreamIds PROVE x \in Opened' <=> x \in Opened \/ x = Fresh(s)
  <2>1. x = <<x[1], x[2]>> /\ x[1] \in Sessions /\ x[2] \in Nat
    BY DEF StreamIds
  <2>2. CASE x[1] = s
    <3>1. x \in Opened' <=> x[2] <= nextID[s] + 1
      BY <1>1, <2>1, <2>2 DEF Opened
    <3>2. x = Fresh(s) <=> x[2] = nextID[s] + 1
      BY <2>1, <2>2 DEF Fresh
    <3>3. x \in Opened <=> x[2] <= nextID[s]
      BY <2>2 DEF Opened
    <3> QED BY <1>2, <2>1, <3>1, <3>2, <3>3
  <2>3. CASE x[1] # s
    BY <1>1, <1>2, <2>1, <2>3 DEF Opened
  <2> QED BY <2>2, <2>3
<1>5. Opened \subseteq StreamIds /\ Opened' \subseteq StreamIds
  BY DEF Opened
<1> QED BY <1>2, <1>3, <1>4, <1>5

\* A stream that is opened goes into the table of its session.
LEMMA OpenKeepsPlaces ==
  ASSUME Base, StreamPlaces, NEW s \in Sessions,
         nextID' = [nextID EXCEPT ![s] = @ + 1],
         streams' = [streams EXCEPT ![s] = @ \cup {Fresh(s)}],
         listens' \in {listens, listens \cup {Fresh(s)}},
         UNCHANGED <<closed, dying>>
  PROVE  StreamPlaces'
<1>1. streams \in [Sessions -> SUBSET StreamIds]
  BY DEF Base, TypeOK, StreamTypes
<1>2. /\ Fresh(s)[1] = s /\ Fresh(s) \notin Opened /\ Opened' = Opened \cup {Fresh(s)}
  BY FreshIsNew
<1>3. /\ streams'[s] = streams[s] \cup {Fresh(s)}
      /\ \A t \in Sessions \ {s} : streams'[t] = streams[t]
  BY <1>1
<1> HIDE DEF Fresh
<1>4. \A t \in Sessions : streams'[t] \subseteq {x \in Opened' : x[1] = t}
                          /\ streams'[t] \cap closed' = {}
  BY <1>2, <1>3 DEF StreamPlaces
<1>5. \A p \in Actors :
       /\ dying'[p] \subseteq Opened' /\ dying'[p] \cap closed' = {}
       /\ \A t \in Sessions : dying'[p] \cap streams'[t] = {}
       /\ \A q \in Actors \ {p} : dying'[p] \cap dying'[q] = {}
  BY <1>2, <1>3 DEF StreamPlaces
<1>6. \A x \in Opened' : x \in streams'[x[1]] \/ x \in closed' \/ \E p \in Actors : x \in dying'[p]
  <2> TAKE x \in Opened'
  <2>1. CASE x = Fresh(s)
    BY <1>2, <1>3, <2>1
  <2>2. CASE x \in Opened
    BY <1>3, <2>2 DEF StreamPlaces, Opened, StreamIds
  <2> QED BY <1>2, <2>1, <2>2
<1> QED BY <1>2, <1>4, <1>5, <1>6 DEF StreamPlaces

\* A stream that is taken out of its table goes into the hands of who took it.
LEMMA StreamPlacesStep == Base /\ StreamsInv /\ [Next]_vars => StreamPlaces'
<1> SUFFICES ASSUME Base, StreamPlaces, PublishersOwn, [Next]_vars PROVE StreamPlaces'
  BY DEF StreamsInv
<1>1. /\ streams \in [Sessions -> SUBSET StreamIds] /\ dying \in [Actors -> SUBSET StreamIds]
      /\ Handlers \subseteq Actors
  BY DEF Base, TypeOK, StreamTypes, OwnTypes, Actors
<1>2. ASSUME NEW h \in Handlers, OpenPost(h) PROVE StreamPlaces'
  <2>1. sess[h] \in Sessions
    BY <1>2, FreshTypes DEF OpenPost
  <2> QED BY <1>2, <2>1, OpenKeepsPlaces DEF OpenPost, closeVars
<1>3. ASSUME NEW h \in Handlers, AttachListen(h) PROVE StreamPlaces'
  <2>1. sess[h] \in Sessions
    BY <1>3, FreshTypes DEF AttachListen
  <2>2. CASE ListenStreams(sess[h]) = {}
    BY <1>3, <2>1, <2>2, OpenKeepsPlaces DEF AttachListen
  \* The stream that is reopened is in the table: it was not closed.
  <2>3. CASE ListenStreams(sess[h]) # {}
    <3>1. PICK i \in ListenStreams(sess[h]) : closed' = closed \ {<<sess[h], listenIDs[sess[h]][i]>>}
      BY <1>3, <2>3 DEF AttachListen
    <3>2. closed' = closed
      BY <2>1, <3>1 DEF ListenStreams, StreamPlaces
    <3> QED BY <1>3, <2>3, <3>2 DEF AttachListen, streamVars, StreamPlaces, Opened
  <2> QED BY <2>2, <2>3
<1>4. ASSUME NEW p \in Actors, NEW s \in Sessions, NEW X \in SUBSET streams[s],
             dying[p] = {}, UNCHANGED <<nextID, listens, closed>>,
             streams' = [streams EXCEPT ![s] = @ \ X], dying' = [dying EXCEPT ![p] = X]
      PROVE  StreamPlaces'
  <2>1. /\ Opened' = Opened /\ X \subseteq Opened /\ \A x \in X : x[1] = s
        /\ streams'[s] = streams[s] \ X /\ \A t \in Sessions \ {s} : streams'[t] = streams[t]
        /\ dying'[p] = X /\ \A q \in Actors \ {p} : dying'[q] = dying[q]
    BY <1>1, <1>4 DEF StreamPlaces, Opened
  <2>2. \A t \in Sessions : streams'[t] \subseteq streams[t] /\ streams'[t] \cap X = {}
    BY <1>4, <2>1 DEF StreamPlaces
  <2>3. \A q \in Actors :
          /\ dying'[q] \subseteq Opened /\ dying'[q] \cap closed = {}
          /\ \A t \in Sessions : dying'[q] \cap streams'[t] = {}
          /\ \A r \in Actors \ {q} : dying'[q] \cap dying'[r] = {}
    BY <1>4, <2>1, <2>2 DEF StreamPlaces
  <2>4. \A x \in Opened : x \in streams'[x[1]] \/ x \in closed \/ \E q \in Actors : x \in dying'[q]
    <3> TAKE x \in Opened
    <3>1. x[1] \in Sessions
      BY DEF Opened, StreamIds
    <3>2. CASE x \in X
      BY <2>1, <3>2
    <3>3. CASE x \notin X /\ x \in streams[x[1]]
      BY <2>1, <3>1, <3>3
    <3>4. CASE x \in closed
      BY <3>4
    <3>5. CASE \E q \in Actors : x \in dying[q]
      BY <1>4, <2>1, <3>5
    <3> QED BY <3>2, <3>3, <3>4, <3>5 DEF StreamPlaces
  <2> QED BY <1>4, <2>1, <2>2, <2>3, <2>4 DEF StreamPlaces
<1>5. ASSUME NEW h \in Handlers, PublishResponse(h) PROVE StreamPlaces'
  <2>1. sess[h] \in Sessions /\ dying[h] = {}
    BY <1>5, FreshTypes DEF PublishResponse, Base, QuietOutside, Quiet
  <2>2. streams' = [streams EXCEPT ![sess[h]] = @ \ (streams[sess[h]] \cap {stream[h]})]
    BY <1>1, <1>5, <2>1 DEF PublishResponse
  <2> DEFINE X == streams[sess[h]] \cap {stream[h]}
  <2>3. /\ UNCHANGED <<nextID, listens, closed>> /\ dying' = [dying EXCEPT ![h] = X]
        /\ X \in SUBSET streams[sess[h]] /\ h \in Actors
    BY <1>1, <1>5 DEF PublishResponse
  <2> HIDE DEF X
  <2>4. streams' = [streams EXCEPT ![sess[h]] = @ \ X]
    BY <2>2 DEF X
  <2> QED BY <1>4, <2>1, <2>3, <2>4
<1>6. ASSUME NEW p \in Actors, NEW s \in Sessions, CloseAll(p, s) PROVE StreamPlaces'
  <2>1. streams' = [streams EXCEPT ![s] = @ \ streams[s]]
    BY <1>1, <1>6 DEF CloseAll
  <2> QED BY <1>1, <1>4, <1>6, <2>1 DEF CloseAll
<1>7. ASSUME NEW p \in Actors, NEW x \in dying[p], CloseStream(p, x) PROVE StreamPlaces'
  <2>1. /\ UNCHANGED <<streams, listens>> /\ closed' = closed \cup {x} /\ Opened' = Opened
        /\ dying'[p] = dying[p] \ {x} /\ \A q \in Actors \ {p} : dying'[q] = dying[q]
    BY <1>1, <1>7 DEF CloseStream, streamVars, Opened
  <2> QED BY <1>7, <2>1 DEF StreamPlaces
<1>8. CASE UNCHANGED <<streamVars, dying, closed>>
  BY <1>8 DEF streamVars, StreamPlaces, Opened
<1> QED BY StreamSteps, <1>2, <1>3, <1>5, <1>6, <1>7, <1>8

\* The stream a POST opens is new, so no other POST has it and it is no listen stream.
LEMMA PublishersOwnStep == Base /\ StreamsInv /\ [Next]_vars => PublishersOwn'
<1> SUFFICES ASSUME Base, StreamPlaces, PublishersOwn, [Next]_vars, NEW h \in Handlers,
                    pc'[h] = "publish"
             PROVE  /\ stream'[h] \in Opened' \ listens' /\ stream'[h][1] = sess'[h]
                    /\ \A g \in Handlers \ {h} : pc'[g] = "publish" => stream'[g] # stream'[h]
  BY DEF StreamsInv, PublishersOwn
<1>1. /\ pc \in [Handlers -> Steps] /\ sess \in [Handlers -> Sessions \cup {NoSession}]
      /\ stream \in [Handlers -> StreamIds \cup {NoStream}]
  BY DEF Base, TypeOK, RequestTypes
\* Streams are never unopened, and listen streams are new ones.
<1>2. Opened \subseteq Opened' /\ listens' \cap Opened \subseteq listens
  <2>1. ASSUME NEW g \in Handlers, OpenPost(g) \/ AttachListen(g)
        PROVE  Opened \subseteq Opened' /\ listens' \cap Opened \subseteq listens
    <3>1. sess[g] \in Sessions
      BY <2>1, FreshTypes DEF OpenPost, AttachListen
    <3>2. CASE nextID' = [nextID EXCEPT ![sess[g]] = @ + 1]
      BY <2>1, <3>1, <3>2, FreshIsNew DEF OpenPost, AttachListen, streamVars
    <3>3. CASE UNCHANGED streamVars
      BY <3>3 DEF streamVars, Opened
    <3> QED BY <2>1, <3>2, <3>3 DEF OpenPost, AttachListen
  <2>2. ASSUME UNCHANGED <<nextID, listens>>
        PROVE  Opened \subseteq Opened' /\ listens' \cap Opened \subseteq listens
    BY <2>2 DEF Opened
  <2> QED BY StreamSteps, <2>1, <2>2 DEF PublishResponse, CloseAll, CloseStream, streamVars
<1>3. CASE OpenPost(h)
  <2>1. sess[h] \in Sessions /\ sess'[h] = sess[h] /\ stream'[h] = Fresh(sess[h])
    BY <1>1, <1>3, FreshTypes DEF OpenPost
  <2>2. /\ Fresh(sess[h]) \in Opened' /\ Fresh(sess[h]) \notin Opened
        /\ Fresh(sess[h])[1] = sess[h]
    BY <1>3, <2>1, FreshIsNew DEF OpenPost
  <2>3. listens' = listens /\ listens \subseteq Opened
    BY <1>3 DEF OpenPost, StreamPlaces
  <2>4. ASSUME NEW g \in Handlers \ {h}, pc'[g] = "publish" PROVE stream'[g] \in Opened
    BY <1>1, <1>3, <2>4 DEF OpenPost, PublishersOwn
  <2> QED BY <2>1, <2>2, <2>3, <2>4
<1>4. CASE ~OpenPost(h)
  <2>1. /\ pc[h] = "publish" /\ stream'[h] = stream[h] /\ sess'[h] = sess[h]
    <3>1. ~PublishResponse(h)
      BY <1>1 DEF PublishResponse, Goto
    <3> QED BY <1>4, <3>1, PublishSteps
  <2>2. stream[h] \in Opened \ listens /\ stream[h][1] = sess[h]
    BY <2>1 DEF PublishersOwn
  <2>3. ASSUME NEW g \in Handlers \ {h}, pc'[g] = "publish" PROVE stream'[g] # stream[h]
    <3>1. CASE OpenPost(g)
      <4>1. sess[g] \in Sessions /\ stream'[g] = Fresh(sess[g])
        BY <1>1, <3>1, FreshTypes DEF OpenPost
      <4>2. Fresh(sess[g]) \notin Opened
        BY <3>1, <4>1, FreshIsNew DEF OpenPost
      <4> QED BY <2>2, <4>1, <4>2
    <3>2. CASE ~OpenPost(g)
      <4>1. ~PublishResponse(g)
        BY <1>1, <2>3 DEF PublishResponse, Goto
      <4>2. pc[g] = "publish" /\ stream'[g] = stream[g]
        BY <2>3, <3>2, <4>1, PublishSteps
      <4> QED BY <2>1, <4>2 DEF PublishersOwn
    <3> QED BY <3>1, <3>2
  <2> QED BY <1>2, <2>1, <2>2, <2>3
<1> QED BY <1>3, <1>4

LEMMA StreamsHold == Spec => []StreamsInv
<1>1. Init => StreamsInv
  <2> SUFFICES ASSUME Init PROVE StreamsInv
    OBVIOUS
  <2>1. Opened = {}
    BY DEF Init, Opened, StreamIds
  <2>2. StreamPlaces
    BY <2>1 DEF Init, StreamPlaces
  <2>3. PublishersOwn
    BY DEF Init, PublishersOwn
  <2> QED BY <2>2, <2>3 DEF StreamsInv
<1>2. Base /\ StreamsInv /\ [Next]_vars => StreamsInv'
  BY StreamPlacesStep, PublishersOwnStep DEF StreamsInv
<1> QED BY BaseHolds, <1>1, <1>2, PTL DEF Spec

LEMMA StreamPlacesAccount == Base /\ StreamPlaces => StreamAccounted
<1> SUFFICES ASSUME Base, StreamPlaces, NEW s \in Sessions, NEW n \in 1..nextID[s]
             PROVE  LET x == <<s, n>>
                        holders == {p \in Actors : x \in dying[p]}
                    IN  \/ x \in streams[s] /\ x \notin closed /\ holders = {}
                        \/ x \notin streams[s] /\ x \notin closed /\ Cardinality(holders) = 1
                        \/ x \notin streams[s] /\ x \in closed /\ holders = {}
  BY DEF StreamAccounted
<1> DEFINE x == <<s, n>>
           holders == {p \in Actors : x \in dying[p]}
<1>1. x \in Opened /\ x[1] = s
  <2>1. nextID[s] \in Nat
    BY DEF Base, TypeOK, StreamTypes
  <2> QED BY <2>1 DEF Opened, StreamIds
<1> HIDE DEF x
<1>2. CASE x \in streams[s]
  <2>1. x \notin closed /\ holders = {}
    BY <1>2 DEF StreamPlaces
  <2> QED BY <1>2, <2>1 DEF x
<1>3. CASE x \in closed
  <2>1. x \notin streams[s] /\ holders = {}
    BY <1>3 DEF StreamPlaces
  <2> QED BY <1>3, <2>1 DEF x
<1>4. CASE x \notin streams[s] /\ x \notin closed
  <2>1. PICK p \in Actors : x \in dying[p]
    BY <1>1, <1>4 DEF StreamPlaces
  <2>2. holders = {p}
    BY <2>1 DEF StreamPlaces
  <2> QED BY <1>4, <2>2, FS_Singleton DEF x
<1> QED BY <1>2, <1>3, <1>4 DEF x

\* Every stream that was opened is in the table of its session, or has been taken
\* out by exactly one goroutine, which has still to close it, or is closed.
THEOREM EveryStreamAccounted == Spec => []StreamAccounted
BY BaseHolds, StreamsHold, StreamPlacesAccount, PTL DEF StreamsInv

-----------------------------------------------------------------------------
(* Listen streams and POST streams *)

LEMMA OneListenStep == Base /\ StreamsInv /\ OneListenStream /\ [Next]_vars => OneListenStream'
<1> SUFFICES ASSUME Base, StreamPlaces, PublishersOwn, OneListenStream, [Next]_vars,
                    NEW s \in Sessions
             PROVE  /\ Len(listenIDs'[s]) <= 1
                    /\ {<<s, listenIDs'[s][i]>> : i \in DOMAIN listenIDs'[s]} =
                         streams'[s] \cap listens'
  BY DEF StreamsInv, OneListenStream
<1> DEFINE Fine == /\ Len(listenIDs'[s]) <= 1
                   /\ {<<s, listenIDs'[s][i]>> : i \in DOMAIN listenIDs'[s]} =
                        streams'[s] \cap listens'
<1>1. /\ streams \in [Sessions -> SUBSET StreamIds] /\ listenIDs \in [Sessions -> Seq(Numbers)]
      /\ nextID \in [Sessions -> Nat]
      /\ Len(listenIDs[s]) <= 1
      /\ {<<s, listenIDs[s][i]>> : i \in DOMAIN listenIDs[s]} = streams[s] \cap listens
  BY DEF Base, TypeOK, StreamTypes, OneListenStream
<1>2. ASSUME UNCHANGED listenIDs, streams'[s] \cap listens' = streams[s] \cap listens PROVE Fine
  BY <1>1, <1>2
<1>3. ASSUME NEW h \in Handlers, OpenPost(h) PROVE Fine
  <2>1. sess[h] \in Sessions /\ Fresh(sess[h]) \notin Opened
    BY <1>3, FreshTypes, FreshIsNew DEF OpenPost
  <2>2. Fresh(sess[h]) \notin listens
    BY <2>1 DEF StreamPlaces
  <2> QED BY <1>1, <1>2, <1>3, <2>1, <2>2 DEF OpenPost
<1>4. ASSUME NEW h \in Handlers, PublishResponse(h) PROVE Fine
  <2>1. stream[h] \notin listens
    BY <1>4 DEF PublishResponse, PublishersOwn
  <2> QED BY <1>1, <1>2, <1>4, <2>1 DEF PublishResponse
<1>5. ASSUME NEW h \in Handlers, AttachListen(h) PROVE Fine
  <2>1. /\ sess[h] \in Sessions /\ Fresh(sess[h])[1] = sess[h]
    BY <1>5, FreshTypes DEF AttachListen, Fresh
  <2>2. CASE ListenStreams(sess[h]) # {}
    BY <1>2, <1>5, <2>2 DEF AttachListen, streamVars
  <2>3. CASE ListenStreams(sess[h]) = {} /\ sess[h] = s
    <3>1. listenIDs[s] = <<>>
      <4>1. \A i \in DOMAIN listenIDs[s] : <<s, listenIDs[s][i]>> \in streams[s]
        BY <1>1
      <4>2. DOMAIN listenIDs[s] = {}
        BY <2>3, <4>1 DEF ListenStreams
      <4>3. listenIDs[s] \in Seq(Numbers)
        BY <1>1
      <4>4. Len(listenIDs[s]) \in Nat /\ DOMAIN listenIDs[s] = 1..Len(listenIDs[s])
        BY <4>3, LenProperties
      <4>5. Len(listenIDs[s]) = 0
        <5>1. 1 \notin 1..Len(listenIDs[s])
          BY <4>2, <4>4
        <5> QED BY <4>4, <5>1
      <4> QED BY <4>3, <4>5, EmptySeq
    <3>2. /\ listenIDs'[s] = Append(<<>>, nextID[s] + 1)
          /\ streams'[s] = streams[s] \cup {Fresh(s)} /\ listens' = listens \cup {Fresh(s)}
      BY <1>1, <1>5, <2>3, <3>1 DEF AttachListen
    <3>3. streams[s] \cap listens = {}
      BY <1>1, <3>1
    <3>4. /\ Len(listenIDs'[s]) = 1 /\ DOMAIN listenIDs'[s] = {1}
          /\ listenIDs'[s][1] = nextID[s] + 1
      BY <1>1, <3>2
    <3>5. Fresh(s) = <<s, nextID[s] + 1>> /\ Fresh(s) \notin listens
      <4>1. Fresh(s) \notin Opened
        BY <1>5, <2>3, FreshIsNew DEF AttachListen
      <4> QED BY <4>1 DEF Fresh, StreamPlaces
    <3> QED BY <3>2, <3>3, <3>4, <3>5
  <2>4. CASE ListenStreams(sess[h]) = {} /\ sess[h] # s
    <3>1. /\ listenIDs'[s] = listenIDs[s] /\ streams'[s] = streams[s]
          /\ listens' = listens \cup {Fresh(sess[h])}
      BY <1>1, <1>5, <2>4 DEF AttachListen
    <3>2. Fresh(sess[h]) \notin streams[s]
      BY <2>1, <2>4 DEF StreamPlaces
    <3> QED BY <1>1, <3>1, <3>2
  <2> QED BY <2>2, <2>3, <2>4
<1>6. ASSUME NEW p \in Actors, NEW t \in Sessions, CloseAll(p, t) PROVE Fine
  <2>1. CASE t = s
    <3>1. listenIDs'[s] = <<>> /\ streams'[s] = {}
      BY <1>1, <1>6, <2>1 DEF CloseAll
    <3> QED BY <3>1
  <2>2. CASE t # s
    <3>1. listenIDs'[s] = listenIDs[s] /\ streams'[s] = streams[s] /\ listens' = listens
      BY <1>1, <1>6, <2>2 DEF CloseAll
    <3> QED BY <1>1, <3>1
  <2> QED BY <2>1, <2>2
<1>7. CASE UNCHANGED streamVars
  BY <1>2, <1>7 DEF streamVars
<1> QED BY StreamSteps, <1>3, <1>4, <1>5, <1>6, <1>7 DEF CloseStream

\* A session has at most one listen stream, and listenIDs is exactly the list of
\* those in its table.
THEOREM ListenStreamIsShared == Spec => []OneListenStream
<1>1. Init => OneListenStream
  BY DEF Init, OneListenStream
<1> QED BY BaseHolds, StreamsHold, <1>1, OneListenStep, PTL DEF Spec

LEMMA PostStreamsStep == Base /\ StreamsInv /\ PostStreamsOwned /\ [Next]_vars => PostStreamsOwned'
<1> SUFFICES ASSUME Base, StreamPlaces, PublishersOwn, PostStreamsOwned, [Next]_vars,
                    NEW s \in Sessions, NEW x \in streams'[s] \ listens'
             PROVE  \E h \in Handlers : pc'[h] = "publish" /\ stream'[h] = x
  BY DEF StreamsInv, PostStreamsOwned
<1>1. /\ streams \in [Sessions -> SUBSET StreamIds]
      /\ pc \in [Handlers -> Steps] /\ stream \in [Handlers -> StreamIds \cup {NoStream}]
  BY DEF Base, TypeOK, StreamTypes, RequestTypes
<1>2. CASE x \in streams[s] \ listens
  <2>1. PICK h \in Handlers : pc[h] = "publish" /\ stream[h] = x
    BY <1>2 DEF PostStreamsOwned
  <2>2. ~OpenPost(h)
    BY <2>1 DEF OpenPost
  <2>3. ~PublishResponse(h)
    <3>1. SUFFICES ASSUME PublishResponse(h) PROVE FALSE
      OBVIOUS
    <3>2. sess[h] = s
      BY <1>2, <2>1 DEF PublishersOwn, StreamPlaces
    <3> QED BY <1>1, <2>1, <3>1, <3>2 DEF PublishResponse
  <2> QED BY <2>1, <2>2, <2>3, PublishSteps
\* A stream that comes into the table is opened by a POST, or is a listen stream.
<1>3. CASE x \notin streams[s] \ listens
  <2>1. ASSUME NEW h \in Handlers, OpenPost(h)
        PROVE  pc'[h] = "publish" /\ stream'[h] = x
    <3>1. sess[h] \in Sessions
      BY <2>1, FreshTypes DEF OpenPost
    <3>2. x = Fresh(sess[h])
      BY <1>1, <1>3, <2>1, <3>1 DEF OpenPost
    <3> QED BY <1>1, <2>1, <3>2 DEF OpenPost
  <2>2. ASSUME NEW h \in Handlers, AttachListen(h) PROVE FALSE
    <3>1. sess[h] \in Sessions
      BY <2>2, FreshTypes DEF AttachListen
    <3> QED BY <1>1, <1>3, <2>2, <3>1 DEF AttachListen, streamVars
  <2>3. ASSUME NEW h \in Handlers, PublishResponse(h) PROVE FALSE
    <3>1. sess[h] \in Sessions
      BY <2>3, FreshTypes DEF PublishResponse
    <3> QED BY <1>1, <1>3, <2>3, <3>1 DEF PublishResponse
  <2>4. ASSUME NEW p \in Actors, NEW t \in Sessions, CloseAll(p, t) PROVE FALSE
    BY <1>1, <1>3, <2>4 DEF CloseAll
  <2> QED BY StreamSteps, <1>3, <2>1, <2>2, <2>3, <2>4 DEF CloseStream, streamVars
<1> QED BY <1>2, <1>3

\* A POST stream is in a table only while the POST that opened it is running.
THEOREM PostStreamsEnd == Spec => []PostStreamsOwned
<1>1. Init => PostStreamsOwned
  BY DEF Init, PostStreamsOwned
<1> QED BY BaseHolds, StreamsHold, <1>1, PostStreamsStep, PTL DEF Spec

LEMMA LostStep ==
  Base /\ SessionPlaces /\ StreamsInv /\ ResponseLostOnlyOnTeardown /\ [Next]_vars
    => ResponseLostOnlyOnTeardown'
<1> SUFFICES ASSUME Base, SessionPlaces, StreamPlaces, PublishersOwn,
                    ResponseLostOnlyOnTeardown, [Next]_vars, NEW h \in Handlers,
                    pc'[h] = "publish", stream'[h] \notin streams'[sess'[h]]
             PROVE  sess'[h] \notin table'
  BY DEF StreamsInv, ResponseLostOnlyOnTeardown
<1>1. /\ streams \in [Sessions -> SUBSET StreamIds] /\ table \subseteq made
      /\ pc \in [Handlers -> Steps] /\ stream \in [Handlers -> StreamIds \cup {NoStream}]
  BY DEF Base, TypeOK, StreamTypes, RequestTypes, Resolved
<1>2. ~OpenPost(h)
  <2>1. SUFFICES ASSUME OpenPost(h) PROVE FALSE
    OBVIOUS
  <2>2. sess[h] \in Sessions
    BY <2>1, FreshTypes DEF OpenPost
  <2> QED BY <1>1, <2>1, <2>2 DEF OpenPost
<1>3. pc[h] = "publish" /\ stream'[h] = stream[h] /\ sess'[h] = sess[h]
  <2>1. ~PublishResponse(h)
    BY <1>1 DEF PublishResponse, Goto
  <2> QED BY <1>2, <2>1, PublishSteps
<1>4. sess[h] \in made /\ sess[h] \in Sessions
  BY <1>3, FreshTypes
\* No session that exists comes back into the table.
<1>5. sess[h] \notin table => sess[h] \notin table'
  BY <1>4, SessionSteps DEF Create, Delete, CloseAll, ReaperSweep, ManagerClose, sessVars
<1>6. CASE stream[h] \notin streams[sess[h]]
  BY <1>3, <1>5, <1>6 DEF ResponseLostOnlyOnTeardown
\* The stream has been taken out: not by another POST, so by closeAll.
<1>7. CASE stream[h] \in streams[sess[h]]
  <2>1. ASSUME NEW g \in Handlers, OpenPost(g) \/ AttachListen(g) PROVE FALSE
    <3>1. sess[g] \in Sessions
      BY <2>1, FreshTypes DEF OpenPost, AttachListen
    <3> QED BY <1>1, <1>3, <1>4, <1>7, <2>1, <3>1 DEF OpenPost, AttachListen, streamVars
  <2>2. ASSUME NEW g \in Handlers, PublishResponse(g) PROVE FALSE
    <3>1. sess[g] \in Sessions /\ g # h
      BY <1>1, <1>3, <2>2, FreshTypes DEF PublishResponse, Goto
    <3>2. stream[g] # stream[h]
      BY <1>3, <2>2, <3>1 DEF PublishResponse, PublishersOwn
    <3> QED BY <1>1, <1>3, <1>4, <1>7, <2>2, <3>1, <3>2 DEF PublishResponse
  <2>3. ASSUME NEW p \in Actors, NEW s \in Sessions, CloseAll(p, s)
        PROVE  sess[h] \notin table
    <3>1. s = sess[h]
      BY <1>1, <1>3, <1>4, <1>7, <2>3 DEF CloseAll
    <3> QED BY <2>3, <3>1 DEF CloseAll, SessionPlaces
  <2> QED BY StreamSteps, <1>3, <1>5, <1>7, <2>1, <2>2, <2>3 DEF CloseStream, streamVars
<1> QED BY <1>6, <1>7

\* The response of a POST is lost to a closed stream only if its session has ended.
THEOREM ResponsesLostByTeardown == Spec => []ResponseLostOnlyOnTeardown
<1>1. Init => SessionPlaces /\ ResponseLostOnlyOnTeardown
  BY DEF Init, SessionPlaces, ResponseLostOnlyOnTeardown
<1> QED BY BaseHolds, StreamsHold, SessionPlacesStep, <1>1, LostStep, PTL DEF Spec
=============================================================================
