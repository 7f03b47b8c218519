----------------------------- MODULE ListenStream -----------------------------
(***************************************************************************)
(* One messageStream of mcpruntime (the listen stream of one session), the *)
(* handleGET goroutines that replay from it and subscribe to it, the       *)
(* notification sender that publishes on it, and the clients at the other  *)
(* end of the connections, which come back with Last-Event-ID.             *)
(*                                                                         *)
(* An event is its sequence number: the payload is stored with the number  *)
(* and never looked at.  Each critical section under messageStream.mu is   *)
(* one action; between two of them every other goroutine may run.          *)
(***************************************************************************)
EXTENDS Naturals, Sequences

CONSTANTS
  Clients,          \* MCP clients of the session
  Handlers,         \* goroutines that can run handleGET at the same time
  NoHandler,        \* "not connected"
  MaxBuf,           \* messageStream.maxBuf
  SubCap,           \* capacity of a subscriber channel (32 in handleGET)
  MaxNotifications, \* bound: notifications are sent while seq is below it
  ReconnectModes    \* how a client that holds an event id opens its next GET

ASSUME MaxBufAssumption == MaxBuf \in Nat \ {0}
ASSUME SubCapAssumption == SubCap \in Nat \ {0}
ASSUME HandlersAssumption == NoHandler \notin Handlers
ASSUME BoundAssumption == MaxNotifications \in Nat
ASSUME ModesAssumption == ReconnectModes \subseteq {"resume", "fresh", "fallback"}

VARIABLES
  seq,       \* messageStream.seq: number of the newest event
  buffer,    \* messageStream.buffer, oldest first
  closed,    \* messageStream.closed
  listed,    \* the stream is in sessionStreams.streams and listenIDs
  subs,      \* handlers whose channel is in messageStream.subs
  chan,      \* chan[h]: what the channel of handler h holds
  chanOpen,  \* chanOpen[h]: the channel of h has been made and not closed
  sender,    \* broadcastNotification: "idle", or "target" once it has the stream
  pc,        \* pc[h]: where handleGET is
  lastId,    \* lastId[h]: Last-Event-ID h resumes this stream from, 0 for none
  pending,   \* pending[h]: events h holds outside its channel (replay, prime)
  written,   \* written[h]: last event h wrote (the client's cursor before that)
  joined,    \* joined[h]: seq when h subscribed (history, for properties)
  conn,      \* conn[k]: the handler whose response client k is reading
  cursor     \* cursor[k]: last event id client k received, 0 for none

streamVars == <<seq, buffer, closed, listed>>
subVars    == <<subs, chan, chanOpen>>
getVars    == <<pc, lastId, pending, written, joined>>
clientVars == <<conn, cursor>>
vars == <<streamVars, subVars, sender, getVars, clientVars>>

Steps == {"idle", "resume", "replay", "checkPrime", "publishPrime", "writePrime",
          "subscribe", "stream", "leave"}

-----------------------------------------------------------------------------
(* messageStream *)

\* MUTANT: the trim keeps the oldest events.
TrimmedAtTheEnd(b) ==
  IF Len(b) > MaxBuf THEN SubSeq(b, 1, MaxBuf) ELSE b

\* The last MaxBuf events of b.
Trimmed(b) ==
  IF Len(b) > MaxBuf THEN SubSeq(b, Len(b) - MaxBuf + 1, Len(b)) ELSE b

\* MUTANT: one slot of the channel is never used.
FanOutOneShort(e) ==
  [h \in Handlers |-> IF h \in subs /\ Len(chan[h]) < SubCap - 1
                        THEN Append(chan[h], e) ELSE chan[h]]

\* Fan-out of event e: a full channel is skipped, never waited for.
FanOut(e) ==
  [h \in Handlers |-> IF h \in subs /\ Len(chan[h]) < SubCap
                        THEN Append(chan[h], e) ELSE chan[h]]

\* publish on an open stream.
Publish ==
  /\ seq' = seq + 1
  /\ buffer' = Trimmed(Append(buffer, seq + 1))
  /\ chan' = FanOut(seq + 1)

Retained == {buffer[i] : i \in DOMAIN buffer}

\* eventsAfter: the buffered events numbered above last.  The buffer is in
\* ascending order (BufferWindow), so they are its tail from the first of them.
FirstAfter(last) ==
  CHOOSE i \in 1..(Len(buffer) + 1) :
    /\ \A j \in 1..(i - 1) : buffer[j] <= last
    /\ i <= Len(buffer) => buffer[i] > last

\* MUTANT: the event named by Last-Event-ID is replayed too.
EventsFrom(last) ==
  SubSeq(buffer, IF FirstAfter(last) > 1 THEN FirstAfter(last) - 1 ELSE 1, Len(buffer))

EventsAfter(last) == SubSeq(buffer, FirstAfter(last), Len(buffer))

\* broadcastNotification finds the listen stream under sessionStreams.mu ...
PickTarget ==
  /\ sender = "idle" /\ listed
  /\ seq < MaxNotifications
  /\ sender' = "target"
  /\ UNCHANGED <<streamVars, subVars, getVars, clientVars>>

\* ... and publishes on it after releasing that lock.
PublishNotification ==
  /\ sender = "target"
  /\ sender' = "idle"
  /\ \/ closed /\ UNCHANGED <<seq, buffer, chan>>
     \/ ~closed /\ Publish
  /\ UNCHANGED <<closed, listed, subs, chanOpen, getVars, clientVars>>

\* closeStream and closeAll take the stream out of the table first ...
Unlist ==
  /\ listed
  /\ listed' = FALSE
  /\ UNCHANGED <<seq, buffer, closed, subVars, sender, getVars, clientVars>>

\* MUTANT: the channels are closed but stay subscribed.
CloseKeepsSubs ==
  /\ ~listed /\ ~closed
  /\ closed' = TRUE
  /\ chanOpen' = [h \in Handlers |-> chanOpen[h] /\ h \notin subs]
  /\ UNCHANGED <<seq, buffer, listed, subs, chan, sender, getVars, clientVars>>

\* ... and close it after releasing sessionStreams.mu.
Close ==
  /\ ~listed /\ ~closed
  /\ closed' = TRUE
  /\ subs' = {}
  /\ chanOpen' = [h \in Handlers |-> chanOpen[h] /\ h \notin subs]
  /\ UNCHANGED <<seq, buffer, listed, chan, sender, getVars, clientVars>>

-----------------------------------------------------------------------------
(* handleGET, from the lookup of the stream to the end of the response *)

\* MUTANT: openStream finds the stream through a stale entry of listenIDs.
ConnectStale(k, h, mode) ==
  /\ pc[h] = "idle" /\ conn[k] = NoHandler
  /\ mode = "fresh"
  /\ conn' = [conn EXCEPT ![k] = h]
  /\ written' = [written EXCEPT ![h] = cursor[k]]
  /\ lastId' = [lastId EXCEPT ![h] = 0]
  /\ pc' = [pc EXCEPT ![h] = "checkPrime"]
  /\ closed' = FALSE
  /\ UNCHANGED <<seq, buffer, listed, subVars, sender, pending, joined, cursor>>

\* The stream that the GET of client k, served by h, gets hold of.
\*   resume:   Last-Event-ID names this stream, and getStream finds it
\*   fresh:    no Last-Event-ID: openStream("listen") reuses the stream
\*   fallback: Last-Event-ID names a stream that is gone: openStream("listen")
\* openStream clears closed on the stream it reuses.
Connect(k, h, mode) ==
  /\ pc[h] = "idle" /\ conn[k] = NoHandler /\ listed
  /\ IF cursor[k] = 0 THEN mode = "fresh" ELSE mode \in ReconnectModes
  /\ conn' = [conn EXCEPT ![k] = h]
  /\ written' = [written EXCEPT ![h] = cursor[k]]
  /\ lastId' = [lastId EXCEPT ![h] = IF mode = "resume" THEN cursor[k] ELSE 0]
  /\ pc' = [pc EXCEPT ![h] = CASE mode = "resume"   -> "resume"
                               [] mode = "fresh"    -> "checkPrime"
                               [] mode = "fallback" -> "subscribe"]
  /\ closed' = (closed /\ mode = "resume")
  /\ UNCHANGED <<seq, buffer, listed, subVars, sender, pending, joined, cursor>>

\* eventsAfter(Last-Event-ID), under the lock of the stream.
ReadReplay(h) ==
  /\ pc[h] = "resume"
  /\ pc' = [pc EXCEPT ![h] = "replay"]
  /\ pending' = [pending EXCEPT ![h] = EventsAfter(lastId[h])]
  /\ UNCHANGED <<streamVars, subVars, sender, lastId, written, joined, clientVars>>

\* h writes event e; it reaches the client if the client still reads from h.
Write(h, e) ==
  /\ written' = [written EXCEPT ![h] = e]
  /\ cursor' = [k \in Clients |-> IF conn[k] = h THEN e ELSE cursor[k]]

WriteReplay(h) ==
  /\ pc[h] = "replay" /\ pending[h] # <<>>
  /\ Write(h, Head(pending[h]))
  /\ pending' = [pending EXCEPT ![h] = Tail(@)]
  /\ UNCHANGED <<streamVars, subVars, sender, lastId, pc, joined, conn>>

ReplayDone(h) ==
  /\ pc[h] = "replay" /\ pending[h] = <<>>
  /\ pc' = [pc EXCEPT ![h] = "subscribe"]
  /\ UNCHANGED <<streamVars, subVars, sender, lastId, pending, written, joined, clientVars>>

CheckPrime(h) ==
  /\ pc[h] = "checkPrime"
  /\ pc' = [pc EXCEPT ![h] = IF buffer = <<>> THEN "publishPrime" ELSE "subscribe"]
  /\ UNCHANGED <<streamVars, subVars, sender, lastId, pending, written, joined, clientVars>>

PublishPrime(h) ==
  /\ pc[h] = "publishPrime"
  /\ pc' = [pc EXCEPT ![h] = "writePrime"]
  /\ \/ closed /\ UNCHANGED <<seq, buffer, chan, pending>>
     \/ /\ ~closed
        /\ Publish
        /\ pending' = [pending EXCEPT ![h] = <<seq + 1>>]
  /\ UNCHANGED <<closed, listed, subs, chanOpen, sender, lastId, written, joined, clientVars>>

\* With the stream closed the prime has no id and moves no cursor.  A write
\* error is ignored here.
WritePrime(h) ==
  /\ pc[h] = "writePrime"
  /\ pc' = [pc EXCEPT ![h] = "subscribe"]
  /\ pending' = [pending EXCEPT ![h] = <<>>]
  /\ \/ pending[h] = <<>> /\ UNCHANGED <<written, cursor>>
     \/ pending[h] # <<>> /\ Write(h, Head(pending[h]))
  /\ UNCHANGED <<streamVars, subVars, sender, lastId, joined, conn>>

\* MUTANT: subscribe does not look at closed.
SubscribeUnchecked(h) ==
  /\ pc[h] = "subscribe"
  /\ pc' = [pc EXCEPT ![h] = "stream"]
  /\ joined' = [joined EXCEPT ![h] = seq]
  /\ chan' = [chan EXCEPT ![h] = <<>>]
  /\ chanOpen' = [chanOpen EXCEPT ![h] = TRUE]
  /\ subs' = subs \cup {h}
  /\ UNCHANGED <<streamVars, sender, lastId, pending, written, clientVars>>

\* MUTANT: a new subscriber is handed the buffer as well.
SubscribeWithBuffer(h) ==
  /\ pc[h] = "subscribe"
  /\ pc' = [pc EXCEPT ![h] = "stream"]
  /\ joined' = [joined EXCEPT ![h] = seq]
  /\ chan' = [chan EXCEPT ![h] = buffer]
  /\ chanOpen' = [chanOpen EXCEPT ![h] = ~closed]
  /\ subs' = IF closed THEN subs ELSE subs \cup {h}
  /\ UNCHANGED <<streamVars, sender, lastId, pending, written, clientVars>>

\* subscribe: on a closed stream the new channel comes back closed.
Subscribe(h) ==
  /\ pc[h] = "subscribe"
  /\ pc' = [pc EXCEPT ![h] = "stream"]
  /\ joined' = [joined EXCEPT ![h] = seq]
  /\ chan' = [chan EXCEPT ![h] = <<>>]
  /\ chanOpen' = [chanOpen EXCEPT ![h] = ~closed]
  /\ subs' = IF closed THEN subs ELSE subs \cup {h}
  /\ UNCHANGED <<streamVars, sender, lastId, pending, written, clientVars>>

Receive(h) ==
  /\ pc[h] = "stream" /\ chan[h] # <<>>
  /\ Write(h, Head(chan[h]))
  /\ chan' = [chan EXCEPT ![h] = Tail(@)]
  /\ UNCHANGED <<streamVars, subs, chanOpen, sender, lastId, pc, pending, joined, conn>>

\* The channel is closed and drained: the loop ends.
StreamEnded(h) ==
  /\ pc[h] = "stream" /\ chan[h] = <<>> /\ ~chanOpen[h]
  /\ pc' = [pc EXCEPT ![h] = "leave"]
  /\ UNCHANGED <<streamVars, subVars, sender, lastId, pending, written, joined, clientVars>>

\* MUTANT: the loop does not select on the request context.
HangUpOnWriteOnly(h) ==
  /\ pc[h] \in {"replay", "stream"}
  /\ pending[h] # <<>>
  /\ \A k \in Clients : conn[k] # h
  /\ pc' = [pc EXCEPT ![h] = "leave"]
  /\ pending' = [pending EXCEPT ![h] = <<>>]
  /\ UNCHANGED <<streamVars, subVars, sender, lastId, written, joined, clientVars>>

\* The request context is cancelled, or a write fails, once the client is gone.
HangUp(h) ==
  /\ pc[h] \in {"replay", "stream"}
  /\ pc[h] = "replay" => pending[h] # <<>>
  /\ \A k \in Clients : conn[k] # h
  /\ pc' = [pc EXCEPT ![h] = "leave"]
  /\ pending' = [pending EXCEPT ![h] = <<>>]
  /\ UNCHANGED <<streamVars, subVars, sender, lastId, written, joined, clientVars>>

\* The deferred unsubscribe, if h subscribed, and the end of the response.
Leave(h) ==
  /\ pc[h] = "leave"
  /\ pc' = [pc EXCEPT ![h] = "idle"]
  /\ subs' = subs \ {h}
  /\ chanOpen' = [chanOpen EXCEPT ![h] = @ /\ h \notin subs]
  /\ chan' = [chan EXCEPT ![h] = <<>>]
  /\ conn' = [k \in Clients |-> IF conn[k] = h THEN NoHandler ELSE conn[k]]
  /\ lastId' = [lastId EXCEPT ![h] = 0]
  /\ written' = [written EXCEPT ![h] = 0]
  /\ joined' = [joined EXCEPT ![h] = 0]
  /\ UNCHANGED <<streamVars, sender, pending, cursor>>

\* The client goes away, or the network does: what h writes from here on is lost.
Disconnect(k) ==
  /\ conn[k] # NoHandler
  /\ conn' = [conn EXCEPT ![k] = NoHandler]
  /\ UNCHANGED <<streamVars, subVars, sender, getVars, cursor>>

-----------------------------------------------------------------------------
Init ==
  /\ seq = 0 /\ buffer = <<>> /\ closed = FALSE /\ listed = TRUE
  /\ subs = {}
  /\ chan = [h \in Handlers |-> <<>>]
  /\ chanOpen = [h \in Handlers |-> FALSE]
  /\ sender = "idle"
  /\ pc = [h \in Handlers |-> "idle"]
  /\ pending = [h \in Handlers |-> <<>>]
  /\ lastId = [h \in Handlers |-> 0]
  /\ written = [h \in Handlers |-> 0]
  /\ joined = [h \in Handlers |-> 0]
  /\ conn = [k \in Clients |-> NoHandler]
  /\ cursor = [k \in Clients |-> 0]

\* What the goroutine of a GET does once the request has been accepted.
HandlerStep(h) ==
  \/ ReadReplay(h) \/ WriteReplay(h) \/ ReplayDone(h)
  \/ CheckPrime(h) \/ PublishPrime(h) \/ WritePrime(h)
  \/ Subscribe(h) \/ Receive(h) \/ StreamEnded(h) \/ HangUp(h) \/ Leave(h)

Next ==
  \/ PickTarget \/ PublishNotification
  \/ Unlist \/ Close
  \/ \E k \in Clients, h \in Handlers, mode \in {"resume", "fresh", "fallback"} :
       Connect(k, h, mode)
  \/ \E h \in Handlers : HandlerStep(h)
  \/ \E k \in Clients : Disconnect(k)

Spec == Init /\ [][Next]_vars

\* Goroutines that can run do run; clients, sessions and notifications owe nothing.
Fairness ==
  /\ \A h \in Handlers : WF_vars(HandlerStep(h))
  /\ WF_vars(Close)

FairSpec == Spec /\ Fairness

-----------------------------------------------------------------------------
\* Types, and the capacity of the channels.
TypeOK ==
  /\ seq \in Nat /\ buffer \in Seq(Nat) /\ closed \in BOOLEAN /\ listed \in BOOLEAN
  /\ subs \subseteq Handlers
  /\ chan \in [Handlers -> Seq(Nat)] /\ \A h \in Handlers : Len(chan[h]) <= SubCap
  /\ chanOpen \in [Handlers -> BOOLEAN]
  /\ sender \in {"idle", "target"}
  /\ pc \in [Handlers -> Steps]
  /\ pending \in [Handlers -> Seq(Nat)]
  /\ lastId \in [Handlers -> Nat]
  /\ written \in [Handlers -> Nat] /\ joined \in [Handlers -> Nat]
  /\ conn \in [Clients -> Handlers \cup {NoHandler}]
  /\ cursor \in [Clients -> Nat]

\* The buffer is the window of the newest events, without a hole: what
\* eventsAfter can replay is exactly seq - Len(buffer) + 1 .. seq.
BufferWindow ==
  /\ Len(buffer) <= MaxBuf /\ Len(buffer) <= seq
  /\ seq > 0 => Len(buffer) > 0
  /\ \A i \in DOMAIN buffer : buffer[i] = seq - Len(buffer) + i

\* Go panics on a send to, and on a second close of, a closed channel: publish
\* sends to, and close and unsubscribe close, only channels in subs.
SubscribersOpen == \A h \in subs : chanOpen[h] /\ pc[h] \in {"stream", "leave"}

Ascending(s) == \A i, j \in DOMAIN s : i < j => s[i] < s[j]

\* What h has written, then holds as replay or prime, then finds in its
\* channel, is strictly increasing: one connection never repeats an event,
\* although replay and live delivery come from two critical sections.
ConnectionInOrder ==
  \A h \in Handlers :
    /\ Ascending(pending[h]) /\ Ascending(chan[h])
    /\ \A i \in DOMAIN pending[h] : written[h] < pending[h][i] /\ pending[h][i] <= seq
    /\ \A i \in DOMAIN chan[h] : written[h] < chan[h][i] /\ chan[h][i] <= seq

\* A stream that is still listed is open, so the branch of openStream that
\* clears closed never brings a closed stream back.
ListedIsOpen == listed => ~closed

\* A closed stream stays closed.
ClosedForever == [][closed => closed']_vars

\* A subscriber misses nothing until SubCap events have been published since
\* it joined: its channel is the unbroken run of events up to the newest.
LastTaken(h) == IF written[h] > joined[h] THEN written[h] ELSE joined[h]

NoHolesWithRoom ==
  \A h \in subs :
    seq - joined[h] <= SubCap =>
      chan[h] = [i \in 1..(seq - LastTaken(h)) |-> LastTaken(h) + i]

\* Each client sees a strictly increasing sequence of published events, across
\* reconnections with and without Last-Event-ID.
Delivery == INSTANCE OrderedDelivery WITH published <- seq
AtMostOnceInOrder == Delivery!Spec

\* Taking the stream out of the table (DELETE, the reaper, shutdown) ends every
\* GET that had got hold of it, wherever it was: none is left waiting.
TeardownEndsGets == ~listed ~> (\A h \in Handlers : pc[h] = "idle")

\* A GET whose client has gone away gives its goroutine back.
AbandonedGetsEnd ==
  \A h \in Handlers :
    (\A k \in Clients : conn[k] # h) ~> (pc[h] = "idle" \/ \E k \in Clients : conn[k] = h)

\* Resumption by Last-Event-ID hands a client every event the buffer still
\* holds: none falls between the replay and the subscription.
ResumeHasNoGap ==
  [][\A k \in Clients, h \in Handlers :
       conn[k] = h /\ lastId[h] > 0 /\ cursor'[k] # cursor[k] =>
         ~ \E e \in Retained : /\ e <= joined[h] /\ cursor[k] < e
                               /\ e < cursor'[k] /\ pc[h] = "stream"]_vars
=============================================================================
