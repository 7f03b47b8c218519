-------------------------- MODULE ListenStreamProofs --------------------------
(***************************************************************************)
(* What TLAPS proves of ListenStream, for any number of clients and        *)
(* handlers, any buffer and channel capacity and any number of             *)
(* notifications.  The facts are proved in layers, each citing the ones    *)
(* before it: the buffer and the types, the subscriptions, the handlers,   *)
(* then the order of one connection and the refinement of OrderedDelivery. *)
(***************************************************************************)
EXTENDS ListenStream, SequenceTheorems, TLAPS

-----------------------------------------------------------------------------
(* The operators on the buffer *)

\* What publish does to the buffer: it stays the window of the newest events.
LEMMA PublishKeepsWindow ==
  ASSUME seq \in Nat, buffer \in Seq(Nat), BufferWindow, Publish
  PROVE  /\ seq' \in Nat /\ buffer' \in Seq(Nat) /\ BufferWindow'
         /\ seq' = seq + 1
<1> DEFINE a == Append(buffer, seq + 1)
           n == Len(buffer)
<1>1. /\ a \in Seq(Nat) /\ Len(a) = n + 1 /\ n \in Nat
      /\ \A i \in 1..n : a[i] = buffer[i]
      /\ a[n + 1] = seq + 1
  BY AppendProperties, LenProperties
<1>2. DOMAIN buffer = 1..n /\ \A i \in 1..n : buffer[i] = seq - n + i
  BY LenProperties DEF BufferWindow
<1>3. \A i \in 1..(n + 1) : a[i] = seq - n + i
  <2> HIDE DEF a, n
  <2> QED BY <1>1, <1>2
<1>4. seq' = seq + 1 /\ buffer' = Trimmed(a)
  BY DEF Publish
<1>5. n <= MaxBuf /\ n <= seq
  BY DEF BufferWindow
<1> HIDE DEF a, n
<1>0. n = Len(buffer)
  BY DEF n
<1>6. CASE n + 1 <= MaxBuf
  <2>1. buffer' = a
    BY <1>1, <1>4, <1>6, MaxBufAssumption DEF Trimmed
  <2>2. DOMAIN a = 1..(n + 1)
    BY <1>1, LenProperties
  <2>3. \A i \in 1..(n + 1) : a[i] = seq' - Len(a) + i
    BY <1>1, <1>3, <1>4
  <2>4. Len(a) <= MaxBuf /\ Len(a) <= seq' /\ Len(a) > 0
    BY <1>1, <1>4, <1>5, <1>6
  <2>5. BufferWindow'
    BY <2>1, <2>2, <2>3, <2>4 DEF BufferWindow
  <2> QED BY <1>1, <1>4, <2>1, <2>5
<1>7. CASE n + 1 > MaxBuf
  <2>1. n = MaxBuf
    BY <1>1, <1>5, <1>7, MaxBufAssumption
  <2>2. buffer' = SubSeq(a, 2, n + 1)
    BY <1>1, <1>4, <2>1, MaxBufAssumption DEF Trimmed
  <2>3. \A i \in 2..(n + 1) : a[i] \in Nat
    BY <1>1, LenProperties
  <2>4. /\ buffer' \in Seq(Nat) /\ Len(buffer') = n
        /\ \A i \in 1..n : buffer'[i] = a[i + 1]
    BY <1>1, <2>1, <2>2, <2>3, SubSeqProperties, MaxBufAssumption
  <2>5. DOMAIN buffer' = 1..n
    BY <2>4, LenProperties
  <2> QED BY <1>1, <1>3, <1>4, <1>5, <2>1, <2>4, <2>5, MaxBufAssumption DEF BufferWindow
<1> QED BY <1>1, <1>6, <1>7, MaxBufAssumption

\* What eventsAfter returns: retained events above last, in ascending order.
LEMMA EventsAfterAscends ==
  ASSUME seq \in Nat, buffer \in Seq(Nat), BufferWindow, NEW last \in Nat
  PROVE  /\ EventsAfter(last) \in Seq(Nat)
         /\ Ascending(EventsAfter(last))
         /\ \A i \in DOMAIN EventsAfter(last) :
              last < EventsAfter(last)[i] /\ EventsAfter(last)[i] <= seq
<1> DEFINE n == Len(buffer)
           f == FirstAfter(last)
           IsFirst(i) == /\ \A j \in 1..(i - 1) : buffer[j] <= last
                         /\ i <= Len(buffer) => buffer[i] > last
<1> DEFINE base == seq - n
<1>1. /\ n \in Nat /\ base \in Nat /\ seq = base + n
      /\ \A i \in 1..n : buffer[i] = base + i
  BY LenProperties DEF BufferWindow
<1> HIDE DEF n, f, base
<1>0. n = Len(buffer)
  BY DEF n
<1>2. \E i \in 1..(n + 1) : IsFirst(i)
  <2>1. CASE last < base
    <3>1. IsFirst(1)
      BY <1>0, <1>1, <2>1
    <3> QED BY <1>1, <3>1
  <2>2. CASE last >= seq
    <3>1. IsFirst(n + 1)
      BY <1>0, <1>1, <2>2
    <3> QED BY <1>1, <3>1
  <2>3. CASE last >= base /\ last < seq
    <3> DEFINE w == last - base + 1
    <3>1. w \in 1..n /\ base + w = last + 1
      BY <1>1, <2>3
    <3> HIDE DEF w
    <3>2. \A j \in 1..(w - 1) : j \in 1..n /\ buffer[j] = base + j /\ base + j <= last
      BY <1>1, <2>3, <3>1
    <3>3. \A j \in 1..(w - 1) : buffer[j] <= last
      BY <3>2
    <3>4. buffer[w] > last
      BY <1>1, <2>3, <3>1
    <3>5. IsFirst(w)
      BY <1>0, <1>1, <3>1, <3>3, <3>4
    <3> QED BY <1>1, <3>1, <3>5
  <2> QED BY <1>1, <2>1, <2>2, <2>3
<1>3. f \in 1..(n + 1) /\ IsFirst(f)
  BY <1>0, <1>2 DEF FirstAfter, f
<1>4. \A i \in f..n : buffer[i] > last /\ buffer[i] \in Nat /\ buffer[i] <= seq
  <2> TAKE i \in f..n
  <2>1. i \in 1..n /\ f \in 1..n /\ buffer[i] = base + i /\ buffer[f] = base + f
    BY <1>1, <1>3
  <2>2. buffer[f] > last /\ buffer[i] \in Nat
    BY <1>0, <1>3, <2>1, ElementOfSeq
  <2> QED BY <1>1, <1>3, <2>1, <2>2
<1> DEFINE out == EventsAfter(last)
<1>5. /\ out \in Seq(Nat)
      /\ Len(out) = IF f <= n THEN n - f + 1 ELSE 0
      /\ \A i \in 1..(n - f + 1) : out[i] = buffer[f + i - 1]
  <2>1. out = SubSeq(buffer, f, n)
    BY DEF EventsAfter, f, n
  <2>2. f \in Int /\ n \in Int /\ \A i \in f..n : buffer[i] \in Nat
    BY <1>1, <1>3, <1>4
  <2> HIDE DEF out
  <2> QED BY <2>1, <2>2, SubSeqProperties
<1> HIDE DEF out
<1>6. DOMAIN out \subseteq 1..(n - f + 1)
  BY <1>1, <1>3, <1>5, LenProperties, SMTT(40)
<1>7. \A i \in DOMAIN out : /\ i \in Int /\ f + i - 1 \in f..n
                          /\ out[i] = base + (f + i - 1)
                          /\ last < out[i] /\ out[i] <= seq
  <2> TAKE i \in DOMAIN out
  <2>1. i \in 1..(n - f + 1) /\ f + i - 1 \in f..n
    BY <1>1, <1>3, <1>6
  <2>2. f + i - 1 \in 1..n /\ out[i] = buffer[f + i - 1]
    <3>1. f + i - 1 \in 1..n
      BY <1>1, <1>3, <2>1
    <3> QED BY <1>5, <2>1, <3>1
  <2>3. buffer[f + i - 1] = base + (f + i - 1)
    BY <1>1, <2>2
  <2> QED BY <1>4, <2>1, <2>2, <2>3
<1>8. \A i, j \in DOMAIN out : i < j => out[i] < out[j]
  <2> TAKE i, j \in DOMAIN out
  <2>1. i \in Int /\ j \in Int /\ out[i] = base + (f + i - 1) /\ out[j] = base + (f + j - 1)
    BY <1>7
  <2> QED BY <1>1, <1>3, <2>1
<1> QED BY <1>5, <1>7, <1>8 DEF out, Ascending

\* publish keeps every channel a sequence of event numbers within capacity.
LEMMA FanOutFits ==
  ASSUME TypeOK, NEW e \in Nat
  PROVE  /\ FanOut(e) \in [Handlers -> Seq(Nat)]
         /\ \A h \in Handlers : Len(FanOut(e)[h]) <= SubCap
<1>1. \A h \in Handlers : /\ chan[h] \in Seq(Nat) /\ Len(chan[h]) \in Nat
                          /\ Append(chan[h], e) \in Seq(Nat)
                          /\ Len(Append(chan[h], e)) = Len(chan[h]) + 1
                          /\ Len(chan[h]) <= SubCap
  BY AppendProperties, LenProperties DEF TypeOK
<1> QED BY <1>1, SubCapAssumption DEF FanOut

\* The buffer is the window of the newest events, and the state is well typed.
StreamInv == TypeOK /\ BufferWindow

LEMMA StreamInvInit == Init => StreamInv
<1> SUFFICES ASSUME Init PROVE TypeOK /\ BufferWindow
  BY DEF StreamInv
<1>1. <<>> \in Seq(Nat) /\ Len(<<>>) = 0
  BY EmptySeq
<1>2. TypeOK
  <2>1. /\ buffer \in Seq(Nat) /\ chan \in [Handlers -> Seq(Nat)]
        /\ pending \in [Handlers -> Seq(Nat)]
    BY <1>1 DEF Init
  <2>2. \A h \in Handlers : Len(chan[h]) <= SubCap
    <3> SUFFICES ASSUME NEW h \in Handlers PROVE Len(chan[h]) <= SubCap
      OBVIOUS
    <3>1. chan[h] = <<>>
      BY DEF Init
    <3> QED BY <1>1, <3>1, SubCapAssumption
  <2> QED BY <2>1, <2>2 DEF Init, TypeOK, Steps
<1>3. BufferWindow
  <2>1. buffer = <<>> /\ seq = 0
    BY DEF Init
  <2>2. DOMAIN buffer = 1..0
    BY <1>1, <2>1, LenProperties
  <2> QED BY <1>1, <2>1, <2>2, MaxBufAssumption DEF BufferWindow
<1> QED BY <1>2, <1>3

LEMMA StreamInvStep == StreamInv /\ [Next]_vars => StreamInv'
<1> SUFFICES ASSUME TypeOK, BufferWindow, [Next]_vars PROVE TypeOK' /\ BufferWindow'
  BY DEF StreamInv
<1> USE DEF streamVars, subVars, getVars, clientVars
<1>pub. ASSUME Publish, UNCHANGED <<closed, listed, subs, chanOpen>>
        PROVE  /\ BufferWindow' /\ seq' \in Nat /\ buffer' \in Seq(Nat)
               /\ chan' \in [Handlers -> Seq(Nat)]
               /\ \A h \in Handlers : Len(chan'[h]) <= SubCap
  <2>1. seq \in Nat /\ buffer \in Seq(Nat) /\ seq + 1 \in Nat
    BY DEF TypeOK
  <2>2. chan' = FanOut(seq + 1)
    BY <1>pub DEF Publish
  <2> QED BY <1>pub, <2>1, <2>2, PublishKeepsWindow, FanOutFits
<1>1. CASE PickTarget
  BY <1>1 DEF PickTarget, TypeOK, BufferWindow
<1>2. CASE PublishNotification
  <2>1. CASE closed
    BY <1>2, <2>1 DEF PublishNotification, TypeOK, BufferWindow
  <2>2. CASE ~closed
    BY <1>2, <2>2, <1>pub DEF PublishNotification, TypeOK
  <2> QED BY <2>1, <2>2
<1>3. CASE Unlist
  BY <1>3 DEF Unlist, TypeOK, BufferWindow
<1>4. CASE Close
  BY <1>4 DEF Close, TypeOK, BufferWindow
<1>5. ASSUME NEW k \in Clients, NEW h \in Handlers,
             NEW mode \in {"resume", "fresh", "fallback"}, Connect(k, h, mode)
      PROVE  TypeOK' /\ BufferWindow'
  <2>1. BufferWindow'
    BY <1>5 DEF Connect, BufferWindow
  <2>2. pc' \in [Handlers -> Steps]
    BY <1>5 DEF Connect, TypeOK, Steps
  <2> QED BY <1>5, <2>1, <2>2 DEF Connect, TypeOK
<1>6. ASSUME NEW h \in Handlers, HandlerStep(h)
      PROVE  TypeOK' /\ BufferWindow'
  <2>1. CASE ReadReplay(h)
    <3>1. EventsAfter(lastId[h]) \in Seq(Nat)
      BY EventsAfterAscends DEF TypeOK
    <3> QED BY <2>1, <3>1 DEF ReadReplay, TypeOK, BufferWindow, Steps
  <2>w. ASSUME NEW s \in Seq(Nat), s # <<>>, Write(h, Head(s))
        PROVE  /\ written' \in [Handlers -> Nat] /\ cursor' \in [Clients -> Nat]
               /\ Tail(s) \in Seq(Nat) /\ Len(Tail(s)) = Len(s) - 1
    BY <2>w, HeadTailProperties DEF Write, TypeOK
  <2>2. CASE WriteReplay(h)
    BY <2>2, <2>w DEF WriteReplay, TypeOK, BufferWindow
  <2>3. CASE ReplayDone(h)
    BY <2>3 DEF ReplayDone, TypeOK, BufferWindow, Steps
  <2>4. CASE CheckPrime(h)
    BY <2>4 DEF CheckPrime, TypeOK, BufferWindow, Steps
  <2>5. CASE PublishPrime(h)
    <3>1. pc' \in [Handlers -> Steps]
      BY <2>5 DEF PublishPrime, TypeOK, Steps
    <3>2. CASE closed
      BY <2>5, <3>1, <3>2 DEF PublishPrime, TypeOK, BufferWindow
    <3>3. CASE ~closed
      <4>1. <<seq + 1>> \in Seq(Nat)
        BY DEF TypeOK
      <4>2. pending' \in [Handlers -> Seq(Nat)]
        BY <2>5, <3>3, <4>1 DEF PublishPrime, TypeOK
      <4> QED BY <2>5, <1>pub, <3>1, <3>3, <4>2 DEF PublishPrime, TypeOK
    <3> QED BY <3>2, <3>3
  <2>6. CASE WritePrime(h)
    <3>1. BufferWindow'
      BY <2>6 DEF WritePrime, BufferWindow
    <3>2. written' \in [Handlers -> Nat] /\ cursor' \in [Clients -> Nat]
      BY <2>6, <2>w DEF WritePrime, TypeOK
    <3>3. pending' \in [Handlers -> Seq(Nat)] /\ pc' \in [Handlers -> Steps]
      BY <2>6, EmptySeq DEF WritePrime, TypeOK, Steps
    <3>4. UNCHANGED <<streamVars, subVars, sender, lastId, joined, conn>>
      BY <2>6 DEF WritePrime
    <3> QED BY <3>1, <3>2, <3>3, <3>4 DEF TypeOK
  <2>7. CASE Subscribe(h)
    BY <2>7, SubCapAssumption DEF Subscribe, TypeOK, BufferWindow, Steps
  <2>8. CASE Receive(h)
    <3>1. chan[h] \in Seq(Nat) /\ Len(chan[h]) \in Nat /\ Len(chan[h]) <= SubCap
      BY LenProperties DEF TypeOK
    <3>2. /\ written' \in [Handlers -> Nat] /\ cursor' \in [Clients -> Nat]
          /\ Tail(chan[h]) \in Seq(Nat) /\ Len(Tail(chan[h])) = Len(chan[h]) - 1
      BY <2>8, <2>w, <3>1 DEF Receive
    <3>3. chan' = [chan EXCEPT ![h] = Tail(chan[h])]
      BY <2>8 DEF Receive
    <3>4. chan' \in [Handlers -> Seq(Nat)]
      BY <3>2, <3>3 DEF TypeOK
    <3>5. \A g \in Handlers : Len(chan'[g]) <= SubCap
      BY <3>1, <3>2, <3>3, SubCapAssumption DEF TypeOK
    <3>6. UNCHANGED <<streamVars, subs, chanOpen, sender, lastId, pc, pending, joined, conn>>
      BY <2>8 DEF Receive
    <3> QED BY <3>2, <3>4, <3>5, <3>6 DEF TypeOK, BufferWindow
  <2>9. CASE StreamEnded(h)
    BY <2>9 DEF StreamEnded, TypeOK, BufferWindow, Steps
  <2>10. CASE HangUp(h)
    BY <2>10 DEF HangUp, TypeOK, BufferWindow, Steps
  <2>11. CASE Leave(h)
    BY <2>11, SubCapAssumption DEF Leave, TypeOK, BufferWindow, Steps
  <2> QED BY <1>6, <2>1, <2>2, <2>3, <2>4, <2>5, <2>6, <2>7, <2>8, <2>9, <2>10, <2>11
          DEF HandlerStep
<1>7. ASSUME NEW k \in Clients, Disconnect(k)
      PROVE  TypeOK' /\ BufferWindow'
  BY <1>7 DEF Disconnect, TypeOK, BufferWindow
<1>8. CASE UNCHANGED vars
  BY <1>8 DEF vars, TypeOK, BufferWindow
<1> QED BY <1>1, <1>2, <1>3, <1>4, <1>5, <1>6, <1>7, <1>8 DEF Next

\* For every instance: the state stays well typed, no channel goes over its
\* capacity, and eventsAfter can replay exactly the newest Len(buffer) events.
THEOREM BufferIsWindow == Spec => [](TypeOK /\ BufferWindow)
<1>1. StreamInv => TypeOK /\ BufferWindow
  BY DEF StreamInv
<1> QED BY StreamInvInit, StreamInvStep, <1>1, PTL DEF Spec

-----------------------------------------------------------------------------
(* Subscriptions *)

\* Only the closing of a stream, which empties subs, makes closed true, and only
\* a listed stream is reopened: that is why no channel in subs is ever closed.
SubsInv ==
  /\ SubscribersOpen
  /\ ListedIsOpen
  /\ closed => subs = {}

LEMMA SubsInvInit == Init => SubsInv
BY DEF Init, SubsInv, SubscribersOpen, ListedIsOpen

LEMMA SubsInvStep == TypeOK /\ SubsInv /\ [Next]_vars => SubsInv'
<1> SUFFICES ASSUME TypeOK, SubsInv, [Next]_vars PROVE SubsInv'
  OBVIOUS
<1> USE DEF SubsInv, SubscribersOpen, ListedIsOpen, streamVars, subVars, getVars, clientVars
<1>1. CASE PickTarget
  BY <1>1 DEF PickTarget
<1>2. CASE PublishNotification
  BY <1>2 DEF PublishNotification
<1>3. CASE Unlist
  BY <1>3 DEF Unlist
<1>4. CASE Close
  BY <1>4 DEF Close
<1>5. ASSUME NEW k \in Clients, NEW h \in Handlers,
             NEW mode \in {"resume", "fresh", "fallback"}, Connect(k, h, mode)
      PROVE  SubsInv'
  <2>1. h \notin subs /\ ~closed
    BY <1>5 DEF Connect
  <2>2. UNCHANGED <<subs, chanOpen, listed>> /\ ~closed'
    BY <1>5, <2>1 DEF Connect
  <2>3. \A g \in Handlers \ {h} : pc'[g] = pc[g]
    BY <1>5 DEF Connect, TypeOK
  <2> QED BY <2>1, <2>2, <2>3 DEF TypeOK
<1>6. ASSUME NEW h \in Handlers, HandlerStep(h)
      PROVE  SubsInv'
  <2>q. ASSUME UNCHANGED <<subs, chanOpen, closed, listed>>,
               \/ UNCHANGED pc
               \/ \E p \in Steps : /\ pc' = [pc EXCEPT ![h] = p]
                                   /\ h \in subs => p \in {"stream", "leave"}
        PROVE  SubsInv'
    BY <2>q DEF TypeOK
  <2>1. CASE ReadReplay(h)
    BY <2>1, <2>q DEF ReadReplay, Steps
  <2>2. CASE WriteReplay(h)
    BY <2>2, <2>q DEF WriteReplay
  <2>3. CASE ReplayDone(h)
    BY <2>3, <2>q DEF ReplayDone, Steps
  <2>4. CASE CheckPrime(h)
    BY <2>4, <2>q DEF CheckPrime, Steps
  <2>5. CASE PublishPrime(h)
    BY <2>5, <2>q DEF PublishPrime, Steps
  <2>6. CASE WritePrime(h)
    BY <2>6, <2>q DEF WritePrime, Steps
  <2>7. CASE Subscribe(h)
    BY <2>7 DEF Subscribe, TypeOK
  <2>8. CASE Receive(h)
    BY <2>8, <2>q DEF Receive
  <2>9. CASE StreamEnded(h)
    BY <2>9, <2>q DEF StreamEnded, Steps
  <2>10. CASE HangUp(h)
    BY <2>10, <2>q DEF HangUp, Steps
  <2>11. CASE Leave(h)
    BY <2>11 DEF Leave, TypeOK
  <2> QED BY <1>6, <2>1, <2>2, <2>3, <2>4, <2>5, <2>6, <2>7, <2>8, <2>9, <2>10, <2>11
          DEF HandlerStep
<1>7. ASSUME NEW k \in Clients, Disconnect(k)
      PROVE  SubsInv'
  BY <1>7 DEF Disconnect
<1>8. CASE UNCHANGED vars
  BY <1>8 DEF vars
<1> QED BY <1>1, <1>2, <1>3, <1>4, <1>5, <1>6, <1>7, <1>8 DEF Next

\* For every instance: no send to and no second close of a closed channel, the
\* two panics that a race of publish, unsubscribe and close could cause, and no
\* listed stream is closed.
THEOREM NoSendOnClosed == Spec => [](SubscribersOpen /\ ListedIsOpen)
<1>2. SubsInv => SubscribersOpen /\ ListedIsOpen
  BY DEF SubsInv
<1>3. StreamInv => TypeOK
  BY DEF StreamInv
<1> QED BY <1>2, <1>3, StreamInvInit, StreamInvStep, SubsInvInit, SubsInvStep, PTL DEF Spec

\* For every instance: openStream never brings a closed stream back, because it
\* finds a stream only while it is listed.
THEOREM ClosedStaysClosed == Spec => ClosedForever
<1>1. SubsInv /\ [Next]_vars => [closed => closed']_vars
  <2> SUFFICES ASSUME ListedIsOpen, [Next]_vars, closed PROVE closed'
    BY DEF SubsInv
  <2> USE DEF ListedIsOpen, streamVars, subVars, getVars, clientVars
  <2>1. CASE PickTarget \/ PublishNotification \/ Unlist \/ Close
    BY <2>1 DEF PickTarget, PublishNotification, Unlist, Close
  <2>2. ASSUME NEW k \in Clients, NEW h \in Handlers,
               NEW mode \in {"resume", "fresh", "fallback"}, Connect(k, h, mode)
        PROVE  closed'
    BY <2>2 DEF Connect
  <2>3. ASSUME NEW h \in Handlers, HandlerStep(h) PROVE closed'
    BY <2>3 DEF HandlerStep, ReadReplay, WriteReplay, ReplayDone, CheckPrime, PublishPrime,
                WritePrime, Subscribe, Receive, StreamEnded, HangUp, Leave
  <2>4. ASSUME NEW k \in Clients, Disconnect(k) PROVE closed'
    BY <2>4 DEF Disconnect
  <2>5. CASE UNCHANGED vars
    BY <2>5 DEF vars
  <2> QED BY <2>1, <2>2, <2>3, <2>4, <2>5 DEF Next
<1>3. StreamInv => TypeOK
  BY DEF StreamInv
<1> QED BY <1>1, <1>3, StreamInvInit, StreamInvStep, SubsInvInit, SubsInvStep, PTL
        DEF Spec, ClosedForever

-----------------------------------------------------------------------------
(* Handlers and clients *)

\* What a handler holds at each step of handleGET.
HandlerInv ==
  \A h \in Handlers :
    /\ pc[h] \notin {"stream", "leave"} => chan[h] = <<>>
    /\ pc[h] \notin {"replay", "writePrime"} => pending[h] = <<>>
    /\ pc[h] = "resume" => lastId[h] = written[h]
    /\ pc[h] = "idle" => \A k \in Clients : conn[k] # h
    /\ written[h] <= seq /\ joined[h] <= seq

\* A client reads from at most one handler, which serves no other client, and
\* has received exactly what that handler wrote.
ClientInv ==
  \A k \in Clients :
    /\ cursor[k] <= seq
    /\ conn[k] # NoHandler => cursor[k] = written[conn[k]]
    /\ \A j \in Clients : conn[j] = conn[k] /\ conn[k] # NoHandler => j = k

\* Nothing a handler still has to write is newer than the newest event, and
\* everything it still has to write is newer than what it wrote.
OrderInv == HandlerInv /\ ClientInv /\ ConnectionInOrder

\* Appending the next event to an ascending sequence keeps it ascending.
LEMMA AppendAscends ==
  ASSUME NEW s \in Seq(Nat), Ascending(s), NEW w \in Nat, NEW top \in Nat, w <= top,
         \A i \in DOMAIN s : w < s[i] /\ s[i] <= top
  PROVE  /\ Ascending(Append(s, top + 1))
         /\ \A i \in DOMAIN Append(s, top + 1) :
              w < Append(s, top + 1)[i] /\ Append(s, top + 1)[i] <= top + 1
<1> DEFINE n == Len(s)
           e == top + 1
           c == Append(s, e)
<1>1. /\ n \in Nat /\ DOMAIN s = 1..n /\ e \in Nat
      /\ \A i \in 1..n : s[i] \in Nat
  BY LenProperties, ElementOfSeq
<1>2. /\ c \in Seq(Nat) /\ Len(c) = n + 1
      /\ \A i \in 1..n : c[i] = s[i]
      /\ c[n + 1] = e
  BY AppendProperties, LenProperties
<1> HIDE DEF c, n, e
<1>3. DOMAIN c = 1..(n + 1)
  BY <1>2, LenProperties
<1>4. \A i \in 1..(n + 1) : i \in 1..n \/ i = n + 1
  BY <1>1
<1>0. e = top + 1
  BY DEF e
<1>5. \A i \in 1..(n + 1) : w < c[i] /\ c[i] <= e
  BY <1>0, <1>1, <1>2, <1>4
<1>6. \A i, j \in 1..(n + 1) : i < j => c[i] < c[j]
  <2> SUFFICES ASSUME NEW i \in 1..(n + 1), NEW j \in 1..(n + 1), i < j
               PROVE  c[i] < c[j]
    OBVIOUS
  <2>1. i \in 1..n
    BY <1>1
  <2>2. CASE j \in 1..n
    BY <1>1, <1>2, <2>1, <2>2 DEF Ascending
  <2>3. CASE j = n + 1
    <3>1. c[i] \in Nat /\ c[i] <= top
      BY <1>1, <1>2, <2>1
    <3>2. c[j] = top + 1
      BY <1>0, <1>2, <2>3
    <3> QED BY <3>1, <3>2
  <2> QED BY <1>4, <2>2, <2>3
<1> QED BY <1>3, <1>5, <1>6 DEF Ascending, c, e

\* What publish leaves in a channel: the old content, and perhaps the new event.
LEMMA FanOutAscends ==
  ASSUME TypeOK, ConnectionInOrder, HandlerInv, NEW h \in Handlers
  PROVE  /\ Ascending(FanOut(seq + 1)[h])
         /\ \A i \in DOMAIN FanOut(seq + 1)[h] :
              written[h] < FanOut(seq + 1)[h][i] /\ FanOut(seq + 1)[h][i] <= seq + 1
         /\ h \notin subs => FanOut(seq + 1)[h] = chan[h]
<1>1. /\ seq \in Nat /\ written[h] \in Nat /\ chan[h] \in Seq(Nat)
      /\ written[h] <= seq /\ Ascending(chan[h])
      /\ \A i \in DOMAIN chan[h] : written[h] < chan[h][i] /\ chan[h][i] <= seq
  BY DEF TypeOK, HandlerInv, ConnectionInOrder
<1>2. \A i \in DOMAIN chan[h] : chan[h][i] \in Nat
  BY <1>1, LenProperties, ElementOfSeq
<1>3. \A i \in DOMAIN chan[h] : chan[h][i] <= seq + 1
  BY <1>1, <1>2
<1>4. CASE FanOut(seq + 1)[h] = chan[h]
  BY <1>1, <1>3, <1>4
<1>5. CASE h \in subs /\ FanOut(seq + 1)[h] = Append(chan[h], seq + 1)
  BY <1>1, <1>5, AppendAscends
<1> QED BY <1>4, <1>5 DEF FanOut

\* Taking the head off an ascending sequence above w leaves one above the head.
LEMMA TailAscends ==
  ASSUME NEW s \in Seq(Nat), s # <<>>, Ascending(s), NEW w \in Nat, NEW top \in Nat,
         \A i \in DOMAIN s : w < s[i] /\ s[i] <= top
  PROVE  /\ Tail(s) \in Seq(Nat) /\ Ascending(Tail(s))
         /\ Head(s) \in Nat /\ w < Head(s) /\ Head(s) <= top
         /\ \A i \in DOMAIN Tail(s) : Head(s) < Tail(s)[i] /\ Tail(s)[i] <= top
<1> DEFINE n == Len(s)
           t == Tail(s)
<1>1. n \in Nat /\ n > 0 /\ DOMAIN s = 1..n /\ Head(s) = s[1]
  BY LenProperties, EmptySeq
<1>2. /\ t \in Seq(Nat) /\ Len(t) = n - 1 /\ Head(s) \in Nat
      /\ \A i \in 1..Len(t) : t[i] = s[i + 1]
  BY HeadTailProperties
<1>3. DOMAIN t = 1..(n - 1)
  BY <1>2, LenProperties
<1> HIDE DEF n, t
<1>8. n - 1 \in Nat
  BY <1>1
<1>9. \A i \in 1..(n - 1) : t[i] = s[i + 1]
  BY <1>2
<1>4. \A i \in 1..(n - 1) : i \in Int /\ i + 1 \in 1..n /\ t[i] = s[i + 1] /\ 1 < i + 1
  BY <1>1, <1>8, <1>9
<1>5. 1 \in 1..n
  BY <1>1
<1>6. Ascending(t)
  <2> SUFFICES ASSUME NEW i \in 1..(n - 1), NEW j \in 1..(n - 1), i < j
               PROVE  t[i] < t[j]
    BY <1>3 DEF Ascending
  <2>1. i + 1 \in 1..n /\ j + 1 \in 1..n /\ i \in Int /\ j \in Int
    BY <1>4
  <2>2. i + 1 < j + 1
    BY <2>1
  <2>3. s[i + 1] < s[j + 1]
    BY <1>1, <2>1, <2>2 DEF Ascending
  <2> QED BY <1>4, <2>3
<1>7. \A i \in 1..(n - 1) : s[1] < t[i] /\ t[i] <= top
  BY <1>1, <1>4, <1>5 DEF Ascending
<1> QED BY <1>1, <1>2, <1>3, <1>5, <1>6, <1>7 DEF t

\* The order of one connection, action by action.
LEMMA OrderInvStep ==
  StreamInv /\ SubsInv /\ OrderInv /\ [Next]_vars => OrderInv'
<1> SUFFICES ASSUME TypeOK, BufferWindow, SubscribersOpen,
                    HandlerInv, ClientInv, ConnectionInOrder, [Next]_vars
             PROVE  HandlerInv' /\ ClientInv' /\ ConnectionInOrder'
  BY DEF StreamInv, SubsInv, OrderInv
<1> USE DEF streamVars, subVars, getVars, clientVars
<1>t. /\ seq \in Nat /\ buffer \in Seq(Nat)
      /\ \A h \in Handlers : /\ written[h] \in Nat /\ joined[h] \in Nat /\ lastId[h] \in Nat
                             /\ chan[h] \in Seq(Nat) /\ pending[h] \in Seq(Nat)
      /\ \A k \in Clients : cursor[k] \in Nat
  BY DEF TypeOK
<1>e. Ascending(<<>>) /\ DOMAIN <<>> = {}
  BY EmptySeq, LenProperties DEF Ascending
\* A step that leaves everything here alone but the pc of one handler.
<1>q. ASSUME NEW h \in Handlers,
             UNCHANGED <<seq, chan, lastId, pending, written, joined, conn, cursor>>,
             NEW p \in Steps, pc' = [pc EXCEPT ![h] = p],
             pc[h] # "idle", p # "idle", p # "resume",
             p \notin {"replay", "writePrime"} => pending[h] = <<>>,
             p \notin {"stream", "leave"} => chan[h] = <<>>
      PROVE  HandlerInv' /\ ClientInv' /\ ConnectionInOrder'
  BY <1>q DEF HandlerInv, ClientInv, ConnectionInOrder, TypeOK
\* A step that publishes: every event already in a channel stays in front.
<1>p. ASSUME Publish, NEW h \in Handlers, UNCHANGED <<lastId, written, joined, conn, cursor>>
      PROVE  /\ seq' = seq + 1
             /\ Ascending(chan'[h])
             /\ \A i \in DOMAIN chan'[h] : written'[h] < chan'[h][i] /\ chan'[h][i] <= seq'
             /\ pc[h] \notin {"stream", "leave"} => chan'[h] = <<>>
             /\ \A i \in DOMAIN pending[h] : written'[h] < pending[h][i] /\ pending[h][i] <= seq'
             /\ written'[h] <= seq' /\ joined'[h] <= seq'
  <2>1. seq' = seq + 1 /\ chan'[h] = FanOut(seq + 1)[h] /\ written'[h] = written[h]
    BY <1>p DEF Publish
  <2>2. \A i \in DOMAIN pending[h] : pending[h][i] \in Nat
    BY <1>t, LenProperties, ElementOfSeq
  <2>3. \A i \in DOMAIN pending[h] : pending[h][i] <= seq /\ written[h] < pending[h][i]
    BY DEF ConnectionInOrder
  <2>4. written'[h] <= seq' /\ joined'[h] <= seq'
    BY <1>p, <1>t, <2>1 DEF HandlerInv
  <2>5. pc[h] \notin {"stream", "leave"} => chan'[h] = <<>>
    BY <2>1, FanOutAscends DEF HandlerInv, SubscribersOpen
  <2> QED BY <1>t, <2>1, <2>2, <2>3, <2>4, <2>5, FanOutAscends
<1>pc. ASSUME Publish, UNCHANGED <<conn, cursor, written>> PROVE ClientInv'
  BY <1>t, <1>pc DEF Publish, ClientInv
<1>1. CASE PickTarget
  BY <1>1 DEF PickTarget, HandlerInv, ClientInv, ConnectionInOrder
<1>2. CASE PublishNotification
  <2>1. CASE closed
    BY <1>2, <2>1 DEF PublishNotification, HandlerInv, ClientInv, ConnectionInOrder
  <2>2. CASE ~closed
    <3>1. Publish /\ UNCHANGED <<pc, lastId, pending, written, joined, conn, cursor>>
      BY <1>2, <2>2 DEF PublishNotification
    <3>2. HandlerInv' /\ ConnectionInOrder'
      BY <1>p, <3>1 DEF HandlerInv, ConnectionInOrder
    <3> QED BY <1>pc, <3>1, <3>2
  <2> QED BY <2>1, <2>2
<1>3. CASE Unlist
  BY <1>3 DEF Unlist, HandlerInv, ClientInv, ConnectionInOrder
<1>4. CASE Close
  BY <1>4 DEF Close, HandlerInv, ClientInv, ConnectionInOrder
<1>5. ASSUME NEW k \in Clients, NEW h \in Handlers,
             NEW mode \in {"resume", "fresh", "fallback"}, Connect(k, h, mode)
      PROVE  HandlerInv' /\ ClientInv' /\ ConnectionInOrder'
  <2>1. /\ pc[h] = "idle" /\ conn[k] = NoHandler
        /\ conn' = [conn EXCEPT ![k] = h]
        /\ written' = [written EXCEPT ![h] = cursor[k]]
        /\ UNCHANGED <<seq, chan, pending, joined, cursor>>
    BY <1>5 DEF Connect
  <2>2. /\ pc'[h] \in {"resume", "checkPrime", "subscribe"}
        /\ pc'[h] = "resume" => lastId'[h] = cursor[k]
        /\ \A g \in Handlers \ {h} : pc'[g] = pc[g] /\ lastId'[g] = lastId[g]
    BY <1>5 DEF Connect, TypeOK
  <2>3. chan[h] = <<>> /\ pending[h] = <<>> /\ \A j \in Clients : conn[j] # h
    BY <2>1 DEF HandlerInv
  <2>4. ConnectionInOrder'
    BY <1>e, <2>1, <2>3 DEF ConnectionInOrder, TypeOK
  <2>5. HandlerInv'
    BY <2>1, <2>2, <2>3 DEF HandlerInv, ClientInv, TypeOK
  <2>6. ClientInv'
    BY <2>1, <2>3, HandlersAssumption DEF ClientInv, TypeOK
  <2> QED BY <2>4, <2>5, <2>6
<1>6. ASSUME NEW h \in Handlers, HandlerStep(h)
      PROVE  HandlerInv' /\ ClientInv' /\ ConnectionInOrder'
  <2>1. CASE ReadReplay(h)
    <3>1. /\ pc[h] = "resume" /\ pc' = [pc EXCEPT ![h] = "replay"]
          /\ pending' = [pending EXCEPT ![h] = EventsAfter(written[h])]
          /\ UNCHANGED <<seq, chan, lastId, written, joined, conn, cursor>>
      BY <2>1 DEF ReadReplay, HandlerInv
    <3>2. HandlerInv' /\ ClientInv'
      BY <3>1 DEF HandlerInv, ClientInv, TypeOK
    <3>3. ConnectionInOrder'
      BY <1>t, <3>1, EventsAfterAscends DEF ConnectionInOrder, TypeOK
    <3> QED BY <3>2, <3>3
  \* A write moves the client that reads from h, if any, and h itself, to e.
  <2>w. ASSUME NEW e \in Nat, e <= seq, Write(h, e), pc[h] # "idle", UNCHANGED <<seq, conn>>
        PROVE  /\ ClientInv' /\ written'[h] = e
               /\ \A g \in Handlers \ {h} : written'[g] = written[g]
    BY <1>t, <2>w DEF Write, ClientInv, TypeOK
  <2>2. CASE WriteReplay(h)
    <3>1. /\ pc[h] = "replay" /\ pending[h] # <<>> /\ Write(h, Head(pending[h]))
          /\ pending' = [pending EXCEPT ![h] = Tail(pending[h])]
          /\ UNCHANGED <<seq, chan, lastId, pc, joined, conn>>
      BY <2>2 DEF WriteReplay
    <3>2. /\ Tail(pending[h]) \in Seq(Nat) /\ Ascending(Tail(pending[h]))
          /\ Head(pending[h]) \in Nat /\ Head(pending[h]) <= seq
          /\ \A i \in DOMAIN Tail(pending[h]) :
               Head(pending[h]) < Tail(pending[h])[i] /\ Tail(pending[h])[i] <= seq
      BY <1>t, <3>1, TailAscends DEF ConnectionInOrder
    <3>3. /\ ClientInv' /\ written'[h] = Head(pending[h])
          /\ \A g \in Handlers \ {h} : written'[g] = written[g]
      BY <2>w, <3>1, <3>2
    <3>4. chan[h] = <<>>
      BY <3>1 DEF HandlerInv
    <3>5. HandlerInv'
      BY <3>1, <3>2, <3>3 DEF HandlerInv, TypeOK
    <3>6. ConnectionInOrder'
      <4> SUFFICES ASSUME NEW g \in Handlers
                   PROVE  /\ Ascending(pending'[g]) /\ Ascending(chan'[g])
                          /\ \A i \in DOMAIN pending'[g] :
                               written'[g] < pending'[g][i] /\ pending'[g][i] <= seq'
                          /\ \A i \in DOMAIN chan'[g] :
                               written'[g] < chan'[g][i] /\ chan'[g][i] <= seq'
        BY DEF ConnectionInOrder
      <4>1. CASE g = h
        <5>1. pending'[g] = Tail(pending[h]) /\ chan'[g] = <<>>
          BY <3>1, <3>4, <4>1 DEF TypeOK
        <5> QED BY <1>e, <3>1, <3>2, <3>3, <4>1, <5>1
      <4>2. CASE g # h
        <5>1. UNCHANGED <<pending[g], chan[g], written[g], seq>>
          BY <3>1, <3>3, <4>2 DEF TypeOK
        <5> QED BY <5>1 DEF ConnectionInOrder
      <4> QED BY <4>1, <4>2
    <3> QED BY <3>3, <3>5, <3>6
  <2>3. CASE ReplayDone(h)
    BY <2>3, <1>q DEF ReplayDone, Steps, HandlerInv
  <2>4. CASE CheckPrime(h)
    BY <2>4, <1>q DEF CheckPrime, Steps, HandlerInv
  <2>5. CASE PublishPrime(h)
    <3>1. /\ pc[h] = "publishPrime" /\ pc' = [pc EXCEPT ![h] = "writePrime"]
          /\ UNCHANGED <<lastId, written, joined, conn, cursor>>
      BY <2>5 DEF PublishPrime
    <3>2. chan[h] = <<>> /\ pending[h] = <<>>
      BY <3>1 DEF HandlerInv
    <3>3. CASE closed
      BY <1>q, <2>5, <3>1, <3>2, <3>3 DEF PublishPrime, Steps
    <3>4. CASE ~closed
      <4>1. Publish /\ pending' = [pending EXCEPT ![h] = <<seq + 1>>]
        BY <2>5, <3>4 DEF PublishPrime
      <4>2. HandlerInv'
        BY <1>p, <3>1, <4>1 DEF HandlerInv, TypeOK
      <4>3. ClientInv'
        BY <1>pc, <3>1, <4>1
      <4>4. /\ Ascending(<<seq + 1>>) /\ DOMAIN <<seq + 1>> = {1}
            /\ <<seq + 1>>[1] = seq + 1 /\ written[h] < seq + 1
        BY <1>t DEF Ascending, HandlerInv
      <4>5. \A g \in Handlers :
              /\ Ascending(pending'[g])
              /\ \A i \in DOMAIN pending'[g] :
                   written'[g] < pending'[g][i] /\ pending'[g][i] <= seq'
        <5> SUFFICES ASSUME NEW g \in Handlers
                     PROVE  /\ Ascending(pending'[g])
                            /\ \A i \in DOMAIN pending'[g] :
                                 written'[g] < pending'[g][i] /\ pending'[g][i] <= seq'
          OBVIOUS
        <5>1. CASE g = h
          <6>1. pending'[g] = <<seq + 1>> /\ written'[g] = written[h] /\ seq' = seq + 1
            BY <3>1, <4>1, <5>1 DEF Publish, TypeOK
          <6> QED BY <1>t, <4>4, <6>1
        <5>2. CASE g # h
          <6>1. pending'[g] = pending[g]
            BY <4>1, <5>2 DEF TypeOK
          <6> QED BY <1>p, <3>1, <4>1, <6>1 DEF ConnectionInOrder
        <5> QED BY <5>1, <5>2
      <4>6. ConnectionInOrder'
        BY <1>p, <3>1, <4>1, <4>5 DEF ConnectionInOrder
      <4> QED BY <4>2, <4>3, <4>6
    <3> QED BY <3>3, <3>4
  <2>6. CASE WritePrime(h)
    <3>1. /\ pc[h] = "writePrime" /\ pc' = [pc EXCEPT ![h] = "subscribe"]
          /\ pending' = [pending EXCEPT ![h] = <<>>]
          /\ UNCHANGED <<seq, chan, lastId, joined, conn>>
      BY <2>6 DEF WritePrime
    <3>2. chan[h] = <<>>
      BY <3>1 DEF HandlerInv
    <3>3. /\ ClientInv' /\ written'[h] \in Nat /\ written'[h] <= seq
          /\ \A g \in Handlers \ {h} : written'[g] = written[g]
      <4>1. CASE pending[h] = <<>>
        BY <1>t, <2>6, <3>1, <4>1 DEF WritePrime, ClientInv, HandlerInv
      <4>2. CASE pending[h] # <<>>
        <5>1. Head(pending[h]) \in Nat /\ Head(pending[h]) <= seq
          BY <1>t, <4>2, TailAscends DEF ConnectionInOrder
        <5> QED BY <2>6, <2>w, <3>1, <4>2, <5>1 DEF WritePrime
      <4> QED BY <4>1, <4>2
    <3>4. HandlerInv'
      BY <3>1, <3>2, <3>3 DEF HandlerInv, TypeOK
    <3>5. ConnectionInOrder'
      BY <1>e, <3>1, <3>2, <3>3 DEF ConnectionInOrder, TypeOK
    <3> QED BY <3>3, <3>4, <3>5
  <2>7. CASE Subscribe(h)
    <3>1. /\ pc[h] = "subscribe" /\ pc' = [pc EXCEPT ![h] = "stream"]
          /\ joined' = [joined EXCEPT ![h] = seq]
          /\ chan' = [chan EXCEPT ![h] = <<>>]
          /\ UNCHANGED <<seq, lastId, pending, written, conn, cursor>>
      BY <2>7 DEF Subscribe
    <3>2. HandlerInv' /\ ClientInv'
      BY <1>t, <3>1 DEF HandlerInv, ClientInv, TypeOK
    <3>3. ConnectionInOrder'
      BY <1>e, <3>1 DEF ConnectionInOrder, TypeOK
    <3> QED BY <3>2, <3>3
  <2>8. CASE Receive(h)
    <3>1. /\ pc[h] = "stream" /\ chan[h] # <<>> /\ Write(h, Head(chan[h]))
          /\ chan' = [chan EXCEPT ![h] = Tail(chan[h])]
          /\ UNCHANGED <<seq, lastId, pc, pending, joined, conn>>
      BY <2>8 DEF Receive
    <3>2. /\ Tail(chan[h]) \in Seq(Nat) /\ Ascending(Tail(chan[h]))
          /\ Head(chan[h]) \in Nat /\ Head(chan[h]) <= seq
          /\ \A i \in DOMAIN Tail(chan[h]) :
               Head(chan[h]) < Tail(chan[h])[i] /\ Tail(chan[h])[i] <= seq
      BY <1>t, <3>1, TailAscends DEF ConnectionInOrder
    <3>3. /\ ClientInv' /\ written'[h] = Head(chan[h])
          /\ \A g \in Handlers \ {h} : written'[g] = written[g]
      BY <2>w, <3>1, <3>2
    <3>4. pending[h] = <<>>
      BY <3>1 DEF HandlerInv
    <3>5. HandlerInv'
      BY <3>1, <3>2, <3>3 DEF HandlerInv, TypeOK
    <3>6. ConnectionInOrder'
      <4> SUFFICES ASSUME NEW g \in Handlers
                   PROVE  /\ Ascending(pending'[g]) /\ Ascending(chan'[g])
                          /\ \A i \in DOMAIN pending'[g] :
                               written'[g] < pending'[g][i] /\ pending'[g][i] <= seq'
                          /\ \A i \in DOMAIN chan'[g] :
                               written'[g] < chan'[g][i] /\ chan'[g][i] <= seq'
        BY DEF ConnectionInOrder
      <4>1. CASE g = h
        <5>1. chan'[g] = Tail(chan[h]) /\ pending'[g] = <<>>
          BY <3>1, <3>4, <4>1 DEF TypeOK
        <5> QED BY <1>e, <3>1, <3>2, <3>3, <4>1, <5>1
      <4>2. CASE g # h
        <5>1. UNCHANGED <<pending[g], chan[g], written[g], seq>>
          BY <3>1, <3>3, <4>2 DEF TypeOK
        <5> QED BY <5>1 DEF ConnectionInOrder
      <4> QED BY <4>1, <4>2
    <3> QED BY <3>3, <3>5, <3>6
  <2>9. CASE StreamEnded(h)
    BY <2>9, <1>q DEF StreamEnded, Steps, HandlerInv
  <2>10. CASE HangUp(h)
    <3>1. /\ pc[h] \in {"replay", "stream"} /\ pc' = [pc EXCEPT ![h] = "leave"]
          /\ pending' = [pending EXCEPT ![h] = <<>>]
          /\ UNCHANGED <<seq, chan, lastId, written, joined, conn, cursor>>
      BY <2>10 DEF HangUp
    <3>2. HandlerInv' /\ ClientInv'
      BY <3>1 DEF HandlerInv, ClientInv, TypeOK
    <3>3. ConnectionInOrder'
      BY <1>e, <3>1 DEF ConnectionInOrder, TypeOK
    <3> QED BY <3>2, <3>3
  <2>11. CASE Leave(h)
    <3>1. /\ pc[h] = "leave" /\ pc' = [pc EXCEPT ![h] = "idle"]
          /\ chan' = [chan EXCEPT ![h] = <<>>]
          /\ conn' = [k \in Clients |-> IF conn[k] = h THEN NoHandler ELSE conn[k]]
          /\ lastId' = [lastId EXCEPT ![h] = 0]
          /\ written' = [written EXCEPT ![h] = 0]
          /\ joined' = [joined EXCEPT ![h] = 0]
          /\ UNCHANGED <<seq, pending, cursor>>
      BY <2>11 DEF Leave
    <3>2. pending[h] = <<>>
      BY <3>1 DEF HandlerInv
    <3>3. HandlerInv'
      BY <1>t, <3>1, <3>2, HandlersAssumption DEF HandlerInv, TypeOK
    <3>4. ClientInv'
      BY <3>1, HandlersAssumption DEF ClientInv, TypeOK
    <3>5. ConnectionInOrder'
      BY <1>e, <3>1, <3>2 DEF ConnectionInOrder, TypeOK
    <3> QED BY <3>3, <3>4, <3>5
  <2> QED BY <1>6, <2>1, <2>2, <2>3, <2>4, <2>5, <2>6, <2>7, <2>8, <2>9, <2>10, <2>11
          DEF HandlerStep
<1>7. ASSUME NEW k \in Clients, Disconnect(k)
      PROVE  HandlerInv' /\ ClientInv' /\ ConnectionInOrder'
  BY <1>7, HandlersAssumption DEF Disconnect, HandlerInv, ClientInv, ConnectionInOrder, TypeOK
<1>8. CASE UNCHANGED vars
  BY <1>8 DEF vars, HandlerInv, ClientInv, ConnectionInOrder
<1> QED BY <1>1, <1>2, <1>3, <1>4, <1>5, <1>6, <1>7, <1>8 DEF Next

LEMMA OrderInvInit == Init => OrderInv
<1>1. Ascending(<<>>) /\ DOMAIN <<>> = {}
  BY EmptySeq, LenProperties DEF Ascending
<1> QED BY <1>1, HandlersAssumption
        DEF Init, OrderInv, HandlerInv, ClientInv, ConnectionInOrder

LEMMA AllInv == Spec => [](StreamInv /\ SubsInv /\ OrderInv)
<1>1. StreamInv => TypeOK
  BY DEF StreamInv
<1> QED BY <1>1, StreamInvInit, StreamInvStep, SubsInvInit, SubsInvStep,
           OrderInvInit, OrderInvStep, PTL DEF Spec

\* For every instance: replay, prime and live delivery, which come from three
\* critical sections, never repeat or swap an event on one connection.
THEOREM OneConnectionInOrder == Spec => []ConnectionInOrder
<1>1. OrderInv => ConnectionInOrder
  BY DEF OrderInv
<1> QED BY <1>1, AllInv, PTL

-----------------------------------------------------------------------------
(* No event is missed while there is room *)

\* The run of n events after b.
Run(b, n) == [i \in 1..n |-> b + i]

LEMMA RunIsSeq ==
  ASSUME NEW b \in Nat, NEW n \in Nat
  PROVE  Run(b, n) \in Seq(Nat) /\ Len(Run(b, n)) = n
<1>1. Run(b, n) \in [1..n -> Nat]
  BY DEF Run
<1>2. Run(b, n) \in Seq(Nat)
  BY <1>1, SeqDef
<1>3. DOMAIN Run(b, n) = 1..n /\ DOMAIN Run(b, n) = 1..Len(Run(b, n))
      /\ Len(Run(b, n)) \in Nat
  BY <1>1, <1>2, LenProperties
<1> QED BY <1>2, <1>3

LEMMA RunAppend ==
  ASSUME NEW b \in Nat, NEW n \in Nat
  PROVE  Append(Run(b, n), b + n + 1) = Run(b, n + 1)
<1> DEFINE s == Run(b, n)
           c == Append(s, b + n + 1)
           r == Run(b, n + 1)
<1>1. s \in Seq(Nat) /\ Len(s) = n /\ r \in Seq(Nat) /\ Len(r) = n + 1
  BY RunIsSeq, SMTT(40)
<1>2. /\ \A i \in 1..n : s[i] = b + i
      /\ \A i \in 1..(n + 1) : r[i] = b + i
  BY DEF Run
<1> HIDE DEF s, r
<1>3. /\ c \in Seq(Nat) /\ Len(c) = n + 1
      /\ \A i \in 1..n : c[i] = s[i]
      /\ c[n + 1] = b + n + 1
  BY <1>1, AppendProperties, LenProperties
<1> HIDE DEF c
<1>4. \A i \in 1..(n + 1) : c[i] = r[i]
  <2> TAKE i \in 1..(n + 1)
  <2>1. CASE i = n + 1
    BY <1>2, <1>3, <2>1
  <2>2. CASE i \in 1..n
    BY <1>2, <1>3, <2>2
  <2> QED BY <2>1, <2>2
<1>5. c = r
  BY <1>1, <1>3, <1>4, SeqEqual
<1> QED BY <1>5 DEF c, s, r

LEMMA RunTail ==
  ASSUME NEW b \in Nat, NEW n \in Nat, Run(b, n) # <<>>
  PROVE  /\ n > 0 /\ Head(Run(b, n)) = b + 1
         /\ Tail(Run(b, n)) = Run(b + 1, n - 1)
<1> DEFINE s == Run(b, n)
           t == Tail(s)
           r == Run(b + 1, n - 1)
<1>1. s \in Seq(Nat) /\ Len(s) = n /\ s # <<>>
  BY RunIsSeq
<1>2. n > 0
  BY <1>1, EmptySeq
<1>3. r \in Seq(Nat) /\ Len(r) = n - 1
  <2>1. b + 1 \in Nat /\ n - 1 \in Nat
    BY <1>2
  <2> QED BY <2>1, RunIsSeq
<1>4. /\ \A i \in 1..n : s[i] = b + i
      /\ \A i \in 1..(n - 1) : r[i] = b + 1 + i
  BY DEF Run
<1> HIDE DEF s, r
<1>5. Head(s) = b + 1
  BY <1>1, <1>2, <1>4
<1>6. t \in Seq(Nat) /\ Len(t) = n - 1 /\ \A i \in 1..(n - 1) : t[i] = s[i + 1]
  BY <1>1, HeadTailProperties
<1> HIDE DEF t
<1>7. \A i \in 1..(n - 1) : t[i] = r[i]
  <2> TAKE i \in 1..(n - 1)
  <2>1. i + 1 \in 1..n
    BY <1>2
  <2>2. t[i] = b + (i + 1) /\ r[i] = b + 1 + i
    BY <1>4, <1>6, <2>1
  <2> QED BY <2>2
<1>8. t = r
  BY <1>3, <1>6, <1>7, SeqEqual
<1> QED BY <1>2, <1>5, <1>8 DEF t, s, r

\* The part of NoHolesWithRoom that speaks of h, with the run given a name.
HoldsRun(h) ==
  h \in subs /\ seq - joined[h] <= SubCap => chan[h] = Run(LastTaken(h), seq - LastTaken(h))

LEMMA NoHolesIsRun == NoHolesWithRoom <=> \A h \in subs : HoldsRun(h)
BY DEF NoHolesWithRoom, HoldsRun, Run

LEMMA NoHolesStep ==
  StreamInv /\ SubsInv /\ OrderInv /\ NoHolesWithRoom /\ [Next]_vars => NoHolesWithRoom'
<1> SUFFICES ASSUME TypeOK, SubscribersOpen, HandlerInv, ConnectionInOrder,
                    \A h \in subs : HoldsRun(h), [Next]_vars, NEW g \in subs'
             PROVE  HoldsRun(g)'
  BY NoHolesIsRun DEF StreamInv, SubsInv, OrderInv, NoHolesWithRoom, HoldsRun, Run, LastTaken
<1> USE DEF streamVars, subVars, getVars, clientVars
<1>t. /\ seq \in Nat /\ SubCap \in Nat
      /\ \A h \in Handlers : /\ written[h] \in Nat /\ joined[h] \in Nat
                             /\ written[h] <= seq /\ joined[h] <= seq
                             /\ LastTaken(h) \in Nat /\ LastTaken(h) <= seq
                             /\ joined[h] <= LastTaken(h) /\ written[h] <= LastTaken(h)
                             /\ seq - LastTaken(h) \in Nat
  BY SubCapAssumption DEF TypeOK, HandlerInv, LastTaken
<1>g. subs \subseteq Handlers
  BY DEF TypeOK
\* A step that leaves g's subscription as it is.
<1>q. ASSUME g \in subs, UNCHANGED <<seq, chan[g], written[g], joined[g]>>
      PROVE  HoldsRun(g)'
  BY <1>q DEF HoldsRun, LastTaken
\* A step that publishes: with room for it, the new event extends the run.
<1>p. ASSUME Publish, g \in subs, UNCHANGED <<subs, written, joined>>
      PROVE  HoldsRun(g)'
  <2> SUFFICES ASSUME seq' - joined[g] <= SubCap
               PROVE  chan'[g] = Run(LastTaken(g), seq' - LastTaken(g))
    BY <1>p DEF HoldsRun, LastTaken
  <2> DEFINE b == LastTaken(g)
             n == seq - LastTaken(g)
  <2>1. seq' = seq + 1 /\ chan' = FanOut(seq + 1) /\ g \in Handlers
    BY <1>g, <1>p DEF Publish
  <2>2. b \in Nat /\ n \in Nat /\ seq + 1 = b + n + 1 /\ seq' - LastTaken(g) = n + 1
        /\ seq - joined[g] <= SubCap /\ n < SubCap
    BY <1>t, <2>1
  <2>3. chan[g] = Run(b, n)
    BY <1>p, <2>2 DEF HoldsRun
  <2> HIDE DEF b, n
  <2>4. Len(chan[g]) = n
    BY <2>2, <2>3, RunIsSeq
  <2>5. chan'[g] = Append(chan[g], seq + 1)
    BY <1>p, <2>1, <2>2, <2>4 DEF FanOut
  <2>6. chan'[g] = Run(b, n + 1)
    BY <2>2, <2>3, <2>5, RunAppend
  <2> QED BY <2>2, <2>6 DEF b
<1>1. CASE PickTarget \/ Unlist
  BY <1>1, <1>q DEF PickTarget, Unlist
<1>2. CASE PublishNotification
  BY <1>2, <1>p, <1>q DEF PublishNotification
<1>3. CASE Close
  BY <1>3 DEF Close
<1>4. ASSUME NEW k \in Clients, NEW h \in Handlers,
             NEW mode \in {"resume", "fresh", "fallback"}, Connect(k, h, mode)
      PROVE  HoldsRun(g)'
  <2>1. g \in subs /\ g # h
    BY <1>4 DEF Connect, SubscribersOpen
  <2> QED BY <1>4, <1>g, <1>q, <2>1 DEF Connect, TypeOK
<1>5. ASSUME NEW h \in Handlers, HandlerStep(h)
      PROVE  HoldsRun(g)'
  <2>1. CASE ReadReplay(h) \/ ReplayDone(h) \/ CheckPrime(h) \/ StreamEnded(h) \/ HangUp(h)
    BY <2>1, <1>q DEF ReadReplay, ReplayDone, CheckPrime, StreamEnded, HangUp
  <2>2. CASE WriteReplay(h)
    <3>1. g \in subs /\ g # h
      BY <2>2 DEF WriteReplay, SubscribersOpen
    <3> QED BY <2>2, <1>g, <1>q, <3>1 DEF WriteReplay, Write, TypeOK
  <2>3. CASE PublishPrime(h)
    BY <2>3, <1>p, <1>q DEF PublishPrime
  <2>4. CASE WritePrime(h)
    <3>1. g \in subs /\ g # h
      BY <2>4 DEF WritePrime, SubscribersOpen
    <3> QED BY <2>4, <1>g, <1>q, <3>1 DEF WritePrime, Write, TypeOK
  <2>5. CASE Subscribe(h)
    <3>1. CASE g = h
      <4>1. chan'[g] = <<>> /\ joined'[g] = seq /\ seq' = seq /\ written'[g] = written[g]
        BY <2>5, <3>1 DEF Subscribe, TypeOK
      <4>2. LastTaken(g)' = seq
        BY <1>t, <3>1, <4>1 DEF LastTaken
      <4>3. Run(seq, 0) = <<>>
        BY <1>t, RunIsSeq, EmptySeq
      <4>4. seq' - LastTaken(g)' = 0
        BY <1>t, <4>1, <4>2
      <4> QED BY <4>1, <4>2, <4>3, <4>4 DEF HoldsRun
    <3>2. CASE g # h
      BY <2>5, <3>2, <1>g, <1>q DEF Subscribe, TypeOK
    <3> QED BY <3>1, <3>2
  <2>6. CASE Receive(h)
    <3>1. CASE g = h
      <4> SUFFICES ASSUME seq - joined[g] <= SubCap
                   PROVE  chan'[g] = Run(LastTaken(g)', seq - LastTaken(g)')
        BY <2>6 DEF Receive, HoldsRun
      <4> DEFINE b == LastTaken(g)
                 n == seq - LastTaken(g)
      <4>1. /\ g \in subs /\ g \in Handlers /\ chan[g] # <<>> /\ chan'[g] = Tail(chan[g])
            /\ written'[g] = Head(chan[g]) /\ joined'[g] = joined[g]
        BY <2>6, <3>1, <1>g DEF Receive, Write, TypeOK
      <4>2. b \in Nat /\ n \in Nat /\ joined[g] \in Nat /\ joined[g] <= b /\ n = seq - b
        BY <1>t, <4>1
      <4>3. chan[g] = Run(b, n)
        BY <4>1 DEF HoldsRun
      <4> HIDE DEF b, n
      <4>4. /\ n > 0 /\ Head(chan[g]) = b + 1
            /\ Tail(chan[g]) = Run(b + 1, n - 1)
        BY <4>1, <4>2, <4>3, RunTail
      <4>5. LastTaken(g)' = b + 1
        BY <4>1, <4>2, <4>4 DEF LastTaken
      <4>6. seq - (b + 1) = n - 1
        BY <1>t, <4>2
      <4> QED BY <4>1, <4>4, <4>5, <4>6
    <3>2. CASE g # h
      BY <2>6, <3>2, <1>g, <1>q DEF Receive, Write, TypeOK
    <3> QED BY <3>1, <3>2
  <2>7. CASE Leave(h)
    <3>1. g \in subs /\ g # h
      BY <2>7 DEF Leave
    <3> QED BY <2>7, <1>g, <1>q, <3>1 DEF Leave, TypeOK
  <2> QED BY <1>5, <2>1, <2>2, <2>3, <2>4, <2>5, <2>6, <2>7 DEF HandlerStep
<1>6. ASSUME NEW k \in Clients, Disconnect(k)
      PROVE  HoldsRun(g)'
  BY <1>6, <1>q DEF Disconnect
<1>7. CASE UNCHANGED vars
  BY <1>7, <1>q DEF vars
<1> QED BY <1>1, <1>2, <1>3, <1>4, <1>5, <1>6, <1>7 DEF Next

\* For every instance: until SubCap events have been published since it joined, a
\* subscriber finds every one of them in its channel or has written it.
THEOREM NothingMissedWithRoom == Spec => []NoHolesWithRoom
<1>1. Init => NoHolesWithRoom
  BY DEF Init, NoHolesWithRoom
<1> QED BY <1>1, NoHolesStep, AllInv, PTL DEF Spec

-----------------------------------------------------------------------------
(* Refinement of OrderedDelivery *)

\* A write of an event newer than what h wrote is one delivery, or nobody sees it.
LEMMA WriteDelivers ==
  ASSUME TypeOK, ClientInv, NEW h \in Handlers, NEW e \in Nat, written[h] < e, e <= seq,
         Write(h, e), UNCHANGED seq
  PROVE  [Delivery!Next]_Delivery!vars
<1>1. cursor' = [k \in Clients |-> IF conn[k] = h THEN e ELSE cursor[k]]
  BY DEF Write
<1>2. CASE \E k \in Clients : conn[k] = h
  <2>1. PICK k \in Clients : conn[k] = h
    BY <1>2
  <2>2. cursor[k] = written[h] /\ \A j \in Clients \ {k} : conn[j] # h
    BY <2>1, HandlersAssumption DEF ClientInv
  <2>3. cursor' = [cursor EXCEPT ![k] = e]
    BY <1>1, <2>1, <2>2 DEF TypeOK
  <2>4. e \in (cursor[k] + 1)..seq
    BY <2>2 DEF TypeOK
  <2> QED BY <2>3, <2>4 DEF Delivery!Next, Delivery!Deliver
<1>3. CASE \A k \in Clients : conn[k] # h
  <2>1. cursor' = cursor
    BY <1>1, <1>3 DEF TypeOK
  <2> QED BY <2>1 DEF Delivery!vars
<1> QED BY <1>2, <1>3

\* For every instance: the messageStream, its channels and the handlers give
\* each client an at-most-once, in-order delivery of what was published.
THEOREM ImplementsOrderedDelivery == Spec => AtMostOnceInOrder
<1>1. Init => Delivery!Init
  BY DEF Init, Delivery!Init
<1>2. StreamInv /\ OrderInv /\ [Next]_vars => [Delivery!Next]_Delivery!vars
  <2> SUFFICES ASSUME TypeOK, HandlerInv, ClientInv, ConnectionInOrder, [Next]_vars
               PROVE  [Delivery!Next]_Delivery!vars
    BY DEF StreamInv, OrderInv
  <2> USE DEF streamVars, subVars, getVars, clientVars, Delivery!vars
  <2>p. ASSUME Publish, UNCHANGED cursor PROVE [Delivery!Next]_Delivery!vars
    BY <2>p DEF Publish, Delivery!Next, Delivery!Publish
  <2>t. \A h \in Handlers : chan[h] \in Seq(Nat) /\ pending[h] \in Seq(Nat)
                           /\ written[h] \in Nat /\ seq \in Nat
    BY DEF TypeOK
  <2>1. CASE PickTarget \/ Unlist \/ Close
    BY <2>1 DEF PickTarget, Unlist, Close
  <2>2. CASE PublishNotification
    BY <2>2, <2>p DEF PublishNotification
  <2>3. ASSUME NEW k \in Clients, NEW h \in Handlers,
               NEW mode \in {"resume", "fresh", "fallback"}, Connect(k, h, mode)
        PROVE  [Delivery!Next]_Delivery!vars
    BY <2>3 DEF Connect
  <2>4. ASSUME NEW h \in Handlers, HandlerStep(h)
        PROVE  [Delivery!Next]_Delivery!vars
    <3>1. CASE ReadReplay(h) \/ ReplayDone(h) \/ CheckPrime(h) \/ Subscribe(h)
               \/ StreamEnded(h) \/ HangUp(h) \/ Leave(h)
      BY <3>1 DEF ReadReplay, ReplayDone, CheckPrime, Subscribe, StreamEnded, HangUp, Leave
    <3>w. ASSUME pending[h] # <<>>
          PROVE  Head(pending[h]) \in Nat /\ written[h] < Head(pending[h])
                 /\ Head(pending[h]) <= seq
      BY <2>t, <3>w, TailAscends DEF ConnectionInOrder
    <3>2. CASE WriteReplay(h)
      BY <3>2, <3>w, WriteDelivers DEF WriteReplay
    <3>3. CASE PublishPrime(h)
      BY <3>3, <2>p DEF PublishPrime
    <3>4. CASE WritePrime(h)
      <4>1. CASE pending[h] = <<>>
        BY <3>4, <4>1 DEF WritePrime
      <4>2. CASE pending[h] # <<>>
        BY <3>4, <4>2, <3>w, WriteDelivers DEF WritePrime
      <4> QED BY <4>1, <4>2
    <3>5. CASE Receive(h)
      <4>1. Head(chan[h]) \in Nat /\ written[h] < Head(chan[h]) /\ Head(chan[h]) <= seq
        BY <2>t, <3>5, TailAscends DEF Receive, ConnectionInOrder
      <4> QED BY <3>5, <4>1, WriteDelivers DEF Receive
    <3> QED BY <2>4, <3>1, <3>2, <3>3, <3>4, <3>5 DEF HandlerStep
  <2>5. ASSUME NEW k \in Clients, Disconnect(k)
        PROVE  [Delivery!Next]_Delivery!vars
    BY <2>5 DEF Disconnect
  <2>6. CASE UNCHANGED vars
    BY <2>6 DEF vars
  <2> QED BY <2>1, <2>2, <2>3, <2>4, <2>5, <2>6 DEF Next
<1> QED BY <1>1, <1>2, AllInv, PTL DEF Spec, AtMostOnceInOrder, Delivery!Spec

=============================================================================
