--------------------------- MODULE RpcServerProofs ---------------------------
(***************************************************************************)
(* What TLAPS proves of RpcServer, for any goroutines, sessions, names and *)
(* batches and any bound on the registrations.                             *)
(***************************************************************************)
EXTENDS RpcServer, LeastElements, FiniteSetTheorems, SequenceTheorems, TLAPS

-----------------------------------------------------------------------------
(* Kept *)

\* Kept gives a sequence of elements of s, and all of s when all are to be kept.
LEMMA KeptSequence ==
  ASSUME NEW S, NEW s \in Seq(S), NEW keep
  PROVE  /\ Kept(s, keep) \in Seq(S)
         /\ Elements(s) \subseteq keep => Kept(s, keep) = s
<1> DEFINE next(f, i) == IF s[i] \in keep THEN Append(f[i - 1], s[i]) ELSE f[i - 1]
           UpTo(f, n) == /\ f \in [0..n -> Seq(S)]
                         /\ f[0] = <<>>
                         /\ \A i \in 1..n : f[i] = next(f, i)
           Body(f) == [i \in 0..Len(s) |->
                         IF i = 0 THEN <<>>
                         ELSE IF s[i] \in keep THEN Append(f[i - 1], s[i]) ELSE f[i - 1]]
           upTo == CHOOSE f : f = Body(f)
<1>1. Len(s) \in Nat /\ DOMAIN s = 1..Len(s) /\ \A i \in 1..Len(s) : s[i] \in S
  BY LenProperties, ElementOfSeq
<1>2. \A n \in 0..Len(s) : \E f : UpTo(f, n)
  <2> DEFINE T == {n \in 0..Len(s) : ~\E f : UpTo(f, n)}
  <2>1. SUFFICES T = {}
    OBVIOUS
  <2>2. SUFFICES ASSUME T # {} PROVE FALSE
    OBVIOUS
  <2>a. T \in SUBSET Nat
    BY <1>1
  <2>3. PICK n \in T : \A y \in T : n <= y
    <3> HIDE DEF T
    <3> QED BY <2>2, <2>a, LeastNatural
  <2>4. UpTo([i \in 0..0 |-> <<>>], 0)
    BY EmptySeq
  <2>5. n \in 1..Len(s)
    <3>1. n \in 0..Len(s) /\ ~\E f : UpTo(f, n)
      BY <2>3
    <3>2. n # 0
      <4> HIDE DEF UpTo
      <4> QED BY <3>1, <2>4
    <3> QED BY <3>1, <3>2, <1>1
  <2>6. n - 1 \in 0..Len(s) /\ n - 1 \notin T
    <3> HIDE DEF UpTo
    <3>1. n - 1 \in 0..Len(s) /\ ~(n <= n - 1)
      BY <2>5, <1>1
    <3> QED BY <3>1, <2>3
  <2>7. PICK f : UpTo(f, n - 1)
    <3> HIDE DEF UpTo
    <3> QED BY <2>6
  <2> DEFINE g == [i \in 0..n |-> IF i = n THEN next(f, n) ELSE f[i]]
  <2>8. next(f, n) \in Seq(S)
    BY <2>5, <2>7, <1>1
  <2>9. g \in [0..n -> Seq(S)]
    BY <2>5, <2>7, <2>8
  <2>10. g[0] = <<>>
    BY <2>5, <2>7
  <2>11. ASSUME NEW i \in 1..n PROVE g[i] = next(g, i)
    <3>1. g[i - 1] = f[i - 1]
      BY <2>5
    <3>2. CASE i = n
      BY <3>1, <3>2, <2>5
    <3>3. CASE i # n
      BY <3>1, <3>3, <2>5, <2>7, SMTT(40)
    <3> QED BY <3>2, <3>3
  <2>12. UpTo(g, n)
    BY <2>9, <2>10, <2>11
  <2> QED BY <2>12, <2>3
<1>3. PICK g : UpTo(g, Len(s))
  <2>1. Len(s) \in 0..Len(s)
    BY <1>1
  <2> HIDE DEF UpTo
  <2> QED BY <1>2, <2>1
<1>4. g = Body(g)
  <2>1. /\ g \in [0..Len(s) -> Seq(S)]
        /\ g[0] = <<>>
        /\ \A i \in 1..Len(s) : g[i] = next(g, i)
    BY <1>3
  <2>2. ASSUME NEW i \in 0..Len(s) PROVE g[i] = Body(g)[i]
    <3>1. CASE i = 0
      BY <2>1, <3>1
    <3>2. CASE i # 0
      <4>1. i \in 1..Len(s)
        BY <3>2, <1>1
      <4> QED BY <2>1, <3>2, <4>1
    <3> QED BY <3>1, <3>2
  <2>3. DOMAIN g = 0..Len(s) /\ g = [i \in 0..Len(s) |-> g[i]]
    BY <2>1
  <2>4. Body(g) = [i \in 0..Len(s) |-> Body(g)[i]]
    OBVIOUS
  <2> HIDE DEF Body
  <2> QED BY <2>2, <2>3, <2>4
<1>5. upTo = Body(upTo)
  BY <1>4
<1>6. Kept(s, keep) = upTo[Len(s)]
  BY DEF Kept
<1> HIDE DEF upTo
<1>7. /\ upTo[0] = <<>>
      /\ \A i \in 1..Len(s) : upTo[i] = IF s[i] \in keep THEN Append(upTo[i - 1], s[i]) ELSE upTo[i - 1]
  <2>1. \A i \in 0..Len(s) : upTo[i] = Body(upTo)[i]
    BY <1>5
  <2> QED BY <2>1, <1>1
<1>8. \A n \in 0..Len(s) : upTo[n] \in Seq(S)
  <2> DEFINE T == {n \in 0..Len(s) : upTo[n] \notin Seq(S)}
  <2>1. SUFFICES ASSUME T # {} PROVE FALSE
    OBVIOUS
  <2>a. T \in SUBSET Nat
    BY <1>1
  <2>2. PICK n \in T : \A y \in T : n <= y
    <3> HIDE DEF T
    <3> QED BY <2>1, <2>a, LeastNatural
  <2>3. n \in 1..Len(s)
    <3>1. n \in 0..Len(s) /\ upTo[n] \notin Seq(S)
      BY <2>2
    <3>2. upTo[0] \in Seq(S)
      BY <1>7, EmptySeq
    <3>3. n # 0
      BY <3>1, <3>2
    <3> QED BY <3>1, <3>3, <1>1
  <2>4. n - 1 \in 0..Len(s) /\ n - 1 \notin T
    <3>1. n - 1 \in 0..Len(s) /\ ~(n <= n - 1)
      BY <2>3, <1>1
    <3> HIDE DEF T
    <3> QED BY <3>1, <2>2
  <2>5. upTo[n - 1] \in Seq(S) /\ s[n] \in S
    BY <2>3, <2>4, <1>1
  <2>6. upTo[n] = IF s[n] \in keep THEN Append(upTo[n - 1], s[n]) ELSE upTo[n - 1]
    BY <2>3, <1>7
  <2>7. upTo[n] \in Seq(S)
    <3> HIDE DEF T
    <3> QED BY <2>5, <2>6
  <2> QED BY <2>2, <2>7
<1>9. ASSUME Elements(s) \subseteq keep PROVE \A n \in 0..Len(s) : upTo[n] = SubSeq(s, 1, n)
  <2> DEFINE T == {n \in 0..Len(s) : upTo[n] # SubSeq(s, 1, n)}
  <2>1. SUFFICES ASSUME T # {} PROVE FALSE
    OBVIOUS
  <2>a. T \in SUBSET Nat
    BY <1>1
  <2>2. PICK n \in T : \A y \in T : n <= y
    <3> HIDE DEF T
    <3> QED BY <2>1, <2>a, LeastNatural
  <2>3. n \in 1..Len(s)
    <3>1. n \in 0..Len(s) /\ upTo[n] # SubSeq(s, 1, n)
      BY <2>2
    <3>2. upTo[0] = SubSeq(s, 1, 0)
      BY <1>7, SubSeqEmpty
    <3>3. n # 0
      BY <3>1, <3>2
    <3> QED BY <3>1, <3>3, <1>1
  <2>4. n - 1 \in 0..Len(s) /\ n - 1 \notin T
    <3>1. n - 1 \in 0..Len(s) /\ ~(n <= n - 1)
      BY <2>3, <1>1
    <3> HIDE DEF T
    <3> QED BY <3>1, <2>2
  <2>5. upTo[n] = Append(SubSeq(s, 1, n - 1), s[n])
    BY <1>9, <2>3, <2>4, <1>1, <1>7 DEF Elements
  <2>6. SubSeq(s, 1, n) = Append(SubSeq(s, 1, n - 1), s[n])
    <3>1. SubSeq(s, 1, n) = SubSeq(s, 1, n - 1) \o <<s[n]>>
      BY <2>3, <1>1, SubSeqRecursiveSecond
    <3>2. SubSeq(s, 1, n - 1) \in Seq(S)
      BY <2>3, <1>1, SubSeqProperties
    <3> QED BY <3>1, <3>2, <2>3, <1>1
  <2> QED BY <2>2, <2>5, <2>6
<1> QED BY <1>1, <1>6, <1>8, <1>9, SubSeqFull

-----------------------------------------------------------------------------
(* Types, and where a goroutine is in its batch *)

Places == {"idle", "dispatch", "rlock", "reading", "running",
           "lock", "waiting", "writing", "reply"}

\* The places at which HandleRaw is busy with an item.
Handling == Places \ {"idle", "reply"}

Responses ==
  [to : Nat, body : {"result", "error", "neither"}, shows : Seq(Names \cup Kinds)]

RegistryTypes ==
  /\ order \in [Kinds -> Seq(Names)]
  /\ entries \in [Kinds -> SUBSET Names]
  /\ adding \in [Procs -> {<<>>} \cup (Kinds \X Names)]
  /\ \A p \in Procs : pc[p] \in {"lock", "waiting", "writing"} => adding[p] # <<>>

RequestTypes ==
  /\ ready \in SUBSET Sessions
  /\ pc \in [Procs -> Places]
  /\ sess \in [Callers -> Sessions \cup {NoSession}]
  /\ msg \in [Callers -> Seq(Item)]
  /\ pos \in [Callers -> Nat]
  /\ out \in [Callers -> Seq(Responses)]

\* The loop of dispatchBatch is at an item, or past the last one.
Within ==
  \A c \in Callers :
    /\ pc[c] \in Handling => pos[c] \in 1..Len(msg[c])
    /\ IF pc[c] = "idle" THEN msg[c] = <<>> /\ out[c] = <<>> ELSE sess[c] \in Sessions
    /\ pc[c] = "reply" => pos[c] = Len(msg[c]) + 1
    /\ msg[c] = <<>> => \A j \in DOMAIN out[c] : out[c][j].to = 0

\* What a goroutine past the gates of dispatchSingle has been let through for.
Granted ==
  \A c \in Callers :
    /\ pc[c] \in Handling \ {"dispatch"} => sess[c] \in ready
    /\ pc[c] \in {"rlock", "reading"} => At(c).method \in {"initialize", "list", "call"}
    /\ pc[c] \in {"running", "lock", "waiting", "writing"} => At(c).method = "call"

Base == RegistryTypes /\ RequestTypes /\ Within /\ Granted

LEMMA BaseInit == Init => Base
<1> SUFFICES ASSUME Init PROVE Base
  OBVIOUS
<1>1. RegistryTypes
  BY EmptySeq DEF Init, RegistryTypes
<1>2. RequestTypes
  BY EmptySeq DEF Init, RequestTypes, Places, Procs
<1>3. \A c \in Callers : pc[c] = "idle" /\ msg[c] = <<>> /\ out[c] = <<>>
  BY DEF Init, Procs
<1>4. Within
  BY <1>3 DEF Within, Handling
<1>5. Granted
  BY <1>3 DEF Granted, Handling
<1> QED BY <1>1, <1>2, <1>4, <1>5 DEF Base

\* The item a goroutine is at, and its next position.
LEMMA AtItem ==
  ASSUME Base, NEW c \in Callers, pc[c] \in Handling
  PROVE  /\ At(c) \in Item /\ pos[c] \in Nat \ {0} /\ pos[c] \in DOMAIN msg[c]
         /\ Len(msg[c]) \in Nat /\ pos[c] <= Len(msg[c]) /\ msg[c] # <<>>
<1>1. msg[c] \in Seq(Item) /\ pos[c] \in 1..Len(msg[c])
  BY DEF Base, RequestTypes, Within
<1> QED BY <1>1, LenProperties, ElementOfSeq, EmptySeq DEF At

\* A list as a client sees it, and the capabilities.
LEMMA ShowsTypes ==
  ASSUME Base
  PROVE  /\ <<>> \in Seq(Names \cup Kinds)
         /\ Capabilities \in Seq(Names \cup Kinds)
         /\ \A k \in Kinds : Listing(k) \in Seq(Names)
         /\ \A k \in Kinds : Listing(k) \in Seq(Names \cup Kinds)
<1>1. <<>> \in Seq(Names \cup Kinds)
  BY EmptySeq
<1>2. Capabilities \in Seq(Names \cup Kinds)
  <2>1. <<"tools", "resources", "prompts">> \in Seq(Names \cup Kinds)
    BY DEF Kinds, Keyed
  <2> QED BY <2>1, KeptSequence DEF Capabilities
<1>3. ASSUME NEW k \in Kinds PROVE Listing(k) \in Seq(Names)
  <2>1. order[k] \in Seq(Names)
    BY DEF Base, RegistryTypes
  <2> QED BY <2>1, KeptSequence DEF Listing
<1> QED BY <1>1, <1>2, <1>3, SeqMonotonic

-----------------------------------------------------------------------------
(* The ways an item ends *)

\* What a response says of the item it answers, or of one whose id it has not got.
Proper(c, r) ==
  \/ r.to = 0 /\ At(c).method \in {"malformed", "call"}
  \/ /\ r.to = pos[c]
     /\ sess[c] \in ready \/ At(c).method \notin {"list", "call"} \/ r.body = "error"
     /\ At(c).method = "list" => r.shows \in {<<>>, Listing(At(c).kind)}

\* The item is done with, and has got the response it is owed, if any.
Answered(c) ==
  /\ pc[c] \in {"dispatch", "reading", "running"}
  /\ Advance(c) /\ UNCHANGED <<registry, ready, adding>>
  /\ IF pos[c] \in Answerable(msg[c])
       THEN \E r \in Responses : Proper(c, r) /\ out' = [out EXCEPT ![c] = Append(@, r)]
       ELSE UNCHANGED out

\* The steps inside HandleRaw.
Inside(c) ==
  \/ Malformed(c) \/ Immediate(c) \/ Initialize(c) \/ Gated(c)
  \/ RLock(c) \/ ReadAndAnswer(c) \/ LookUp(c) \/ HandlerReturns(c)

LEMMA FinishedAnswers ==
  ASSUME Base, NEW c \in Callers, NEW body \in {"result", "error", "neither"},
         NEW shows \in Seq(Names \cup Kinds), Finished(c, body, shows),
         pc[c] \in {"dispatch", "reading", "running"}, UNCHANGED <<registry, ready, adding>>,
         At(c).method # "malformed",
         sess[c] \in ready \/ At(c).method \notin {"list", "call"} \/ body = "error",
         At(c).method = "list" => shows \in {<<>>, Listing(At(c).kind)}
  PROVE  Answered(c)
<1>1. /\ At(c) \in Item /\ pos[c] \in Nat \ {0} /\ pos[c] \in DOMAIN msg[c]
      /\ At(c) = msg[c][pos[c]]
  BY AtItem DEF Handling, Places, At
<1>2. pos[c] \in Answerable(msg[c]) <=> At(c).id
  BY <1>1 DEF Answerable
<1>3. Advance(c)
  BY DEF Finished
<1>4. CASE At(c).id
  <2>1. out' = [out EXCEPT ![c] = Append(@, Reply(pos[c], body, shows))]
    BY <1>4 DEF Finished
  <2>2. Reply(pos[c], body, shows) \in Responses
    BY <1>1 DEF Reply, Responses
  <2>3. Proper(c, Reply(pos[c], body, shows))
    BY DEF Proper, Reply
  <2> QED BY <1>2, <1>3, <1>4, <2>1, <2>2, <2>3 DEF Answered
<1>5. CASE ~At(c).id
  <2>1. out' = out
    BY <1>5 DEF Finished, Base, RequestTypes
  <2> QED BY <1>2, <1>3, <1>5, <2>1 DEF Answered
<1> QED BY <1>4, <1>5

\* A step inside HandleRaw ends the item, or leaves the request alone.
LEMMA InsideSteps ==
  ASSUME Base, NEW c \in Callers, Inside(c)
  PROVE  /\ UNCHANGED <<registry, adding>>
         /\ \/ Answered(c)
            \/ /\ UNCHANGED request
               /\ \/ /\ pc[c] = "dispatch" /\ pc' = [pc EXCEPT ![c] = "rlock"]
                     /\ At(c).method \in {"initialize", "list", "call"}
                     /\ ready' = ready \cup {sess[c]}
                  \/ /\ pc[c] = "rlock" /\ pc' = [pc EXCEPT ![c] = "reading"]
                     /\ UNCHANGED ready
                  \/ /\ pc[c] = "reading" /\ pc' = [pc EXCEPT ![c] = "running"]
                     /\ At(c).method = "call" /\ UNCHANGED ready
<1>1. pc[c] \in Handling
  BY DEF Inside, Malformed, Immediate, Initialize, Gated, RLock, ReadAndAnswer, LookUp,
         HandlerReturns, Handling, Places
<1>2. /\ At(c) \in Item /\ pos[c] \in Nat \ {0} /\ pos[c] \in DOMAIN msg[c]
      /\ At(c) = msg[c][pos[c]] /\ At(c).kind \in Kinds
  BY <1>1, AtItem DEF At, Item
<1>3. <<>> \in Seq(Names \cup Kinds) /\ Capabilities \in Seq(Names \cup Kinds)
      /\ Listing(At(c).kind) \in Seq(Names \cup Kinds)
  BY <1>2, ShowsTypes
<1>4. Reply(0, "error", <<>>) \in Responses
  BY <1>3 DEF Reply, Responses
<1>5. /\ pc[c] = "reading" => At(c).method \in {"initialize", "list", "call"} /\ sess[c] \in ready
      /\ pc[c] = "running" => At(c).method = "call" /\ sess[c] \in ready
  BY <1>1 DEF Base, Granted, Handling
<1>6. UNCHANGED <<registry, adding>>
  BY DEF Inside, Malformed, Immediate, Initialize, Gated, RLock, ReadAndAnswer, LookUp,
         HandlerReturns, registry
<1>7. CASE Malformed(c)
  <2>1. pos[c] \in Answerable(msg[c])
    BY <1>2, <1>7 DEF Malformed, Answerable
  <2>2. Proper(c, Reply(0, "error", <<>>))
    BY <1>7 DEF Malformed, Proper, Reply
  <2> QED BY <1>4, <1>6, <1>7, <2>1, <2>2 DEF Malformed, Answered
<1>8. CASE Immediate(c)
  BY <1>3, <1>6, <1>8, FinishedAnswers DEF Immediate
<1>9. CASE Initialize(c)
  BY <1>3, <1>6, <1>9, FinishedAnswers DEF Initialize
<1>10. CASE Gated(c)
  <2>1. sess[c] \in ready => ready \cup {sess[c]} = ready
    OBVIOUS
  <2> QED BY <1>3, <1>6, <1>10, <2>1, FinishedAnswers DEF Gated
<1>11. CASE RLock(c)
  BY <1>6, <1>11 DEF RLock
<1>12. CASE ReadAndAnswer(c)
  BY <1>3, <1>5, <1>6, <1>12, FinishedAnswers DEF ReadAndAnswer
<1>13. CASE LookUp(c)
  BY <1>3, <1>5, <1>6, <1>13, FinishedAnswers DEF LookUp
<1>14. CASE HandlerReturns(c)
  <2>1. CASE \E body \in {"result", "error"} : Finished(c, body, <<>>)
    BY <1>3, <1>5, <1>6, <1>14, <2>1, FinishedAnswers DEF HandlerReturns
  <2>2. CASE Unmarshalable(c)
    <3>1. pos[c] \in Answerable(msg[c]) <=> At(c).id
      BY <1>2, <1>5, <1>14 DEF Answerable, HandlerReturns
    <3>2. Proper(c, Reply(0, "error", <<>>))
      BY <1>5, <1>14 DEF HandlerReturns, Proper, Reply
    <3>3. ~At(c).id => out' = out
      BY <2>2 DEF Unmarshalable, Base, RequestTypes
    <3> QED BY <1>4, <1>6, <1>14, <2>2, <3>1, <3>2, <3>3 DEF HandlerReturns, Unmarshalable, Answered
  <2> QED BY <1>14, <2>1, <2>2 DEF HandlerReturns
<1> QED BY <1>6, <1>7, <1>8, <1>9, <1>10, <1>11, <1>12, <1>13, <1>14 DEF Inside

-----------------------------------------------------------------------------
(* The kinds of steps, and that they keep Base *)

LEMMA StepCases ==
  ASSUME [Next]_vars
  PROVE  \/ \E c \in Callers, s \in Sessions, m \in Messages : Submit(c, s, m)
         \/ \E c \in Callers : Inside(c) \/ Deliver(c)
         \/ \E p \in Procs : WriterStep(p) \/ \E x \in Primitives : BeginAdd(p, x)
         \/ UNCHANGED vars
BY DEF Next, CallerStep, Inside, Procs

\* Registration steps leave HandleRaw's variables alone, and move between the places
\* of the write lock and those they came from.
LEMMA WriterMoves ==
  ASSUME Base, NEW p \in Procs,
         WriterStep(p) \/ \E x \in Primitives : BeginAdd(p, x)
  PROVE  /\ UNCHANGED <<ready, request>>
         /\ \E to \in Places :
              /\ pc' = [pc EXCEPT ![p] = to]
              /\ p \in Callers =>
                   /\ pc[p] \in {"running", "lock", "waiting", "writing"}
                   /\ to \in {"running", "lock", "waiting", "writing"}
         /\ pc[p] = "writing" \/ UNCHANGED registry
<1>1. p \in Callers => p \notin Apps
  BY ProcsAssumption
<1>2. CASE Announce(p)
  BY <1>1, <1>2 DEF Announce, Places
<1>3. CASE Acquire(p)
  BY <1>1, <1>3 DEF Acquire, Places
<1>4. CASE Add(p)
  BY <1>1, <1>4 DEF Add, Places
<1>5. CASE \E x \in Primitives : BeginAdd(p, x)
  BY <1>1, <1>5 DEF BeginAdd, Places
<1> QED BY <1>2, <1>3, <1>4, <1>5 DEF WriterStep

LEMMA RegistryTypesStep ==
  ASSUME Base, [Next]_vars
  PROVE  RegistryTypes'
<1> USE DEF Base
<1>1. CASE \E c \in Callers, s \in Sessions, m \in Messages : Submit(c, s, m)
  BY <1>1 DEF Submit, registry, RegistryTypes, RequestTypes, Procs
<1>2. CASE \E c \in Callers : Inside(c)
  <2>1. PICK c \in Callers : Inside(c)
    BY <1>2
  <2>2. UNCHANGED <<registry, adding>>
    BY <2>1, InsideSteps
  <2>3. \/ Advance(c)
        \/ \E to \in {"rlock", "reading", "running"} : pc' = [pc EXCEPT ![c] = to]
    BY <2>1, InsideSteps DEF Answered
  <2>4. \A p \in Procs : pc'[p] \in {"lock", "waiting", "writing"} => pc'[p] = pc[p]
    BY <2>3 DEF Advance, RequestTypes, Procs
  <2> QED BY <2>2, <2>4 DEF RegistryTypes, registry
<1>3. CASE \E c \in Callers : Deliver(c)
  BY <1>3 DEF Deliver, registry, RegistryTypes, RequestTypes, Procs
<1>4. ASSUME NEW p \in Procs, Announce(p) \/ Acquire(p) PROVE RegistryTypes'
  BY <1>4 DEF Announce, Acquire, registry, RegistryTypes, RequestTypes
<1>5. ASSUME NEW p \in Procs, Add(p) PROVE RegistryTypes'
  <2>1. adding[p] \in Kinds \X Names /\ pc[p] = "writing"
    BY <1>5 DEF Add, RegistryTypes
  <2>2. adding[p][1] \in Kinds /\ adding[p][2] \in Names
    BY <2>1
  <2>3. Added(adding[p][1], adding[p][2]) \in Seq(Names)
    BY <2>2 DEF Added, RegistryTypes
  <2>4. order' \in [Kinds -> Seq(Names)]
    BY <1>5, <2>2, <2>3 DEF Add, RegistryTypes
  <2>5. entries' \in [Kinds -> SUBSET Names]
    BY <1>5, <2>2 DEF Add, RegistryTypes
  <2>6. adding' \in [Procs -> {<<>>} \cup (Kinds \X Names)]
    BY <1>5 DEF Add, RegistryTypes
  <2>7. \A q \in Procs : pc'[q] \in {"lock", "waiting", "writing"} => adding'[q] # <<>>
    BY <1>5 DEF Add, RegistryTypes, RequestTypes
  <2> QED BY <2>4, <2>5, <2>6, <2>7 DEF RegistryTypes
<1>6. ASSUME NEW p \in Procs, NEW x \in Primitives, BeginAdd(p, x) PROVE RegistryTypes'
  <2>1. x \in Kinds \X Names /\ x # <<>>
    BY PrimitivesAssumption
  <2> QED BY <1>6, <2>1 DEF BeginAdd, registry, RegistryTypes, RequestTypes
<1>7. CASE UNCHANGED vars
  BY <1>7 DEF vars, registry, RegistryTypes
<1> QED BY <1>1, <1>2, <1>3, <1>4, <1>5, <1>6, <1>7, StepCases DEF WriterStep

LEMMA RequestTypesStep ==
  ASSUME Base, [Next]_vars
  PROVE  RequestTypes'
<1> USE DEF Base
<1>1. ASSUME NEW c \in Callers, NEW s \in Sessions, NEW m \in Messages, Submit(c, s, m)
      PROVE  RequestTypes'
  <2>1. m \in Seq(Item)
    BY MessagesAssumption
  <2>2. <<>> \in Seq(Responses) /\ <<Reply(0, "error", <<>>)>> \in Seq(Responses)
    BY ShowsTypes, EmptySeq DEF Reply, Responses
  <2> QED BY <1>1, <2>1, <2>2 DEF Submit, RequestTypes, Places
<1>2. ASSUME NEW c \in Callers, Inside(c) PROVE RequestTypes'
  <2>1. CASE Answered(c)
    <3>1. out' \in [Callers -> Seq(Responses)]
      <4>1. UNCHANGED out \/ \E r \in Responses : out' = [out EXCEPT ![c] = Append(@, r)]
        BY <2>1 DEF Answered
      <4>2. out \in [Callers -> Seq(Responses)]
        BY DEF RequestTypes
      <4>3. ASSUME NEW r \in Responses, out' = [out EXCEPT ![c] = Append(@, r)]
            PROVE  out' \in [Callers -> Seq(Responses)]
        <5>1. Append(out[c], r) \in Seq(Responses)
          BY <4>2
        <5> QED BY <4>2, <4>3, <5>1
      <4> QED BY <4>1, <4>2, <4>3
    <3>2. /\ \E to \in Places : pc' = [pc EXCEPT ![c] = to]
          /\ pos' = [pos EXCEPT ![c] = @ + 1]
          /\ UNCHANGED <<ready, sess, msg>>
      BY <2>1 DEF Answered, Advance, Places
    <3>3. pc' \in [Procs -> Places]
      BY <3>2 DEF RequestTypes
    <3>4. pos' \in [Callers -> Nat]
      BY <3>2 DEF RequestTypes
    <3> QED BY <3>1, <3>2, <3>3, <3>4 DEF RequestTypes
  <2>2. CASE UNCHANGED request
    <3>1. \/ UNCHANGED ready
          \/ ready' = ready \cup {sess[c]} /\ sess[c] \in Sessions
      BY <1>2, InsideSteps DEF Answered, Within, Procs
    <3>2. ready' \in SUBSET Sessions
      BY <3>1 DEF RequestTypes
    <3>3. pc' \in [Procs -> Places]
      <4>1. \E to \in Places : pc' = [pc EXCEPT ![c] = to]
        BY <1>2, InsideSteps DEF Answered, Advance, Places
      <4> QED BY <4>1 DEF RequestTypes
    <3> QED BY <2>2, <3>2, <3>3 DEF request, RequestTypes
  <2> QED BY <1>2, <2>1, <2>2, InsideSteps
<1>3. ASSUME NEW c \in Callers, Deliver(c) PROVE RequestTypes'
  BY <1>3, EmptySeq DEF Deliver, RequestTypes, Places
<1>4. ASSUME NEW p \in Procs, WriterStep(p) \/ \E x \in Primitives : BeginAdd(p, x)
      PROVE  RequestTypes'
  BY <1>4, WriterMoves DEF request, RequestTypes
<1>5. CASE UNCHANGED vars
  BY <1>5 DEF vars, request, RequestTypes
<1> QED BY <1>1, <1>2, <1>3, <1>4, <1>5, StepCases

\* A step that answers leaves the other requests as they are.
LEMMA AnsweredFrame ==
  ASSUME Base, NEW c \in Callers, Answered(c), NEW d \in Callers
  PROVE  /\ msg'[d] = msg[d] /\ sess'[d] = sess[d] /\ ready' = ready
         /\ d # c => pc'[d] = pc[d] /\ pos'[d] = pos[d] /\ out'[d] = out[d]
         /\ d = c =>
              /\ pc[d] \in Handling /\ pos'[d] = pos[d] + 1
              /\ pc'[d] = IF pos[d] < Len(msg[d]) THEN "dispatch" ELSE "reply"
              /\ IF pos[d] \in Answerable(msg[d])
                   THEN \E r \in Responses : Proper(d, r) /\ out'[d] = Append(out[d], r)
                   ELSE out'[d] = out[d]
<1>1. /\ pc \in [Procs -> Places] /\ d \in Procs
      /\ pos \in [Callers -> Nat] /\ out \in [Callers -> Seq(Responses)]
  BY DEF Base, RequestTypes, Procs
<1>2. Advance(c) /\ ready' = ready /\ pc[c] \in Handling
  BY DEF Answered, Handling, Places
<1>3. \/ pos[c] \notin Answerable(msg[c]) /\ UNCHANGED out
      \/ /\ pos[c] \in Answerable(msg[c])
         /\ \E r \in Responses : Proper(c, r) /\ out' = [out EXCEPT ![c] = Append(@, r)]
  BY DEF Answered
<1>4. /\ msg'[d] = msg[d] /\ sess'[d] = sess[d] /\ ready' = ready
      /\ d # c => pc'[d] = pc[d] /\ pos'[d] = pos[d]
      /\ d = c => /\ pc[d] \in Handling /\ pos'[d] = pos[d] + 1
                  /\ pc'[d] = IF pos[d] < Len(msg[d]) THEN "dispatch" ELSE "reply"
  BY <1>1, <1>2 DEF Advance
<1>5. d # c => out'[d] = out[d]
  BY <1>1, <1>3
<1>6. d = c => IF pos[d] \in Answerable(msg[d])
                 THEN \E r \in Responses : Proper(d, r) /\ out'[d] = Append(out[d], r)
                 ELSE out'[d] = out[d]
  BY <1>1, <1>3
<1> QED BY <1>4, <1>5, <1>6

\* The five things a step can do to the request of a goroutine d.
Opened(d) ==
  \E m \in Messages :
    /\ sess'[d] \in Sessions /\ msg'[d] = m /\ pos'[d] = 1
    /\ IF m = <<>> THEN pc'[d] = "reply" /\ out'[d] = <<Reply(0, "error", <<>>)>>
                   ELSE pc'[d] = "dispatch" /\ out'[d] = <<>>

Went(d) ==
  /\ pc[d] \in Handling /\ pos'[d] = pos[d] + 1
  /\ pc'[d] = IF pos[d] < Len(msg[d]) THEN "dispatch" ELSE "reply"
  /\ IF pos[d] \in Answerable(msg[d])
       THEN \E r \in Responses : Proper(d, r) /\ out'[d] = Append(out[d], r)
       ELSE out'[d] = out[d]
  /\ UNCHANGED <<msg[d], sess[d], registry, ready>>

Delivered(d) == pc'[d] = "idle" /\ msg'[d] = <<>> /\ out'[d] = <<>>

Moved(d) ==
  /\ UNCHANGED <<msg[d], sess[d], pos[d], out[d]>>
  /\ pc[d] \in Handling
  /\ \/ /\ pc[d] = "dispatch" /\ pc'[d] = "rlock" /\ sess[d] \in ready'
        /\ At(d).method \in {"initialize", "list", "call"}
     \/ pc[d] = "rlock" /\ pc'[d] = "reading"
     \/ pc[d] = "reading" /\ pc'[d] = "running" /\ At(d).method = "call"
     \/ /\ pc[d] \in {"running", "lock", "waiting", "writing"}
        /\ pc'[d] \in {"running", "lock", "waiting", "writing"}

Stood(d) == UNCHANGED <<msg[d], sess[d], pos[d], out[d], pc[d]>>

LEMMA RequestSteps ==
  ASSUME Base, [Next]_vars, NEW d \in Callers
  PROVE  /\ Opened(d) \/ Went(d) \/ Delivered(d) \/ Moved(d) \/ Stood(d)
         /\ ready \subseteq ready'
<1>1. /\ pc \in [Procs -> Places] /\ d \in Procs
      /\ msg \in [Callers -> Seq(Item)] /\ sess \in [Callers -> Sessions \cup {NoSession}]
      /\ pos \in [Callers -> Nat] /\ out \in [Callers -> Seq(Responses)]
  BY DEF Base, RequestTypes, Procs
<1>2. ASSUME NEW c \in Callers, NEW s \in Sessions, NEW m \in Messages, Submit(c, s, m)
      PROVE  (Opened(d) \/ Stood(d)) /\ ready' = ready
  <2>1. CASE d = c
    BY <1>1, <1>2, <2>1 DEF Submit, Opened
  <2>2. CASE d # c
    BY <1>1, <1>2, <2>2 DEF Submit, Stood
  <2> QED BY <1>2, <2>1, <2>2 DEF Submit
<1>3. ASSUME NEW c \in Callers, Answered(c)
      PROVE  (Went(d) \/ Stood(d)) /\ ready' = ready
  <2>1. CASE d = c
    <3>1. UNCHANGED registry
      BY <1>3 DEF Answered
    <3> QED BY <1>3, <2>1, <3>1, AnsweredFrame DEF Went
  <2>2. CASE d # c
    BY <1>3, <2>2, AnsweredFrame DEF Stood
  <2> QED BY <1>3, <2>1, <2>2, AnsweredFrame
<1>4. ASSUME NEW c \in Callers, Inside(c), ~Answered(c)
      PROVE  (Moved(d) \/ Stood(d)) /\ ready \subseteq ready'
  <2>1. /\ UNCHANGED request
        /\ \/ /\ pc[c] = "dispatch" /\ pc' = [pc EXCEPT ![c] = "rlock"]
              /\ At(c).method \in {"initialize", "list", "call"}
              /\ ready' = ready \cup {sess[c]}
           \/ pc[c] = "rlock" /\ pc' = [pc EXCEPT ![c] = "reading"] /\ UNCHANGED ready
           \/ /\ pc[c] = "reading" /\ pc' = [pc EXCEPT ![c] = "running"]
              /\ At(c).method = "call" /\ UNCHANGED ready
    BY <1>4, InsideSteps
  <2>2. CASE d = c
    BY <1>1, <2>1, <2>2 DEF request, Moved, Handling, Places
  <2>3. CASE d # c
    BY <1>1, <2>1, <2>3 DEF request, Stood
  <2> QED BY <2>1, <2>2, <2>3
<1>5. ASSUME NEW c \in Callers, Deliver(c)
      PROVE  (Delivered(d) \/ Stood(d)) /\ ready' = ready
  <2>1. CASE d = c
    BY <1>1, <1>5, <2>1 DEF Deliver, Delivered
  <2>2. CASE d # c
    BY <1>1, <1>5, <2>2 DEF Deliver, Stood
  <2> QED BY <1>5, <2>1, <2>2 DEF Deliver
<1>6. ASSUME NEW p \in Procs, WriterStep(p) \/ \E x \in Primitives : BeginAdd(p, x)
      PROVE  (Moved(d) \/ Stood(d)) /\ ready' = ready
  <2>1. PICK to \in Places :
          /\ UNCHANGED <<ready, request>> /\ pc' = [pc EXCEPT ![p] = to]
          /\ p \in Callers => /\ pc[p] \in {"running", "lock", "waiting", "writing"}
                              /\ to \in {"running", "lock", "waiting", "writing"}
    BY <1>6, WriterMoves
  <2>2. CASE d = p
    BY <1>1, <2>1, <2>2 DEF request, Moved, Handling, Places
  <2>3. CASE d # p
    BY <1>1, <2>1, <2>3 DEF request, Stood
  <2> QED BY <2>1, <2>2, <2>3
<1>7. CASE UNCHANGED vars
  BY <1>7 DEF vars, request, Stood
<1> QED BY <1>2, <1>3, <1>4, <1>5, <1>6, <1>7, StepCases

LEMMA WithinStep ==
  ASSUME Base, [Next]_vars
  PROVE  Within'
<1> SUFFICES ASSUME NEW d \in Callers
             PROVE  /\ pc'[d] \in Handling => pos'[d] \in 1..Len(msg'[d])
                    /\ IF pc'[d] = "idle" THEN msg'[d] = <<>> /\ out'[d] = <<>>
                                          ELSE sess'[d] \in Sessions
                    /\ pc'[d] = "reply" => pos'[d] = Len(msg'[d]) + 1
                    /\ msg'[d] = <<>> => \A j \in DOMAIN out'[d] : out'[d][j].to = 0
  BY DEF Within
<1>1. /\ pc[d] \in Handling => pos[d] \in 1..Len(msg[d])
      /\ IF pc[d] = "idle" THEN msg[d] = <<>> /\ out[d] = <<>> ELSE sess[d] \in Sessions
      /\ pc[d] = "reply" => pos[d] = Len(msg[d]) + 1
      /\ msg[d] = <<>> => \A j \in DOMAIN out[d] : out[d][j].to = 0
  BY DEF Base, Within
<1>2. CASE Opened(d)
  <2>1. PICK m \in Messages :
          /\ sess'[d] \in Sessions /\ msg'[d] = m /\ pos'[d] = 1
          /\ IF m = <<>> THEN pc'[d] = "reply" /\ out'[d] = <<Reply(0, "error", <<>>)>>
                         ELSE pc'[d] = "dispatch" /\ out'[d] = <<>>
    BY <1>2 DEF Opened
  <2>2. m \in Seq(Item)
    BY MessagesAssumption
  <2>3. CASE m = <<>>
    BY <2>1, <2>3 DEF Reply, Handling
  <2>4. CASE m # <<>>
    <3>1. Len(m) \in Nat \ {0}
      BY <2>2, <2>4, EmptySeq
    <3> QED BY <2>1, <2>4, <3>1
  <2> QED BY <2>3, <2>4
<1>3. CASE Went(d)
  <2>1. /\ pos[d] \in Nat \ {0} /\ Len(msg[d]) \in Nat /\ pos[d] <= Len(msg[d]) /\ msg[d] # <<>>
    BY <1>3, AtItem DEF Went
  <2> QED BY <1>1, <1>3, <2>1 DEF Went, Handling
<1>4. CASE Delivered(d)
  BY <1>4 DEF Delivered, Handling
<1>5. CASE Moved(d)
  BY <1>1, <1>5 DEF Moved, Handling, Places
<1>6. CASE Stood(d)
  BY <1>1, <1>6 DEF Stood
<1> QED BY <1>2, <1>3, <1>4, <1>5, <1>6, RequestSteps

LEMMA GrantedStep ==
  ASSUME Base, [Next]_vars
  PROVE  Granted'
<1> SUFFICES ASSUME NEW d \in Callers
             PROVE  /\ pc'[d] \in Handling \ {"dispatch"} => sess'[d] \in ready'
                    /\ pc'[d] \in {"rlock", "reading"} =>
                         At(d)'.method \in {"initialize", "list", "call"}
                    /\ pc'[d] \in {"running", "lock", "waiting", "writing"} => At(d)'.method = "call"
  BY DEF Granted
<1>1. /\ pc[d] \in Handling \ {"dispatch"} => sess[d] \in ready
      /\ pc[d] \in {"rlock", "reading"} => At(d).method \in {"initialize", "list", "call"}
      /\ pc[d] \in {"running", "lock", "waiting", "writing"} => At(d).method = "call"
      /\ ready \subseteq ready'
  BY RequestSteps DEF Base, Granted
<1>2. UNCHANGED <<msg[d], pos[d]>> => At(d)' = At(d)
  BY DEF At
<1>3. Opened(d) \/ Went(d) \/ Delivered(d) => pc'[d] \in {"idle", "dispatch", "reply"}
  BY DEF Opened, Went, Delivered
<1>4. CASE Moved(d)
  BY <1>1, <1>2, <1>4 DEF Moved, Handling, Places
<1>5. CASE Stood(d)
  BY <1>1, <1>2, <1>5 DEF Stood
<1> QED BY <1>3, <1>4, <1>5, RequestSteps DEF Handling

\* Types, the item each goroutine is at, and what it has been let through for.
THEOREM BaseHolds == Spec => []Base
<1>1. Base /\ [Next]_vars => Base'
  BY RegistryTypesStep, RequestTypesStep, WithinStep, GrantedStep DEF Base
<1> QED BY <1>1, BaseInit, PTL DEF Spec

-----------------------------------------------------------------------------
(* What the responses tell: readiness and lists *)

\* After a step that ends an item, a response is an old one, or that of this item.
LEMMA WentAnswers ==
  ASSUME Base, NEW d \in Callers, Went(d), NEW methods, NEW j \in Answers(d, methods)'
  PROVE  \/ j \in Answers(d, methods) /\ out'[d][j] = out[d][j]
         \/ /\ At(d).method \in methods /\ out'[d][j] \in Responses
            /\ Proper(d, out'[d][j]) /\ out'[d][j].to = pos[d]
<1>1. out[d] \in Seq(Responses) /\ pos[d] \in Nat
  BY DEF Base, RequestTypes
<1>2. j \in DOMAIN out'[d] /\ out'[d][j].to > 0 /\ msg[d][out'[d][j].to].method \in methods
  BY DEF Answers, Went
<1>3. CASE out'[d] = out[d]
  BY <1>2, <1>3 DEF Answers
<1>4. ASSUME NEW r \in Responses, Proper(d, r), out'[d] = Append(out[d], r)
      PROVE  \/ j \in Answers(d, methods) /\ out'[d][j] = out[d][j]
             \/ /\ At(d).method \in methods /\ out'[d][j] \in Responses
                /\ Proper(d, out'[d][j]) /\ out'[d][j].to = pos[d]
  <2>1. CASE j = Len(out[d]) + 1
    <3>1. out'[d][j] = r
      BY <1>1, <1>4, <2>1
    <3>2. r.to = pos[d]
      BY <1>2, <1>4, <3>1 DEF Proper
    <3> QED BY <1>2, <1>4, <3>1, <3>2 DEF At
  <2>2. CASE j # Len(out[d]) + 1
    <3>1. j \in DOMAIN out[d] /\ out'[d][j] = out[d][j]
      BY <1>1, <1>2, <1>4, <2>2
    <3> QED BY <1>2, <3>1 DEF Answers
  <2> QED BY <2>1, <2>2
<1> QED BY <1>3, <1>4 DEF Went

\* A step that does not end an item adds no response to an item.
LEMMA NoAnswers ==
  ASSUME Base, NEW d \in Callers, Opened(d) \/ Delivered(d) \/ Moved(d) \/ Stood(d),
         NEW methods, NEW j \in Answers(d, methods)'
  PROVE  /\ j \in Answers(d, methods)
         /\ UNCHANGED <<msg[d], sess[d], out[d]>>
<1>1. j \in DOMAIN out'[d] /\ out'[d][j].to > 0 /\ msg'[d][out'[d][j].to].method \in methods
  BY DEF Answers
<1>2. CASE Opened(d)
  <2>1. out'[d] = <<>> \/ out'[d] = <<Reply(0, "error", <<>>)>>
    BY <1>2 DEF Opened
  <2>2. out'[d] = <<>> => FALSE
    BY <1>1
  <2>3. out'[d] = <<Reply(0, "error", <<>>)>> => FALSE
    BY <1>1 DEF Reply
  <2> QED BY <2>1, <2>2, <2>3
<1>3. CASE Delivered(d)
  BY <1>1, <1>3 DEF Delivered
<1>4. CASE Moved(d) \/ Stood(d)
  BY <1>1, <1>4 DEF Moved, Stood, Answers
<1> QED BY <1>2, <1>3, <1>4

\* The errors that requireReady leaves a session without initialize with.
ErrorsOnly ==
  \A c \in Callers :
    sess[c] \in ready \/ \A j \in Answers(c, {"list", "call"}) : out[c][j].body = "error"

\* GatedAfterInitialize: nothing behind requireReady runs or answers before initialize.
THEOREM NothingBeforeInitialize == Spec => []GatedAfterInitialize
<1>1. Init => ErrorsOnly
  <2> SUFFICES ASSUME Init, NEW c \in Callers, NEW j \in Answers(c, {"list", "call"}) PROVE FALSE
    BY DEF ErrorsOnly
  <2> QED BY DEF Init, Answers
<1>2. ErrorsOnly /\ Base /\ [Next]_vars => ErrorsOnly'
  <2> SUFFICES ASSUME ErrorsOnly, Base, [Next]_vars, NEW d \in Callers, sess'[d] \notin ready',
                      NEW j \in Answers(d, {"list", "call"})'
               PROVE  out'[d][j].body = "error"
    BY DEF ErrorsOnly
  <2>1. ready \subseteq ready'
    BY RequestSteps
  <2>2. CASE Went(d)
    <3>1. sess[d] \notin ready
      BY <2>2 DEF Went
    <3>2. CASE j \in Answers(d, {"list", "call"}) /\ out'[d][j] = out[d][j]
      BY <3>1, <3>2 DEF ErrorsOnly
    <3>3. CASE At(d).method \in {"list", "call"} /\ Proper(d, out'[d][j]) /\ out'[d][j].to = pos[d]
      <4>1. out'[d][j].to # 0
        BY <2>2, <3>3, AtItem DEF Went
      <4> QED BY <3>1, <3>3, <4>1 DEF Proper
    <3> QED BY <2>2, <3>2, <3>3, WentAnswers
  <2>3. CASE ~Went(d)
    <3>1. j \in Answers(d, {"list", "call"}) /\ UNCHANGED <<msg[d], sess[d], out[d]>>
      BY <2>3, RequestSteps, NoAnswers
    <3> QED BY <2>1, <3>1 DEF ErrorsOnly
  <2> QED BY <2>2, <2>3
<1>3. ErrorsOnly /\ Base => GatedAfterInitialize
  <2> SUFFICES ASSUME ErrorsOnly, Base, NEW c \in Callers, sess[c] \notin ready
               PROVE  /\ pc[c] # "running"
                      /\ \A j \in Answers(c, {"list", "call"}) : out[c][j].body = "error"
    BY DEF GatedAfterInitialize
  <2>1. pc[c] # "running"
    BY DEF Base, Granted, Handling, Places
  <2> QED BY <2>1 DEF ErrorsOnly
<1> QED BY <1>1, <1>2, <1>3, BaseHolds, PTL DEF Spec

\* Whatever is in an order slice is in its map.
OrderInEntries == \A k \in Keyed : Elements(order[k]) \subseteq entries[k]

\* A registry of one kind only grows, at the end.
LEMMA OrderGrows ==
  ASSUME Base, [Next]_vars, NEW k \in Kinds
  PROVE  order'[k] = order[k] \/ \E n \in Names : order'[k] = Append(order[k], n)
<1>1. CASE UNCHANGED registry
  BY <1>1 DEF registry
<1>2. ASSUME NEW p \in Procs, Add(p)
      PROVE  order'[k] = order[k] \/ \E n \in Names : order'[k] = Append(order[k], n)
  <2>1. adding[p][1] \in Kinds /\ adding[p][2] \in Names /\ order \in [Kinds -> Seq(Names)]
    BY <1>2 DEF Add, Base, RegistryTypes
  <2>2. order' = [order EXCEPT ![adding[p][1]] = Added(adding[p][1], adding[p][2])]
    BY <1>2 DEF Add
  <2> QED BY <2>1, <2>2 DEF Added
<1>3. \A c \in Callers, s \in Sessions, m \in Messages : Submit(c, s, m) => UNCHANGED registry
  BY DEF Submit
<1>4. \A c \in Callers : Inside(c) \/ Deliver(c) => UNCHANGED registry
  BY InsideSteps DEF Deliver, registry
<1>5. \A p \in Procs : Announce(p) \/ Acquire(p) => UNCHANGED registry
  BY DEF Announce, Acquire
<1>6. \A p \in Procs, x \in Primitives : BeginAdd(p, x) => UNCHANGED registry
  BY DEF BeginAdd
<1>7. UNCHANGED vars => UNCHANGED registry
  BY DEF vars
<1> QED BY <1>1, <1>2, <1>3, <1>4, <1>5, <1>6, <1>7, StepCases DEF WriterStep

LEMMA OrderInEntriesStep ==
  ASSUME Base, OrderInEntries, [Next]_vars
  PROVE  OrderInEntries'
<1>1. CASE UNCHANGED registry
  BY <1>1 DEF registry, OrderInEntries
<1>2. ASSUME NEW p \in Procs, Add(p) PROVE OrderInEntries'
  <2> SUFFICES ASSUME NEW k \in Keyed PROVE Elements(order'[k]) \subseteq entries'[k]
    BY DEF OrderInEntries, Elements
  <2> DEFINE kind == adding[p][1]
             name == adding[p][2]
  <2>1. /\ kind \in Kinds /\ name \in Names /\ k \in Kinds
        /\ order \in [Kinds -> Seq(Names)] /\ entries \in [Kinds -> SUBSET Names]
    BY <1>2 DEF Add, Base, RegistryTypes, Kinds
  <2>2. /\ order' = [order EXCEPT ![kind] = Added(kind, name)]
        /\ entries' = [entries EXCEPT ![kind] = IF kind \in Keyed THEN @ \cup {name} ELSE @]
    BY <1>2 DEF Add
  <2>3. Elements(order[k]) \subseteq entries[k] /\ order[k] \in Seq(Names)
    BY <2>1 DEF OrderInEntries
  <2> HIDE DEF kind, name
  <2>4. CASE k = kind
    <3>1. entries'[k] = entries[k] \cup {name}
      BY <2>1, <2>2, <2>4
    <3>2. order'[k] = order[k] \/ order'[k] = Append(order[k], name)
      BY <2>1, <2>2, <2>4 DEF Added
    <3>3. Elements(Append(order[k], name)) \subseteq Elements(order[k]) \cup {name}
      BY <2>1, <2>3 DEF Elements
    <3> QED BY <2>3, <3>1, <3>2, <3>3
  <2>5. CASE k # kind
    BY <2>1, <2>2, <2>3, <2>5
  <2> QED BY <2>4, <2>5
<1>3. \A c \in Callers, s \in Sessions, m \in Messages : Submit(c, s, m) => UNCHANGED registry
  BY DEF Submit
<1>4. \A c \in Callers : Inside(c) \/ Deliver(c) => UNCHANGED registry
  BY InsideSteps DEF Deliver, registry
<1>5. \A p \in Procs : Announce(p) \/ Acquire(p) => UNCHANGED registry
  BY DEF Announce, Acquire
<1>6. \A p \in Procs, x \in Primitives : BeginAdd(p, x) => UNCHANGED registry
  BY DEF BeginAdd
<1>7. UNCHANGED vars => UNCHANGED registry
  BY DEF vars
<1> QED BY <1>1, <1>2, <1>3, <1>4, <1>5, <1>6, <1>7, StepCases DEF WriterStep

\* While all of an order slice is in its map, a list is the whole of it.
LEMMA ListingIsOrder ==
  ASSUME Base, OrderInEntries, NEW k \in Kinds
  PROVE  Listing(k) = order[k] /\ order[k] \in Seq(Names)
<1>1. order[k] \in Seq(Names)
  BY DEF Base, RegistryTypes
<1>2. k \in Keyed => Kept(order[k], entries[k]) = order[k]
  BY <1>1, KeptSequence DEF OrderInEntries
<1> QED BY <1>1, <1>2 DEF Listing

\* s is what t began with.
BeginsWith(t, s) == s \in Seq(Names) /\ Len(s) <= Len(t) /\ s = SubSeq(t, 1, Len(s))

LEMMA BeginsWithGrows ==
  ASSUME NEW t \in Seq(Names), NEW s, BeginsWith(t, s), NEW n \in Names
  PROVE  BeginsWith(Append(t, n), s)
<1>1. Len(s) \in Nat /\ Len(t) \in Nat /\ Len(s) <= Len(t) /\ s \in Seq(Names)
  BY LenProperties DEF BeginsWith
<1>2. Append(t, n) \in Seq(Names) /\ Len(Append(t, n)) = Len(t) + 1
      /\ \A i \in 1..Len(t) : Append(t, n)[i] = t[i]
  BY <1>1
<1>3. \A i \in 1..Len(s) : Append(t, n)[i] = t[i] /\ t[i] \in Names
  BY <1>1, <1>2, ElementOfSeq
<1>4. /\ SubSeq(t, 1, Len(s)) \in Seq(Names)
      /\ Len(SubSeq(t, 1, Len(s))) = Len(s)
      /\ \A i \in 1..Len(s) : SubSeq(t, 1, Len(s))[i] = t[i]
  BY <1>1, <1>3, SubSeqProperties
<1>5. /\ SubSeq(Append(t, n), 1, Len(s)) \in Seq(Names)
      /\ Len(SubSeq(Append(t, n), 1, Len(s))) = Len(s)
      /\ \A i \in 1..Len(s) : SubSeq(Append(t, n), 1, Len(s))[i] = Append(t, n)[i]
  BY <1>1, <1>3, SubSeqProperties
<1>6. SubSeq(Append(t, n), 1, Len(s)) = SubSeq(t, 1, Len(s))
  BY <1>3, <1>4, <1>5, SeqEqual
<1> QED BY <1>1, <1>2, <1>6 DEF BeginsWith

\* What every pending list answer shows, and of which kind.
ListsBegin ==
  \A c \in Callers : \A j \in Answers(c, {"list"}) :
    LET k == msg[c][out[c][j].to].kind
    IN  k \in Kinds /\ BeginsWith(order[k], out[c][j].shows)

LEMMA ListsBeginStep ==
  ASSUME Base, OrderInEntries, ListsBegin, [Next]_vars
  PROVE  ListsBegin'
<1> SUFFICES ASSUME NEW d \in Callers, NEW j \in Answers(d, {"list"})'
             PROVE  LET k == msg'[d][out'[d][j].to].kind
                    IN  k \in Kinds /\ BeginsWith(order'[k], out'[d][j].shows)
  BY SMTT(40) DEF ListsBegin, BeginsWith
<1>1. ASSUME j \in Answers(d, {"list"}), UNCHANGED msg[d], out'[d][j] = out[d][j]
      PROVE  LET k == msg'[d][out'[d][j].to].kind
             IN  k \in Kinds /\ BeginsWith(order'[k], out'[d][j].shows)
  <2> DEFINE k == msg[d][out[d][j].to].kind
  <2>1. k \in Kinds /\ BeginsWith(order[k], out[d][j].shows)
    BY <1>1, SMTT(40) DEF ListsBegin
  <2>2. order[k] \in Seq(Names)
    BY <2>1, SMTT(40) DEF Base, RegistryTypes
  <2>3. order'[k] = order[k] \/ \E n \in Names : order'[k] = Append(order[k], n)
    BY <2>1, OrderGrows, ZenonT(40)
  <2>4. BeginsWith(order'[k], out[d][j].shows)
    BY <2>1, <2>2, <2>3, BeginsWithGrows
  <2> QED BY <1>1, <2>1, <2>4
<1>2. ASSUME Went(d), At(d).method = "list", Proper(d, out'[d][j]), out'[d][j].to = pos[d]
      PROVE  LET k == msg'[d][out'[d][j].to].kind
             IN  k \in Kinds /\ BeginsWith(order'[k], out'[d][j].shows)
  <2>1. At(d) \in Item /\ pos[d] # 0
    BY <1>2, AtItem DEF Went
  <2>2. At(d).kind \in Kinds /\ At(d) = msg'[d][out'[d][j].to] /\ UNCHANGED registry
    BY <1>2, <2>1 DEF Item, At, Went
  <2>3. out'[d][j].shows \in {<<>>, Listing(At(d).kind)}
    BY <1>2, <2>1 DEF Proper
  <2>4. Listing(At(d).kind) = order[At(d).kind] /\ order[At(d).kind] \in Seq(Names)
    BY <2>2, ListingIsOrder
  <2>5. BeginsWith(order[At(d).kind], <<>>)
    BY <2>4, EmptySeq, LenProperties, SubSeqEmpty DEF BeginsWith
  <2>6. BeginsWith(order[At(d).kind], order[At(d).kind])
    BY <2>4, LenProperties, SubSeqFull DEF BeginsWith
  <2>7. BeginsWith(order[At(d).kind], out'[d][j].shows)
    BY <2>3, <2>4, <2>5, <2>6
  <2> QED BY <2>2, <2>7 DEF registry
<1>3. CASE Went(d)
  <2>1. UNCHANGED msg[d]
    BY <1>3 DEF Went
  <2> QED BY <1>1, <1>2, <1>3, <2>1, WentAnswers
<1>4. CASE ~Went(d)
  BY <1>1, <1>4, RequestSteps, NoAnswers
<1> QED BY <1>3, <1>4

\* ListsArePrefixes: a list that is about to be received is a prefix of the registry.
THEOREM ListsStayPrefixes == Spec => []ListsArePrefixes
<1> DEFINE Inv == Base /\ OrderInEntries /\ ListsBegin
<1>1. Init => OrderInEntries /\ ListsBegin
  <2>1. Init => OrderInEntries
    BY DEF Init, OrderInEntries, Elements, Kinds
  <2>2. ASSUME Init, NEW c \in Callers PROVE Answers(c, {"list"}) = {}
    BY <2>2 DEF Init, Answers
  <2> QED BY <2>1, <2>2 DEF ListsBegin
<1>2. Inv /\ [Next]_vars => (OrderInEntries /\ ListsBegin)'
  BY OrderInEntriesStep, ListsBeginStep
<1>3. Inv => ListsArePrefixes
  BY DEF ListsBegin, BeginsWith, ListsArePrefixes
<1> QED BY <1>1, <1>2, <1>3, BaseHolds, PTL DEF Spec

-----------------------------------------------------------------------------
(* The responses to a batch *)

\* The items of m before position n that are answered, and their ranks.
Done(m, n) == {i \in Answerable(m) : i < n}
UpToItem(m, n, i) == {x \in Done(m, n) : x <= i}

\* The j-th response is that of the j-th item that is answered.
ResponsesMatch(m, n, o) ==
  /\ Len(o) = Cardinality(Done(m, n))
  /\ \A j \in DOMAIN o : \E i \in Done(m, n) :
       /\ Cardinality(UpToItem(m, n, i)) = j
       /\ o[j].to = i \/ (o[j].to = 0 /\ m[i].method \in {"malformed", "call"})

LEMMA DoneIsFinite ==
  ASSUME NEW m \in Seq(Item), NEW n \in Nat
  PROVE  /\ Done(m, n) \subseteq 1..Len(m) /\ IsFiniteSet(Done(m, n))
         /\ Cardinality(Done(m, n)) \in Nat
         /\ \A i : IsFiniteSet(UpToItem(m, n, i)) /\ Cardinality(UpToItem(m, n, i)) \in Nat
<1>1. Done(m, n) \subseteq 1..Len(m) /\ Len(m) \in Nat
  BY LenProperties DEF Done, Answerable
<1>2. IsFiniteSet(1..Len(m))
  BY <1>1, FS_Interval
<1>3. IsFiniteSet(Done(m, n))
  BY <1>1, <1>2, FS_Subset
<1>4. ASSUME NEW i PROVE IsFiniteSet(UpToItem(m, n, i))
  <2>1. UpToItem(m, n, i) \subseteq Done(m, n)
    BY DEF UpToItem
  <2> QED BY <1>3, <2>1, FS_Subset
<1> QED BY <1>1, <1>3, <1>4, FS_CardinalityType

\* No two items have the same rank.
LEMMA RanksDiffer ==
  ASSUME NEW m \in Seq(Item), NEW n \in Nat, NEW i \in Done(m, n), NEW k \in Done(m, n),
         Cardinality(UpToItem(m, n, i)) = Cardinality(UpToItem(m, n, k))
  PROVE  i = k
<1>1. i \in Nat /\ k \in Nat
  <2>1. Done(m, n) \subseteq 1..Len(m) /\ Len(m) \in Nat
    BY DoneIsFinite, LenProperties
  <2> QED BY <2>1
<1>2. ASSUME NEW a \in Done(m, n), NEW b \in Done(m, n), a \in Nat, b \in Nat, a < b,
             Cardinality(UpToItem(m, n, a)) = Cardinality(UpToItem(m, n, b))
      PROVE  FALSE
  <2>1. Done(m, n) \subseteq Nat
    BY DoneIsFinite, LenProperties
  <2>2. UpToItem(m, n, a) \subseteq UpToItem(m, n, b)
    BY <1>2, <2>1 DEF UpToItem
  <2>3. b \in UpToItem(m, n, b) /\ b \notin UpToItem(m, n, a)
    BY <1>2 DEF UpToItem
  <2>4. IsFiniteSet(UpToItem(m, n, b))
    BY DoneIsFinite
  <2>5. UpToItem(m, n, a) = UpToItem(m, n, b)
    BY <1>2, <2>2, <2>4, FS_Subset
  <2> QED BY <2>3, <2>5
<1>3. ~(i < k) /\ ~(k < i)
  BY <1>1, <1>2
<1> QED BY <1>1, <1>3

\* The loop goes on to the next item.
LEMMA DoneGrows ==
  ASSUME NEW m \in Seq(Item), NEW n \in Nat
  PROVE  /\ n \in Answerable(m) =>
              /\ Done(m, n + 1) = Done(m, n) \cup {n}
              /\ Cardinality(Done(m, n + 1)) = Cardinality(Done(m, n)) + 1
              /\ UpToItem(m, n + 1, n) = Done(m, n + 1)
         /\ n \notin Answerable(m) => Done(m, n + 1) = Done(m, n)
         /\ \A i \in Done(m, n) : UpToItem(m, n + 1, i) = UpToItem(m, n, i)
<1>1. Answerable(m) \subseteq Nat
  BY LenProperties DEF Answerable
<1>2. n \in Answerable(m) => Done(m, n + 1) = Done(m, n) \cup {n}
  BY <1>1 DEF Done
<1>3. n \notin Answerable(m) => Done(m, n + 1) = Done(m, n)
  BY <1>1 DEF Done
<1>4. n \notin Done(m, n)
  BY DEF Done
<1>5. n \in Answerable(m) => Cardinality(Done(m, n + 1)) = Cardinality(Done(m, n)) + 1
  BY <1>2, <1>4, DoneIsFinite, FS_AddElement
<1>6. UpToItem(m, n + 1, n) = Done(m, n + 1)
  BY <1>1 DEF UpToItem, Done
<1>7. \A i \in Done(m, n) : UpToItem(m, n + 1, i) = UpToItem(m, n, i)
  BY <1>1 DEF UpToItem, Done
<1> QED BY <1>2, <1>3, <1>5, <1>6, <1>7

LEMMA ResponsesMatchGrows ==
  ASSUME NEW m \in Seq(Item), NEW n \in Nat, NEW o \in Seq(Responses), ResponsesMatch(m, n, o),
         n \in Answerable(m), NEW r \in Responses,
         r.to = n \/ (r.to = 0 /\ m[n].method \in {"malformed", "call"})
  PROVE  ResponsesMatch(m, n + 1, Append(o, r))
<1>1. /\ Len(Append(o, r)) = Len(o) + 1 /\ Len(o) \in Nat
      /\ DOMAIN Append(o, r) = 1..(Len(o) + 1) /\ DOMAIN o = 1..Len(o)
  BY LenProperties
<1>2. Len(o) = Cardinality(Done(m, n))
  BY DEF ResponsesMatch
<1>3. Len(Append(o, r)) = Cardinality(Done(m, n + 1))
  BY <1>1, <1>2, DoneGrows
<1>4. ASSUME NEW j \in DOMAIN Append(o, r)
      PROVE  \E i \in Done(m, n + 1) :
               /\ Cardinality(UpToItem(m, n + 1, i)) = j
               /\ \/ Append(o, r)[j].to = i
                  \/ Append(o, r)[j].to = 0 /\ m[i].method \in {"malformed", "call"}
  <2>1. CASE j = Len(o) + 1
    <3>1. n \in Done(m, n + 1) /\ Cardinality(UpToItem(m, n + 1, n)) = j
      BY <1>1, <1>2, <2>1, DoneGrows
    <3>2. Append(o, r)[j] = r
      BY <1>1, <2>1
    <3> QED BY <3>1, <3>2
  <2>2. CASE j # Len(o) + 1
    <3>1. j \in DOMAIN o /\ Append(o, r)[j] = o[j]
      BY <1>1, <2>2
    <3>2. PICK i \in Done(m, n) :
            /\ Cardinality(UpToItem(m, n, i)) = j
            /\ o[j].to = i \/ (o[j].to = 0 /\ m[i].method \in {"malformed", "call"})
      BY <3>1 DEF ResponsesMatch
    <3>3. i \in Done(m, n + 1) /\ UpToItem(m, n + 1, i) = UpToItem(m, n, i)
      BY DoneGrows
    <3> QED BY <3>1, <3>2, <3>3
  <2> QED BY <2>1, <2>2
<1> QED BY <1>3, <1>4 DEF ResponsesMatch

\* Before the first item there are no responses.
LEMMA ResponsesMatchInit ==
  ASSUME NEW m \in Seq(Item)
  PROVE  ResponsesMatch(m, 1, <<>>)
<1>1. Done(m, 1) = {}
  BY LenProperties DEF Done, Answerable
<1>2. Len(<<>>) = Cardinality(Done(m, 1))
  BY <1>1, FS_EmptySet
<1>3. DOMAIN <<>> = {}
  OBVIOUS
<1> QED BY <1>2, <1>3 DEF ResponsesMatch

\* An item that is not answered changes nothing.
LEMMA ResponsesMatchSkips ==
  ASSUME NEW m \in Seq(Item), NEW n \in Nat, NEW o, ResponsesMatch(m, n, o), n \notin Answerable(m)
  PROVE  ResponsesMatch(m, n + 1, o)
<1>1. Done(m, n + 1) = Done(m, n)
  BY DoneGrows
<1> QED BY <1>1 DEF ResponsesMatch, UpToItem

\* Every batch, at every moment.
BatchesMatch == \A c \in Callers : msg[c] # <<>> => ResponsesMatch(msg[c], pos[c], out[c])

LEMMA BatchesMatchStep ==
  ASSUME Base, BatchesMatch, [Next]_vars
  PROVE  BatchesMatch'
<1> SUFFICES ASSUME NEW d \in Callers, msg'[d] # <<>>
             PROVE  ResponsesMatch(msg'[d], pos'[d], out'[d])
  BY DEF BatchesMatch, ResponsesMatch, Done, UpToItem, Answerable
<1>1. msg[d] \in Seq(Item) /\ pos[d] \in Nat /\ out[d] \in Seq(Responses)
  BY DEF Base, RequestTypes
<1>2. msg[d] # <<>> => ResponsesMatch(msg[d], pos[d], out[d])
  BY DEF BatchesMatch
<1>3. CASE Opened(d)
  <2>1. msg'[d] \in Seq(Item) /\ pos'[d] = 1 /\ out'[d] = <<>>
    BY <1>3, MessagesAssumption DEF Opened
  <2> QED BY <2>1, ResponsesMatchInit
<1>4. CASE Went(d)
  <2>1. msg[d] # <<>>
    BY <1>4, AtItem DEF Went
  <2>2. pos'[d] = pos[d] + 1 /\ msg'[d] = msg[d] /\ At(d) = msg[d][pos[d]]
    BY <1>4 DEF Went, At
  <2>3. CASE pos[d] \in Answerable(msg[d])
    <3>1. PICK r \in Responses : Proper(d, r) /\ out'[d] = Append(out[d], r)
      BY <1>4, <2>3 DEF Went
    <3>2. r.to = pos[d] \/ (r.to = 0 /\ msg[d][pos[d]].method \in {"malformed", "call"})
      BY <2>2, <3>1 DEF Proper
    <3> QED BY <1>1, <1>2, <2>1, <2>2, <2>3, <3>1, <3>2, ResponsesMatchGrows
  <2>4. CASE pos[d] \notin Answerable(msg[d])
    BY <1>1, <1>2, <1>4, <2>1, <2>2, <2>4, ResponsesMatchSkips DEF Went
  <2> QED BY <2>3, <2>4
<1>5. CASE Delivered(d)
  BY <1>5 DEF Delivered
<1>6. CASE Moved(d) \/ Stood(d)
  BY <1>2, <1>6 DEF Moved, Stood
<1> QED BY <1>3, <1>4, <1>5, <1>6, RequestSteps

\* AnswersInOrder: the responses to a batch answer its requests one to one, in order.
THEOREM BatchesAnsweredInOrder == Spec => []AnswersInOrder
<1>1. Init => BatchesMatch
  BY DEF Init, BatchesMatch
<1>2. Base /\ BatchesMatch /\ [Next]_vars => BatchesMatch'
  BY BatchesMatchStep
<1>3. Base /\ BatchesMatch => AnswersInOrder
  <2> SUFFICES ASSUME Base, BatchesMatch, NEW c \in Callers, msg[c] # <<>>
               PROVE  LET done == {i \in Answerable(msg[c]) : i < pos[c]}
                          nth(j) == CHOOSE i \in done : Cardinality({x \in done : x <= i}) = j
                      IN  /\ Len(out[c]) = Cardinality(done)
                          /\ \A j \in DOMAIN out[c] :
                               \/ out[c][j].to = nth(j)
                               \/ out[c][j].to = 0 /\ msg[c][nth(j)].method \in {"malformed", "call"}
    BY DEF AnswersInOrder
  <2> DEFINE done == {i \in Answerable(msg[c]) : i < pos[c]}
             nth(j) == CHOOSE i \in done : Cardinality({x \in done : x <= i}) = j
  <2>1. done = Done(msg[c], pos[c]) /\ \A i : {x \in done : x <= i} = UpToItem(msg[c], pos[c], i)
    BY DEF Done, UpToItem
  <2>2. msg[c] \in Seq(Item) /\ pos[c] \in Nat
    BY DEF Base, RequestTypes
  <2>3. ResponsesMatch(msg[c], pos[c], out[c])
    BY DEF BatchesMatch
  <2>4. ASSUME NEW j \in DOMAIN out[c]
        PROVE  \/ out[c][j].to = nth(j)
               \/ out[c][j].to = 0 /\ msg[c][nth(j)].method \in {"malformed", "call"}
    <3>1. PICK i \in done :
            /\ Cardinality({x \in done : x <= i}) = j
            /\ out[c][j].to = i \/ (out[c][j].to = 0 /\ msg[c][i].method \in {"malformed", "call"})
      BY <2>1, <2>3 DEF ResponsesMatch
    <3>2. nth(j) \in done /\ Cardinality({x \in done : x <= nth(j)}) = j
      BY <3>1
    <3>3. nth(j) = i
      <4> HIDE DEF nth, done
      <4>1. /\ nth(j) \in Done(msg[c], pos[c]) /\ i \in Done(msg[c], pos[c])
            /\ Cardinality(UpToItem(msg[c], pos[c], nth(j))) = j
            /\ Cardinality(UpToItem(msg[c], pos[c], i)) = j
        BY <2>1, <3>1, <3>2
      <4> QED BY <2>2, <4>1, RanksDiffer
    <3> QED BY <3>1, <3>3
  <2> QED BY <2>1, <2>3, <2>4 DEF ResponsesMatch
<1> QED BY <1>1, <1>2, <1>3, BaseHolds, PTL DEF Spec
=============================================================================
