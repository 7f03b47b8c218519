------------------------------ MODULE RpcServer ------------------------------
(***************************************************************************)
(* The JSON-RPC core of mcpruntime: HandleRaw and the dispatcher (single   *)
(* messages and batches), the readiness of each session, the registry of   *)
(* tools, prompts, resources and resource templates, and the RWMutex that  *)
(* guards it.                                                              *)
(*                                                                         *)
(* HandleRaw is called by any number of goroutines at once (one per HTTP   *)
(* request).  Handlers are application code: they may register further     *)
(* primitives before they return, and so may other goroutines at any time. *)
(* A message is what the dispatcher tells apart: does it parse, its        *)
(* method, the name it asks for, and whether it has an id.  A primitive is *)
(* its name (a URI or URI template for resources).                         *)
(***************************************************************************)
EXTENDS Integers, Sequences, FiniteSets

CONSTANTS
  Callers,   \* goroutines that call HandleRaw
  Apps,      \* other goroutines of the application, which register primitives
  Sessions,
  Names,     \* names, URIs and URI templates of primitives
  NoName, NoProc, NoSession,
  Matches,   \* <<template, uri>> that ExtractURIParams matches
  Messages,  \* bodies handed to HandleRaw: a batch is the sequence of its items
  Primitives,  \* <<kind, name>> of what the application registers
  MaxAdds    \* bound: registrations

Keyed == {"tools", "prompts"}                      \* maps: a second Add replaces
Kinds == Keyed \cup {"resources", "templates"}     \* the others are slices

Procs == Callers \cup Apps

Methods == {"malformed", "unknown", "initialize", "initialized", "ping", "list", "call"}

\* One JSON-RPC message; kind and name matter to "list" and "call" only.
Item == [method : Methods, kind : Kinds, name : Names \cup {NoName}, id : BOOLEAN]

ASSUME ProcsAssumption == Callers \cap Apps = {} /\ NoProc \notin Procs
ASSUME NamesAssumption == NoName \notin Names /\ Names \cap Kinds = {} /\ NoSession \notin Sessions
ASSUME MatchesAssumption == Matches \subseteq Names \X Names
ASSUME MessagesAssumption == Messages \subseteq Seq(Item)
ASSUME PrimitivesAssumption == Primitives \subseteq Kinds \X Names
ASSUME MaxAddsAssumption == MaxAdds \in Nat

VARIABLES
  order,     \* order[k]: toolOrder, promptOrder, resources, resourceTemplates
  entries,   \* entries[k]: keys of the maps Server.tools and Server.prompts
  readers,   \* goroutines that hold Server.mu for reading
  writer,    \* the goroutine that holds Server.mu for writing
  waiting,   \* the writer that new readers wait for
  ready,     \* sessions with Session.ready set
  pc,        \* pc[p]: where the goroutine is
  sess,      \* sess[c]: the session on the context
  msg,       \* msg[c]: the body being handled
  pos,       \* pos[c]: the item dispatchBatch is at
  out,       \* out[c]: responses collected so far
  adding,    \* adding[p]: <<kind, name>> being registered
  adds       \* registrations begun so far

registry == <<order, entries>>
lock     == <<readers, writer, waiting>>
request  == <<sess, msg, pos, out>>
vars == <<registry, lock, ready, pc, request, adding, adds>>

At(c) == msg[c][pos[c]]

-----------------------------------------------------------------------------
(* Server.mu, a sync.RWMutex: a waiting writer keeps new readers out *)

CanRead == writer = NoProc /\ waiting = NoProc

\* Lock, first half: the writer makes itself known.
Announce(p) ==
  /\ pc[p] = "lock" /\ CanRead
  /\ waiting' = p
  /\ pc' = [pc EXCEPT ![p] = "waiting"]
  /\ UNCHANGED <<registry, readers, writer, ready, request, adding, adds>>

\* Lock, second half: the readers it found have left.
Acquire(p) ==
  /\ pc[p] = "waiting" /\ readers = {}
  /\ waiting' = NoProc /\ writer' = p
  /\ pc' = [pc EXCEPT ![p] = "writing"]
  /\ UNCHANGED <<registry, readers, ready, request, adding, adds>>

-----------------------------------------------------------------------------
(* AddTool, AddPrompt, AddResource, AddResourceTemplate *)

\* A goroutine starts to register primitive x.
BeginAdd(p, x) ==
  /\ pc[p] = IF p \in Apps THEN "idle" ELSE "running"
  /\ adds < MaxAdds
  /\ adds' = adds + 1
  /\ adding' = [adding EXCEPT ![p] = x]
  /\ pc' = [pc EXCEPT ![p] = "lock"]
  /\ UNCHANGED <<registry, lock, ready, request>>

\* MUTANT: the newest primitive is listed first.
AddedFirst(k, n) ==
  IF k \in Keyed /\ n \in entries[k] THEN order[k] ELSE <<n>> \o order[k]

\* What order[k] becomes: a name already in a map keeps its place.
Added(k, n) ==
  IF k \in Keyed /\ n \in entries[k] THEN order[k] ELSE Append(order[k], n)

\* The registration, under the write lock, and Unlock.
Add(p) ==
  LET k == adding[p][1]
      n == adding[p][2]
  IN /\ pc[p] = "writing"
     /\ order' = [order EXCEPT ![k] = Added(k, n)]
     /\ entries' = [entries EXCEPT ![k] = IF k \in Keyed THEN @ \cup {n} ELSE @]
     /\ writer' = NoProc
     /\ adding' = [adding EXCEPT ![p] = <<>>]
     /\ pc' = [pc EXCEPT ![p] = IF p \in Apps THEN "idle" ELSE "running"]
     /\ UNCHANGED <<readers, waiting, ready, request, adds>>

-----------------------------------------------------------------------------
(* HandleRaw, dispatch, dispatchBatch, dispatchSingle *)

\* A response: the item of the batch it answers (0 when its id is null), what it
\* holds, and the names or kinds it tells the client about.
Reply(to, body, shows) == [to |-> to, body |-> body, shows |-> shows]

\* An empty batch is answered with one error, whose id is null.
Submit(c, s, m) ==
  /\ pc[c] = "idle"
  /\ sess' = [sess EXCEPT ![c] = s]
  /\ msg' = [msg EXCEPT ![c] = m]
  /\ pos' = [pos EXCEPT ![c] = 1]
  /\ out' = [out EXCEPT ![c] = IF m = <<>> THEN <<Reply(0, "error", <<>>)>> ELSE <<>>]
  /\ pc' = [pc EXCEPT ![c] = IF m = <<>> THEN "reply" ELSE "dispatch"]
  /\ UNCHANGED <<registry, lock, ready, adding, adds>>

\* The loop goes on to the next item, or has seen the last one.
Advance(c) ==
  /\ pc' = [pc EXCEPT ![c] = IF pos[c] < Len(msg[c]) THEN "dispatch" ELSE "reply"]
  /\ pos' = [pos EXCEPT ![c] = @ + 1]
  /\ UNCHANGED <<sess, msg>>

\* MUTANT: a failed notification is answered.
FinishLoudly(c, body, shows) ==
  /\ out' = [out EXCEPT ![c] = IF At(c).id \/ body = "error"
                                 THEN Append(@, Reply(pos[c], body, shows)) ELSE @]
  /\ Advance(c)

\* dispatchSingle has the outcome of item pos[c]; a notification gets no response.
Finished(c, body, shows) ==
  /\ out' = [out EXCEPT ![c] = IF At(c).id THEN Append(@, Reply(pos[c], body, shows)) ELSE @]
  /\ Advance(c)

\* The item is not a JSON-RPC object: a parse error, whose id is null.
Malformed(c) ==
  /\ pc[c] = "dispatch" /\ At(c).method = "malformed"
  /\ out' = [out EXCEPT ![c] = Append(@, Reply(0, "error", <<>>))]
  /\ Advance(c)
  /\ UNCHANGED <<registry, lock, ready, adding, adds>>

\* No such method, ping, and notifications/initialized, which has a nil result.
Immediate(c) ==
  /\ pc[c] = "dispatch"
  /\ \/ At(c).method = "unknown" /\ Finished(c, "error", <<>>)
     \/ At(c).method = "ping" /\ Finished(c, "result", <<>>)
     \/ At(c).method = "initialized" /\ Finished(c, "neither", <<>>)
  /\ UNCHANGED <<registry, lock, ready, adding, adds>>

\* handleInitialize up to capabilities(): invalid params, or a session that is
\* ready, give an error; otherwise markReady.
Initialize(c) ==
  /\ pc[c] = "dispatch" /\ At(c).method = "initialize"
  /\ \/ Finished(c, "error", <<>>) /\ UNCHANGED ready
     \/ /\ sess[c] \notin ready
        /\ ready' = ready \cup {sess[c]}
        /\ pc' = [pc EXCEPT ![c] = "rlock"]
        /\ UNCHANGED request
  /\ UNCHANGED <<registry, lock, adding, adds>>

\* MUTANT: the check of readiness is missing.
GatedAlways(c) ==
  /\ pc[c] = "dispatch" /\ At(c).method \in {"list", "call"}
  /\ pc' = [pc EXCEPT ![c] = "rlock"] /\ UNCHANGED request
  /\ UNCHANGED <<registry, lock, ready, adding, adds>>

\* requireReady, and then invalid params (a call only), or on to the registry.
Gated(c) ==
  /\ pc[c] = "dispatch" /\ At(c).method \in {"list", "call"}
  /\ \/ /\ sess[c] \notin ready \/ At(c).method = "call"
        /\ Finished(c, "error", <<>>)
     \/ /\ sess[c] \in ready
        /\ pc' = [pc EXCEPT ![c] = "rlock"] /\ UNCHANGED request
  /\ UNCHANGED <<registry, lock, ready, adding, adds>>

RLock(c) ==
  /\ pc[c] = "rlock" /\ CanRead
  /\ readers' = readers \cup {c}
  /\ pc' = [pc EXCEPT ![c] = "reading"]
  /\ UNCHANGED <<registry, writer, waiting, ready, request, adding, adds>>

\* The elements of s that are in keep, in their order.
Kept(s, keep) ==
  LET upTo[i \in 0..Len(s)] ==
        IF i = 0 THEN <<>>
        ELSE IF s[i] \in keep THEN Append(upTo[i - 1], s[i]) ELSE upTo[i - 1]
  IN  upTo[Len(s)]

\* capabilities(): the kinds of primitives there are.
Capabilities ==
  LET some(k) == IF k \in Keyed THEN entries[k] # {} ELSE order[k] # <<>>
  IN  Kept(<<"tools", "resources", "prompts">>,
           {k \in Kinds : some(k) \/ (k = "resources" /\ some("templates"))})

\* What a list method returns: for a map, the names of the order slice it has.
Listing(k) == IF k \in Keyed THEN Kept(order[k], entries[k]) ELSE order[k]

Elements(s) == {s[i] : i \in DOMAIN s}

\* A handler is found for the name, or a resource or template for the URI.
Found(k, n) ==
  IF k \in Keyed
    THEN n \in entries[k]
    ELSE \/ n \in Elements(order["resources"])
         \/ \E t \in Elements(order["templates"]) : <<t, n>> \in Matches

\* The read section of initialize and of the list methods, and RUnlock.
ReadAndAnswer(c) ==
  /\ pc[c] = "reading" /\ At(c).method \in {"initialize", "list"}
  /\ readers' = readers \ {c}
  /\ Finished(c, "result", IF At(c).method = "list" THEN Listing(At(c).kind) ELSE Capabilities)
  /\ UNCHANGED <<registry, writer, waiting, ready, adding, adds>>

\* MUTANT: the read lock is held while the handler runs.
LookUpLocked(c) ==
  /\ pc[c] = "reading" /\ At(c).method = "call"
  /\ \/ /\ Found(At(c).kind, At(c).name)
        /\ pc' = [pc EXCEPT ![c] = "running"] /\ UNCHANGED <<request, readers>>
     \/ /\ ~Found(At(c).kind, At(c).name)
        /\ readers' = readers \ {c}
        /\ Finished(c, "error", <<>>)
  /\ UNCHANGED <<registry, writer, waiting, ready, adding, adds>>

\* tools/call, prompts/get, resources/read: the lookup and RUnlock.  The handler
\* runs after the lock has been released.
LookUp(c) ==
  /\ pc[c] = "reading" /\ At(c).method = "call"
  /\ readers' = readers \ {c}
  /\ \/ /\ Found(At(c).kind, At(c).name)
        /\ pc' = [pc EXCEPT ![c] = "running"] /\ UNCHANGED request
     \/ /\ ~Found(At(c).kind, At(c).name)
        /\ Finished(c, "error", <<>>)
  /\ UNCHANGED <<registry, writer, waiting, ready, adding, adds>>

\* marshalResponse fails: the fallback is an error whose id is null.
Unmarshalable(c) ==
  /\ out' = [out EXCEPT ![c] = IF At(c).id THEN Append(@, Reply(0, "error", <<>>)) ELSE @]
  /\ Advance(c)

\* The handler returns a result, which may not be marshalable, or an error; an
\* error of a tool that is not a JSONRPCError becomes a result with isError.
HandlerReturns(c) ==
  /\ pc[c] = "running"
  /\ \/ \E body \in {"result", "error"} : Finished(c, body, <<>>)
     \/ Unmarshalable(c)
  /\ UNCHANGED <<registry, lock, ready, adding, adds>>

\* The responses of out[c] that answer an item of one of these methods.
Answers(c, methods) ==
  {j \in DOMAIN out[c] : out[c][j].to > 0 /\ msg[c][out[c][j].to].method \in methods}

\* HandleRaw returns: the client has the responses.
Deliver(c) ==
  /\ pc[c] = "reply"
  /\ pc' = [pc EXCEPT ![c] = "idle"]
  /\ sess' = [sess EXCEPT ![c] = NoSession]
  /\ msg' = [msg EXCEPT ![c] = <<>>]
  /\ pos' = [pos EXCEPT ![c] = 0]
  /\ out' = [out EXCEPT ![c] = <<>>]
  /\ UNCHANGED <<registry, lock, ready, adding, adds>>

-----------------------------------------------------------------------------
Init ==
  /\ order = [k \in Kinds |-> <<>>]
  /\ entries = [k \in Kinds |-> {}]
  /\ readers = {} /\ writer = NoProc /\ waiting = NoProc
  /\ ready = {}
  /\ pc = [p \in Procs |-> "idle"]
  /\ sess = [c \in Callers |-> NoSession]
  /\ msg = [c \in Callers |-> <<>>]
  /\ pos = [c \in Callers |-> 0]
  /\ out = [c \in Callers |-> <<>>]
  /\ adding = [p \in Procs |-> <<>>]
  /\ adds = 0

WriterStep(p) == Announce(p) \/ Acquire(p) \/ Add(p)

\* What a goroutine inside HandleRaw does.
CallerStep(c) ==
  \/ Malformed(c) \/ Immediate(c) \/ Initialize(c) \/ Gated(c)
  \/ RLock(c) \/ ReadAndAnswer(c) \/ LookUp(c)
  \/ HandlerReturns(c) \/ Deliver(c)
  \/ WriterStep(c)

Next ==
  \/ \E c \in Callers, s \in Sessions, m \in Messages : Submit(c, s, m)
  \/ \E c \in Callers : CallerStep(c)
  \/ \E a \in Apps : WriterStep(a)
  \/ \E p \in Procs, x \in Primitives : BeginAdd(p, x)

Spec == Init /\ [][Next]_vars

\* Goroutines run and handlers return; nobody has to call or register anything.
Fairness ==
  /\ \A c \in Callers : WF_vars(CallerStep(c))
  /\ \A a \in Apps : WF_vars(WriterStep(a))

FairSpec == Spec /\ Fairness

-----------------------------------------------------------------------------
\* A list that a client is about to receive is a prefix of the registry as it is
\* now, however many registrations have come in since: primitives are listed in
\* the order of their first registration, and lists only ever grow at the end.
ListsArePrefixes ==
  \A c \in Callers : \A j \in Answers(c, {"list"}) :
    LET shown == out[c][j].shows
    IN  shown = SubSeq(order[msg[c][out[c][j].to].kind], 1, Len(shown))

\* Items that dispatchSingle answers: those with an id and those without a shape.
Answerable(m) == {i \in DOMAIN m : m[i].id \/ m[i].method = "malformed"}

\* The responses to a batch answer its requests one to one and in order, whatever
\* fails in between; notifications are never answered, not even when they fail.
\* A null id is left to items that do not parse and results that do not marshal.
AnswersInOrder ==
  \A c \in Callers :
    LET done == {i \in Answerable(msg[c]) : i < pos[c]}
        nth(j) == CHOOSE i \in done : Cardinality({x \in done : x <= i}) = j
    IN  msg[c] # <<>> =>
          /\ Len(out[c]) = Cardinality(done)
          /\ \A j \in DOMAIN out[c] :
               \/ out[c][j].to = nth(j)
               \/ out[c][j].to = 0 /\ msg[c][nth(j)].method \in {"malformed", "call"}

\* No handler behind requireReady runs, and none of its results is returned, on a
\* session whose initialize has not been granted, earlier in the batch or by
\* another goroutine.
GatedAfterInitialize ==
  \A c \in Callers :
    \/ sess[c] \in ready
    \/ /\ pc[c] # "running"
       /\ \A j \in Answers(c, {"list", "call"}) : out[c][j].body = "error"

\* Every call of HandleRaw returns, although handlers register primitives, that is,
\* take the write lock, while other goroutines hold or want the read lock.
RequestsAnswered == \A c \in Callers : pc[c] # "idle" ~> pc[c] = "idle"
=============================================================================
