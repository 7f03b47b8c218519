# Verification of protoc-gen-mcp

`protoc-gen-mcp` generates MCP (Model Context Protocol) servers from protobuf
services. Its code has two halves:

* `mcpruntime`, the Go runtime that every generated Go server links against: a
  concurrent server with sessions, SSE streams, an idle reaper and two transports;
* `internal/schema` and `internal/codegen`, a `protoc` plugin: a sequential program
  from descriptors to files, whose products - schemas, registrations, dispatchers,
  mappers - run concurrently in servers of five languages.

This directory holds TLA+ models of that code, the TLC runs that check them on
small instances and the TLAPS proofs of theorems about them for every instance.
The models follow that division: the runtime with its interleavings; the schema
builder together with the calls its schemas are used in; the generated servers, as
programs in their own right; and the plugin's run with what it generates.

## Inventory

| Part | State | Operations | Interacts with | What is hard | What makes it correct |
|---|---|---|---|---|---|
| `messageStream` (`http_stream.go`) | `seq`, `buffer`, `subs`, `closed` under `mu` | `publish`, `subscribe`, `unsubscribe`, `eventsAfter`, `close` | GET handlers through channels, `broadcastNotification`, `closeAll` | close racing sends, full channels, replay and subscription in two sections | no send on a closed channel, gap-free window, order, at most once |
| `sessionStreams` (`http_stream.go`) | `streams`, `listenIDs`, `nextID` under `mu` | `openStream`, `getStream`, `closeStream`, `closeAll`, `broadcastNotification` | POST and GET handlers, `Session.Close` | a stream is taken out of the table in one section and closed in another | every stream closed once, one listen stream, none leaks |
| `sessionManager` (`http_session.go`) | `sessions`, `stopped` under `mu` | `Create`, `Get`, `Delete`, `Close`, `reapExpired` | every request, the reaper goroutine, shutdown | three ways to end a session, a deadline computed before the lock | ended once, torn down, never reaped while in use |
| `Session` (`session.go`) | `ready`, `protocolVersion`, `lastActive` under `mu` | `markReady`, `touch`, `Close`, `SendNotification` | `HandleRaw`, manager | racing `initialize` | negotiated at most once |
| HTTP handler (`http.go`, `http_security.go`, `sse.go`) | per request | POST, GET, DELETE, `ServeStreamableHTTP` | all of the above, `Server.HandleRaw` | a resolved session may be ended at any later step; shutdown with open GETs | GETs end, shutdown ends, responses are lost only with the session |
| dispatcher (`dispatcher.go`) | none | single messages, batches | method handlers | failures inside batches | responses match requests |
| `Server` (`server.go`) | registry under an `RWMutex` | `Add*`, method handlers, `requireReady` | application handlers, which call back | re-entrant handlers, registration while listing | no deadlock, lists consistent, gate respected |
| stdio (`stdio.go`) | the loop | `ServeIO` | `HandleRaw` | pipelining, end of input, cancellation | in order, nothing lost on a clean end |
| tool calls (`register.go`, `options.go`) | reserved names per server | `RegisterProtoTool`, the `tools/call` wrapper | `AddTool`, jsonschema, protojson | reserve and add in two sections; the schema and the codec are two judges of one value | a name is registered once; what the schema admits decodes; correct responses are not refused |
| prompts, resources (`prompt.go`, `resource.go`, their collectors) | what is registered | `ParsePromptArguments`, `ExtractURIParams`, `Register...Prompts`, `Register...Resources` | generated code, `Server` | map order, two names for a field, overlapping templates, a listing that fails half way | arguments reach their fields; a URI reaches its resource |
| schema (`internal/schema`) | the stack of messages, `building`, `$defs` | `GenerateMessageSchema` | collectors | recursion through placeholders, oneofs, nullability, invented examples | every reference is defined, it terminates, examples are valid |
| collection (`internal/codegen`) | models, type graphs, names given out | options, `CollectFileModel`, `CollectJVMFileModel`, `CollectTypeScriptFileModel`, the Python second pass | `schema`, renderers | files that need each other, name clashes, refusals that fail the whole run | modules find the classes they import, names are distinct |
| generated servers (renderers) | a registry per server or per file, handlers of sessions | `register...Tools`, list, call | the SDK of each language | chains of handlers, files that take sessions over, sessions that connect in between | listed is served, registered stays served, one meaning of failures |
| Python mappers (`render_python_mappers.go`) | none | `to_pb`, `from_pb` | application, protobuf | `UNSET` is an object per module, oneofs are classes | messages survive |
| tool names (five normalisers) | none | `_tool_name`, `qualifyToolName`, ... | plugin's length check | six implementations of one rule | the same name everywhere, within the limit |

## Modules

| Module | What it is |
|---|---|
| `OrderedDelivery` | abstract: numbered events, each client sees a strictly increasing sequence of published numbers |
| `ListenStream` | one `messageStream`, the goroutines in `handleGET`, the sender of notifications, the clients with their `Last-Event-ID`; implements `OrderedDelivery` |
| `ListenStreamProofs` | TLAPS proofs about `ListenStream` |
| `MCListenStream` | TLC instance |
| `SessionLifecycle` | abstract: a session id is used once, negotiates at most once, never comes back |
| `StreamableHTTP` | session manager, reaper, stream tables, POST/GET/DELETE handlers, shutdown; implements `SessionLifecycle` |
| `StreamableHTTPProofs` | TLAPS proofs about `StreamableHTTP` |
| `MCStreamableHTTP` | TLC instance |
| `RpcServer` | `HandleRaw`, the dispatcher, the registry and its `RWMutex`, re-entrant handlers |
| `RpcServerProofs` | TLAPS proofs about `RpcServer` |
| `MCRpcServer` | TLC instance |
| `Stdio` | `ServeIO` |
| `StdioProofs` | TLAPS proofs about `Stdio` |
| `LeastElements` | least and greatest elements of sets of naturals, and solutions of recursive definitions: what the inductions in the proofs rest on |
| `Sublists` | the elements of a sequence that are in a set |
| `SchemaTerms` | schemas as records: the schema of every kind of field, limits, nullability, oneof constraints |
| `SchemaBuilder` | the builder's walk over messages, with its stack and `$defs` |
| `SchemaBuilderProofs` | TLAPS proofs about `SchemaBuilder` |
| `ProtoJSON` | the external judges, jsonschema-go and protojson, and the builder's invented examples |
| `ToolCall` | `SchemaBuilder` and `ProtoJSON` put together: a tool is generated, registered and called |
| `MCSchema` | TLC instance |
| `ToolContract` | abstract: what one `tools/call` promises |
| `GeneratedServer` | registration, listing, dispatch and prompts of the generated code in five languages; implements `ToolContract` |
| `GeneratedServerProofs` | TLAPS proofs about `GeneratedServer`: the contract, and what is listed and served |
| `MCGeneratedServer` | TLC instance |
| `TypeGraph` | the types that a generated file talks about, and their names |
| `TypeCollector` | the collectors' walk over messages and enums, with its recursion and the name checks |
| `PromptsResources` | collection of prompts and resources, matching of URIs, parsing of arguments |
| `ToolNames` | the normalisers of tool names |
| `Generator` | one run of the plugin; composes the four above |
| `GeneratorProofs` | TLAPS proofs about `Generator` and `PromptServing` |
| `PythonMappers` | `to_pb` and `from_pb` of the dataclass handlers |
| `PythonCalls` | calls of the tools of a module that a run wrote |
| `PromptServing` | prompts and resources of the files that a run wrote, on a server |
| `GeneratedCode` | a run, and then calls and prompts; composes `Generator`, `PythonCalls` and `PromptServing` |
| `MCGenerator`, `MCGeneratedCode` | TLC instance: its projects, and those with prompts, resources and names |

The modules meet at narrow interfaces. `StreamableHTTP` treats a stream as a
member of a table that is open or closed and has subscribers; `ListenStream`
opens one of them up, and takes `Unlist`/`Close` (the two halves of `closeAll`)
from its environment. `StreamableHTTP` and `Stdio` treat `HandleRaw` as a step
with an outcome; `RpcServer` opens that up, with the session as an input, and
treats a tool's handler as a step that returns; `GeneratedServer` opens up the
handler, with the judgement of the schema as a fault that may occur; `ToolCall`
opens up the judgement. `Generator` says which files a run writes and what their
code refers to; `PythonCalls` and `PromptServing` take the models of the run they extend and look at it only
when it is done; `GeneratedServer` takes such files as registrations.

Definitions whose comment begins with `MUTANT` or says "What ... would be" or "Mutant" are broken variants of the
definition that follows them. No specification uses them; substituting one for its original makes
the property named in `PROJECT.json` fail, which shows that the property can.

### ListenStream

An event is its sequence number. One action is one critical section under
`messageStream.mu`: `PublishNotification`/`PublishPrime` (publish: number,
append, trim, fan out without waiting), `Subscribe`, `Leave` (unsubscribe),
`ReadReplay` (eventsAfter), `Close`. Between them `handleGET` moves through
`pc[h]`; `Connect` is the lookup, with the three ways a client can come back:
`resume` (Last-Event-ID names this stream), `fresh` (none: `openStream`) and
`fallback` (it names a stream that is gone). `written`, `joined` and `cursor`
are history: what a handler last wrote, what had been published when it
subscribed, what the client has.

Properties: the buffer is the gap-free window of the newest events
(`BufferWindow`); channels in `subs` are open, so nothing sends on or closes a
closed channel (`SubscribersOpen`); one connection never repeats or reorders
(`ConnectionInOrder`); a subscriber misses nothing until its channel has
overflowed (`NoHolesWithRoom`); the reuse branch of `openStream` never revives a
closed stream (`ListedIsOpen` and `ClosedForever`, which are proved only); the whole implements
`OrderedDelivery` (`AtMostOnceInOrder`); GETs end when the stream is torn down
(`TeardownEndsGets`) or the client goes away (`AbandonedGetsEnd`).

### StreamableHTTP

One action per critical section, with sections merged where no other goroutine
could tell. A session leaves `table` in one action (`Delete`, `ReaperSweep`,
`ManagerClose`), which puts it in `doomed[p]`; `CloseAll(p, s)` empties its
stream table into `dying[p]`; `CloseStream(p, x)` closes one stream. That is the
code's order: remove under the manager's lock, empty under the table's lock,
close under the stream's lock, each after releasing the one before. The clock is
read where the code reads it; in particular `ReaperTick` computes the deadline
before `ReaperSweep` takes the lock. A request that is already on an accepted
connection may start after shutdown has begun, or after it has timed out.

Properties: `SessionAccounted`, `StreamAccounted` (everything is in exactly one
of: the table, the hands of exactly one goroutine, closed), `OneListenStream`,
`PostStreamsOwned`, `ResponseLostOnlyOnTeardown`, `ReapedOnlyIdle`,
`SessionsLiveOnce` (refinement), and the liveness properties
`EndedSessionsAreTornDown`, `UnlistedGetsEnd`, `ShutdownReturns`,
`IdleSessionsReaped`.

### RpcServer

A message body is a sequence of items, and an item is what the dispatcher tells
apart: whether it parses, its method, the name it asks for, whether it has an
id. The `RWMutex` is explicit (readers, writer, waiting writer, new readers held
back by a waiting writer), so that a handler that registers a primitive can
deadlock if the code around it is wrong. Tools and prompts are maps with an order
slice, resources and templates are slices; the four share `Add` and `Listing`.

Properties: `AnswersInOrder` (batches), `GatedAfterInitialize`,
`ListsArePrefixes` (lists only grow, at the end), `RequestsAnswered`
(no deadlock). Registering a prompt runs the same code as registering a tool, on
its own map; the instance registers tools, resources and templates.

### Stdio

The loop of `ServeIO` with a client that pipelines. `AnsweredInOrder`,
`NothingLeftUnanswered` (returning nil without cancellation means every request
was answered), `EndOfInputReturns`.

### SchemaBuilder, SchemaTerms, ProtoJSON, ToolCall

The builder's recursion is a stack of frames, one for each message under
construction with the properties it has so far, so that it can be proved about and
so that "a message that is being built" is a state and not a depth of calls. A field is taken by
`ScalarField`, `UnsupportedField`, `RecursiveField` (its message is under
construction: a `$ref` to a placeholder, `ensureDefinition`), `BuiltField` or
`EnterMessage`; `LeaveMessage` is `fillDefinition`. Schemas are records
(`SchemaTerms`); what jsonschema-go and protojson do with them and with JSON
values is in `ProtoJSON` and is external, modelled from what the code relies on: strict kinds,
`null` for absence, one member of a oneof. `ToolCall` then registers the tool
(`loadSchema` with `ValidateDefaults` may refuse it) and follows calls.

Properties: no placeholder is left (`DefinitionsFilled`); the walk ends
(`BuilderTerminates`); arguments that the published schema admits decode
(`AcceptedDecodes`, up to lexical forms, the sign of unsigned integers, and three
places where protojson and schema differ about `null`: lists and maps of wrappers,
repeated `Value`, `Value` in a oneof); a complete response that obeys its limits is not refused by
the output schema (`ResponsesAccepted`); the examples that the builder invents
are values of the schema they are published in (`ExamplesValid`, for
descriptors without limits, hidden values or required fields that recurse).

### GeneratedServer

One model for five languages, since the questions are the same. A registration is
a call of a generated `register` function. Go reserves and adds
in two critical sections (`ReserveGo`, `AddGo`); Python and TypeScript register in
one step of the event loop; Java adds tool by tool and then installs a session
factory; Kotlin installs handlers on the sessions there are
(`InstallMcpHandlers`) and then a hook for later ones (`OnConnect`). `Listed`
and `Reached` are `tools/list` and the lookup of `tools/call`: Python walks its
chain of handlers, Java and Kotlin look at the table their session was bound
to. A call goes through the five stages of every dispatcher, any of which may
fail, and the language's record says how it is answered.

Properties: `CallsMatchLists` (listed if and only if reached),
`RegisteredStaysServed`, `CallsKeepContract` (refinement of `ToolContract`).

### Generator, PythonCalls, PromptServing

`ReadParam`/`RejectParam`/`Options` are the parameter parser (bare names after
`python_handler=a` continue it, as protoc splits at commas); `RefuseFile` and `CollectFile` are one
round of the collection loop, with every refusal of that language that does not depend on the walk;
`CollectTypes` is a step of the walk and `CollectedFile` its end. The walk (`TypeCollector`) is the recursion of `collectMessage` as a stack
of frames: `CollectRoot`, `CollectField`, `FinishType`, with a type marked as seen before its fields are looked
at, as messages refer to each other and to themselves.
`AugmentFile` and `AugmentedFile` are Python's second pass, in which a file gets the
types that other files of the run need from it, by a walk of its own; `RenderPython` and `Render` write
files, and `Fail` ends the run without any. What was written is then used: `Receive`,
`Echo`, `Answer` (`PythonCalls`) convert messages with the mappers of one module, `RegisterPrompts`,
`GetPrompt`, `RegisterResources`, `ReadResource` (`PromptServing`) use the prompts and resources
of several files on one server. Names of types are sequences of exported parts,
so the clash of `A_B` with `AB`, or of a nested `X.E` with `XE`, is in the model;
a tool's name is a sequence of letters, dots, underscores and blanks.

Properties: `PublicTypesDefined` (no import of a class that is not there),
`TypeNamesDistinct`, `CollectsReachable` (the walk lists what can be reached from where it started, each type once, and
nothing else), `OwnMessagesSurvive` (the mappers are inverse on a module's own
types), `PromptArgumentsArrive`, `ResourcesReadAsListed`, `ToolNamesFit`.

## Runs

| Run | Instance | Question |
|---|---|---|
| `listen_stream` | 1 client, 2 handlers, buffer 2, channels 2, 3 notifications | safety of the stream and ends of GETs; both the buffer and the channels overflow, and the client reconnects while its old handler still runs (more clients and handlers are the theorems' part) |
| `listen_gap` | as small as the counterexample allows | finding |
| `http_streams` | 1 session, 3 handlers, SSE, 3 streams, no clock | three goroutines on the streams of a session while it is ended and the server shuts down |
| `http_sessions` | 1 session, 2 handlers, 2 versions, TTL 1, clock to 2, answers in JSON, 1 stream | ending, reaping, racing `initialize`; GETs and shutdown end |
| `http_zombie` | 1 session, 2 handlers | finding |
| `rpc` | 2 callers, 1 session, 6 bodies, 4 primitives, 2 registrations by handlers or the application | batches, gate, registry, no deadlock (TLC also checks that no state is stuck) |
| `stdio` | 4 lines of 4 kinds | the loop |
| `schema` | 2 messages, one field of every kind and card beside up to one more, recursive and mutually recursive, oneofs, limits, defaults; arguments and responses nested to 2 | schema, codec and builder agree |
| `servers` | 5 languages, 2 files, 3 registrations with clashing names, 2 sessions, 2 names served by hand | what is listed, served and answered |
| `servers_prompts` | Java | finding |
| `generator` | 3 files that import each other, 6 types; 3886 projects over 5 languages and Python's 2 handlers; calls nested to 3 | the run and the use of its output |
| `python_unset` | the Python projects | finding |

Why these bounds are enough to be telling: the races are between two or three
goroutines on one object, and every object has at least that many. A capacity of
two is the smallest at which "oldest", "newest" and "full" differ, three
notifications and a prime overflow both the buffer and a channel. A clock of two
with a TTL of one has a session that is idle, one just within the TTL, and one
touched after the deadline was computed. `MaxStreams` limits requests that may
open a stream, counting those under way; requests that open none are unlimited.
Two messages are the fewest that recurse mutually, and two generated files the fewest of which one
can take something from the other; three types in a chain of imports make a type that a file uses without
importing its file. The limit on tool names is 5 in the instance and 64 in the
code: names of up to 4 letters after a namespace of up to 3 are on both sides of it.

`CHECK_DEADLOCK FALSE` is used where the system may stop: a server that has been
shut down, a torn-down stream, a returned loop, a call that was answered, a plugin that has
written its response. The `rpc` run checks deadlock.

### Fairness

Goroutines that can run do run (weak fairness of each handler's own steps, of
`close`, of the reaper, of `ServeIO`'s loop, of the schema builder): the Go scheduler does that. A blocked mutex is
not an exception, since critical sections are short and contain no wait. Three
things are assumed of the environment and named here: a client that stays
connected keeps reading (the `http.Server` has no write timeout, so one that does not
blocks its own GET), application handlers return, and the clock and `time.Ticker` of
the reaper run. `srv.Shutdown` times out after 5 s, which is the fairness of
`ManagerClose` while draining. Clients owe nothing: they need not hang up, end
their session, or send anything.

## What the runs found

* **A gap in resumption** (`listen_gap`). `handleGET` reads the replay and
  subscribes in two critical sections; an event published in between is in
  neither, and the next one moves the client's id past it.
* **Zombie listeners** (`http_zombie`). A GET that resolved its session before
  `closeAll` opens a fresh stream on the dead session, and nothing closes it.
* **Java prompts are registered and never served** (`servers_prompts`). README.md:23
  marks them as fully supported; nothing reads the list that `registerPrompt` fills.
* **Another module's `UNSET`** (`python_unset`). Each generated Python module has
  an `UNSET` of its own and compares with `is not UNSET`: an unset field of a
  message that is imported from another generated module is taken for a value.

Observed while modelling, and not refuted by a run of their own: the code says so in one
place, or nothing in the repository says otherwise, or the properties exclude it by name.

Runtime.

* An event that `publish` drops on a full channel stays in the buffer, as its comment says
  (`http_stream.go:64`), but cannot be resumed once the connection has delivered a later one.
* `notifications/initialized` with an id gets neither a result nor an error (`server.go:228`).
* `ServeIO` looks at its context between lines only: a silent client keeps it
  from returning after cancellation (`stdio.go:13` says it does).
* A client that only listens on its GET is reaped after the TTL, as only requests
  touch a session; a call that runs longer than the TTL loses its session; a
  session created after the manager was closed is never reaped; an `initialize`
  that is under way when its session ends still succeeds.
* `prompt.go:28` says "JSON name first, then by proto name"; the code takes the first
  field that has the key as either. With both names of a field given, the map's order decides.
* Two prompts of one name, or two resources of one URI: the later prompt replaces the
  earlier, the earlier resource is read. Instances of a template are listed once,
  at registration; a listing that fails leaves the earlier resources registered.
* `RegisterProtoTool` refuses a name that is empty after normalisation; the other languages
  register it. `WithNamespace` may take a name over the limit that the plugin checked
  with the service's own namespace. A blank inside a name stays in Go, Python and TypeScript
  and becomes a separator in Java and Kotlin.

Schemas.

* The option `required` of a oneof (README.md:681, 770) never reaches the
  builder: `generateSchema` does not set the oneof metadata hook.
* A `default_value` of a repeated field is a default of the wrong type, and `ValidateDefaults` makes
  registration fail; limits and defaults of map values are dropped.
* Limits, hidden enum values and required fields that recurse are ignored by the
  invented examples. A message whose required field is itself, directly or through others, has no value at
  all (README.md:714 shows one).
* A response that leaves a required message or wrapper unset, or an enum whose zero value is hidden, is an
  internal error after the application has done its work.

Generated servers.

* Java: the session factory of the file that registers last serves all later sessions, without the
  tools of the others. Kotlin: the last file's handlers replace the others', and a session
  that connects between the two halves of the installation has none until the next connection.
* TypeScript: duplicate names are not noticed; the second `register...Prompts` replaces the first;
  a handler that returns nothing is an internal error, where the others send an empty message.
* Python: a hand-written tool with a generated name, or a hand-written list in pages, makes lists and calls
  fail. Java and Kotlin do not notice a name that two files have.
* A registration that fails at its second tool leaves the first one registered.
* Resources: Kotlin, Java, Python and TypeScript throw "not yet fully supported".

Generator.

* Modules that are generated by separate runs of protoc do not know what others need of them.
* `mergePythonTypeGraphs` compares type names and not the wrappers of oneofs; clashes with Python keywords
  or names of the runtime are not looked for; a tool on `google.protobuf.Empty` fails for dataclasses only.
* TypeScript does not notice `A_B` beside `AB` in one file; a streaming method fails the run even when it is hidden.
* `jvmOuterClassNameConflicts` looks at top-level names only, where protoc also counts nested ones.

## Proofs

TLC checks the instances above. TLAPS proves the following for every value of the constants, from
the assumptions that the modules name. An invariant is proved by its initial states and its
steps, one step of the proof for each action; most of the properties are not inductive, and what had to be
added to them says why the code is right.

### ListenStream

For every set of clients and handlers and every positive buffer and channel size
(`MaxBufAssumption`, `SubCapAssumption`, `HandlersAssumption`, `ModesAssumption`):

| Theorem | Property |
|---|---|
| `BufferIsWindow` | `TypeOK`, `BufferWindow` |
| `NoSendOnClosed` | `SubscribersOpen`, `ListedIsOpen` |
| `ClosedStaysClosed` | `ClosedForever` |
| `OneConnectionInOrder` | `ConnectionInOrder` |
| `NothingMissedWithRoom` | `NoHolesWithRoom` |
| `ImplementsOrderedDelivery` | `AtMostOnceInOrder` |

The argument goes in layers, each inductive relative to the ones before:
`StreamInv` (types, the window, a listed stream is open) says what
`EventsAfter` returns: an ascending run above `Last-Event-ID`. `SubsInv` ties
channels to `pc`: a handler outside `stream` and `leave` has an empty channel and
is not subscribed. `OrderInv` chains what a handler has written, holds and
finds in its channel. It needs more than `ConnectionInOrder`: before the
subscription the pending events bound what can come, and `joined` separates them
from what the channel will hold. On top, a connected client's cursor equals what
its handler has written, so each write is a `Deliver` step, each publish a
`Publish` step and every other action a stutter. `NoHolesWithRoom` rests on a
counting argument: a channel with room holds the consecutive run that ends at
`seq`, and fewer than `SubCap` publishes since `joined` cannot have filled it.

### StreamableHTTP

For every set of sessions, request goroutines and versions, any TTL, and any bounds on the clock and
the streams (`ActorsAssumption`, `BoundsAssumption`):

| Theorem | Property |
|---|---|
| `BaseHolds` | types, and what a goroutine has at each place of its code |
| `EverySessionAccounted` | `SessionAccounted` |
| `OnlyIdleReaped` | `ReapedOnlyIdle` |
| `ImplementsSessionLifecycle` | `SessionsLiveOnce` |
| `EveryStreamAccounted` | `StreamAccounted` |
| `ListenStreamIsShared` | `OneListenStream` |
| `PostStreamsEnd` | `PostStreamsOwned` |
| `ResponsesLostByTeardown` | `ResponseLostOnlyOnTeardown` |

`Base` says that a request under way has a session that was created and that a goroutine which is not
tearing anything down has empty hands; it also carries `DeadlineOld`, that the deadline computed before
the lock is never newer than the clock less the TTL, which is all that `OnlyIdleReaped` needs. On it
stands `SessionPlaces`: a session is in the table, in one goroutine's hands or closed, and never in
two. `SessionAccounted` counts those places; it is not inductive by itself, as it says nothing of
sessions that have not been created, which nobody may hold or have closed, and a count is awkward to
follow through a step: `SessionPlaces` says the same by disjointness and adds that. `StreamPlaces` is the same for streams, with the session's number
bounding the streams there can be; `PublishersOwn`, that no two POSTs write to one stream, is what
makes it go through, as both would close it. `OneListenStream`, `PostStreamsOwned` and
`ResponseLostOnlyOnTeardown` are then inductive relative to these. The refinement needs `ReadyFirst`: a session
without `ready` has no version, so that `initialize` sets it once however many requests race.

### RpcServer

For every set of callers, applications, sessions and names, every set of bodies of any length, and any
number of registrations (`ProcsAssumption`, `MessagesAssumption`, `PrimitivesAssumption`):

| Theorem | Property |
|---|---|
| `BaseHolds` | types of registry and requests, the place in the batch, what was let through |
| `NothingBeforeInitialize` | `GatedAfterInitialize` |
| `ListsStayPrefixes` | `ListsArePrefixes` |
| `BatchesAnsweredInOrder` | `AnswersInOrder` |

What a step does to a request is one of five things (`RequestSteps`: it opens, the item is done
with or without a response, the answers are handed over, the goroutine moves within the item, or nothing), and each
property is proved from those rather than from the actions. `Granted` carries the gate past `requireReady`:
a session never stops being ready, so a goroutine inside a handler has one. `ListsBegin` is the
invariant behind `ListsArePrefixes`: with `OrderInEntries`, that every listed name is still in the map, a list
read under the lock is the whole order slice, and the slice only grows at its end. `AnswersInOrder` counts; its invariant
`BatchesMatch` gives the items that are done ranks, and the response to an item the rank of the item. `Kept`, which
filters a slice by recursion, is shown to be what it should be by least counterexample (`LeastElements`).

### Stdio

For any number of lines, and no assumption:

| Theorem | Property |
|---|---|
| `RequestsAnsweredInOrder` | `AnsweredInOrder` |
| `QuietEndAnswersAll` | `NothingLeftUnanswered` |

The invariant says how many lines the loop has settled (the one in its hands is not), that the responses are exactly those of
the settled requests, in ascending order, and that a quiet end has seen the end of the input.

### SchemaBuilder

For every finite set of messages and every assignment of fields to them:

| Theorem | Property |
|---|---|
| `BuilderInvariant` | the inductive invariant |
| `DefinitionsAreFilled` | `DefinitionsFilled` |
| `DepthIsBounded` | the stack is never deeper than there are messages |

The invariant says that the frames hold distinct messages, that exactly they are
`building`, and that every definition handed out as a placeholder is of a message on the
stack. So an empty stack has no placeholder left, and a stack of distinct
messages is no longer than their number: the recursion is bounded although
the messages are cyclic. It is needed because `DefinitionsFilled` by itself speaks only of the
end, and says nothing of the states on the way to it.

### GeneratedServer

For every finite set of registrations, any files and names, and every set of sessions, in each of the five languages
(`LanguagesAssumption`, `RegistrationsAssumption`, `ForeignNamesAssumption`, `FailedAssumption`):

| Theorem | Property |
|---|---|
| `CallsImplementContract` | `CallsKeepContract` |
| `ListsHold` | the inductive invariant of registration |
| `CallsFollowLists` | `CallsMatchLists` |
| `RegistrationsLast` | `RegisteredStaysServed` |

The assumptions say that there are finitely many registrations and names served by hand, and that a registration has
at least one tool: a service without methods is not collected (`internal/codegen/collect.go:109`).
`NoTable`, `Failed` and `Server` are values of their own.

*The contract.* Every action of a call maps to `Ask`, `Refuse`, `Invoke` or `Finish` of `ToolContract` or to a stutter, by cases over the
stages and over the five records of outcomes; registrations and sessions leave the call alone. The invariant is the
type of `call`: which faults can be pending in which stage.

*The lists.* Neither property is inductive: both speak of what a session sees, and say nothing of the names
that are reserved and not yet added, or of files that have begun and not yet installed. `ListsInv` has four parts.
`Served`: a table has exactly the tools that registrations have added to it, so a registration that returned has all of its own
there. `Unique`: no table has a name twice - in Go because a name that is pending is reserved, belongs to one
registration, and is not in the table; in Python because every name in any table is reserved, which also keeps the tables of
different modules apart; in Java and Kotlin because the table itself is looked at. `Chained`: in Python a file with tools is in
the chain, and no file twice; in Java and Kotlin every handler set that is installed or bound is of a file whose
registration has begun, which is what excludes a session bound to nobody's table. Each of the eight registration steps and
`Connect` keeps all four (one lemma per step).

For Python, `PythonListed` is defined by recursion over the chain. `PythonUnfolds` shows that the recursion has a solution (by
the least length without one), so that each list is the one before it and the module's own tools;
`ChainFacts` then says that a list that did not fail has no name twice and contains what the chain contains, and
`ChainServes` that none fails when nothing served by hand has a generated name. A call goes down the chain
from its other end, and reaches the same tool because no name is there twice.

### Generator

For any files, messages and enums that refer to each other in any way, any options, methods with names of any length,
prompts and texts, resources with any templates and values, and any limit on names
(`TypesAssumption`, `ProjectsAssumption`, `NamesAssumption`, `TokensAssumption`):

| Theorem | Property |
|---|---|
| `RunInvariant` | the inductive invariant `IInv` of a run |
| `CollectsEveryType` | `CollectsReachable` |
| `RecursionDepth` | the recursion of the walk is never deeper than there are types |
| `NamesDistinct` | `TypeNamesDistinct` |
| `UsesDefined` | `PublicTypesDefined` |
| `NamesFit` | `ToolNamesFit` |
| `ServingInvariant` | the inductive invariant `ServingInv` of a server |
| `ArgumentsArrive` | `PromptArgumentsArrive` |
| `ResourcesRead` | `ResourcesReadAsListed` |

The theorems are about `Generator!Spec` and `PromptServing!ServingSpec`. The run checks the properties on
`GeneratedSpec`, each of whose steps is a step of the plugin, of a call or of a server that leaves the others alone.
The assumptions say what protoc guarantees: finitely many types, distinct from the well-known ones, fields and methods in sequences with types that are known,
files of the request that are distinct and contain those to generate, and names made of the characters there are. Of the
application they say that what it lists of a resource has one value for each parameter of the template; a slash is not a parameter.

*The walk.* `CollectsReachable` speaks of the end of a walk. `Walk` is what holds on the way: the types seen are those
listed and those on the stack, which are disjoint and distinct (`Accounted`), the types of the fields that a frame
is past, and of all fields of a listed type, were seen (`Passed`), and where the walk started was seen or is
still to come, while any set that is closed under fields and has the start has all that was seen (`Needed`).
At the end the stack is empty, so that what is listed is closed itself, and the least such set.
`Accounted` is also why the recursion ends: distinct frames are no more than there are types. `NamesGiven` adds that every type
seen has its name in the table of names, and that two with one name make the graph failed.

*The run.* `IInv` carries that through the rest: the project is one of those given (`ProjectKnown`), what the options can be once they
are accepted (`OptionsRead`), how stage and position go together (`Position`), that each model collected is of its file, without
flaws, closed below its types and with distinct names (`ModelsCollected`), that a walk under way is one from the roots of the file
(`Walking`), what files need of each other and in which module that is or is still to be put (`NeedsKnown`), and that modules define what their
models list (`FilesWritten`). Neither property of Python modules is inductive. `PublicTypesDefined` is about the
end of a run, and rests on `NeedsKnown` in the second pass: a type that some module lists is in the module of its file, or
among those that the pass has still to add; the types that the pass itself adds have all below them listed by a module
already, so that it need not be repeated. `TypeNamesDistinct` needs `ModelsCollected` to know that what is
merged in the second pass was looked at again.

*Names of tools.* Go, Java, Kotlin and TypeScript split a name into words and join those that are not empty; Python
shortens runs of separators and strips the ends. `Alike` is what the two have in common after each character, and gives
that they are the same text at the end. That the plugin's length check covers all five is then one fact about `Len`. A
blank inside a name is where they differ, and where the theorem makes no claim of equality.

*Prompts.* `ServingInv` says that what is registered are prompts and resources of the files of a finished run, and that an answer under way is for the
resource that the URI was made from or for the prompt that the lookup found, with what `ParsePromptArguments` can return. A run that is done stays as it
is (`DoneStays`). The theorem then is that for arguments with listed names the order in which the map is read
does not matter, as no two of them reach one field.

*Resources.* A match of a URI against a template is a cut of the URI into consecutive parts, one for each token of the template:
the token itself, or a segment that is not empty and has no slash (`Matched`). Making a URI of values gives such a cut
(`FillCut`), and a cut gives back the URI (`CutFill`). When parameters are separated, two cuts of one URI are the same
(`CutsAgree`): literal tokens have one length, and where a parameter ends is settled from the slash that comes
next, which is the next slash of the URI as no part before it has one, and after the last parameter from the end of the URI. So what the rightmost, longest match finds are the values the URI was made from
(`ExtractFilled`), and a template that matches at all stands for the URI (`MatchedStands`). `ReadFinds` puts this together
with `resources/read`, which takes the first entry with the URI, and the first template that matches if there is none.

Recursive functions (`Only`, `Kept`, the splitting of names) are used through equations that are shown to have a
solution (`Stepwise`, `Recursion` in `LeastElements`), and determined by them (`Determined`).

### Only model-checked

* `AcceptedDecodes`, `ResponsesAccepted` and `ExamplesValid` of `ToolCall` and `OwnMessagesSurvive` of `PythonCalls` are out of the
  prover's reach: values nest in each other without bound, the definitions that convert and judge them are recursive (`RECURSIVE`),
  and a proof would be an induction over data.
* Liveness: `TeardownEndsGets`, `AbandonedGetsEnd`, `EndedSessionsAreTornDown`, `IdleSessionsReaped`, `UnlistedGetsEnd`,
  `ShutdownReturns`, `RequestsAnswered`, `EndOfInputReturns` and `BuilderTerminates` are checked by TLC under the fairness above.

## Plan

Done: the runtime, the schema builder, tool calls, the generated servers, prompts
and resources, tool names and the plugin's run; proofs of all safety properties but those named above as
only model-checked. What would come next:

1. A proof that `RpcServer`'s lock keeps writers and readers apart, and that whoever holds it
   can move: the safety half of `RequestsAnswered`.
2. The request gate of the HTTP handler: the version that `initialize` echoes against
   `MCP-Protocol-Version`.
3. JVM outer classes and module paths, as names like those of `TypeGraph`.

## Not modelled

* Wire types, the generated options package, examples and developer tools have no behaviour of their own.
* The header checks of the HTTP handler (Origin, Accept, size of the body) decide on one
  request and keep no state; `StreamableHTTP` has their outcome as a choice.
* Heartbeats and SSE formatting do not affect any property. Panics in application
  handlers end a request (HTTP) or the process (stdio) and are outside the models.
* Of the generator: aliases of modules (a checksum decides them), `__init__.py` and support files, paths
  (`-` and `_` in file names), titles, descriptions, icons and annotations, the literals and layout of the rendered
  text, JVM packages and outer classes. Their text has no state a model checker could add anything to.
* Of the target languages: their JSON codecs and SDKs. The Python prompts call a method of
  the SDK's server (`add_prompt`) whose behaviour the repository does not show, so prompts are modelled for
  Go, Kotlin, TypeScript and Java.
