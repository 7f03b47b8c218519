--------------------------- MODULE GeneratedServer ---------------------------
(***************************************************************************)
(* The server side of the generated code, in the five languages: what the  *)
(* Register functions of several generated files do to one server, what    *)
(* its sessions then list, and the way of one tools/call.                  *)
(*                                                                         *)
(* A registration is one call of a Register function: the file it was      *)
(* generated into and the full names of its tools, in order.  A tool is    *)
(* <<registration, index>>.  Go and TypeScript keep one table of tools     *)
(* for a server; Python, Java and Kotlin keep one for each generated file, *)
(* because the registries are private to the generated module.             *)
(*                                                                         *)
(* In Python and TypeScript a registration runs on the event loop: no      *)
(* other step comes in between.  In Go, Java and Kotlin it runs on a       *)
(* thread of its own, and each lock it takes is a step.                    *)
(***************************************************************************)
EXTENDS Integers, Sequences, FiniteSets, SequencesExt

CONSTANTS
  Languages,       \* the languages to consider
  Registrations,   \* the calls of Register functions
  FileOf,          \* the generated file of a registration
  NamesOf,         \* the full tool names of a registration
  PromptFiles,     \* the generated files that have prompts
  Sessions,
  ForeignNames,    \* names of tools that a hand-written handler may serve already
  NoTable, Failed,
  Server           \* the one table of Go and TypeScript

ASSUME LanguagesAssumption == Languages \subseteq {"go", "python", "java", "kotlin", "typescript"}
\* A service without methods is not collected: every registration has a tool.
ASSUME RegistrationsAssumption ==
  /\ IsFiniteSet(Registrations) /\ "hand" \notin Registrations
  /\ \A r \in Registrations :
       NamesOf[r] \in Seq(STRING) /\ NamesOf[r] # <<>> /\ FileOf[r] # Server
ASSUME ForeignNamesAssumption == IsFiniteSet(ForeignNames)
ASSUME FailedAssumption ==
  Failed \notin Seq([by : Registrations \cup {"hand"}, at : Nat \cup ForeignNames])

VARIABLES
  lang,
  foreign,   \* the tools served by hand before any generated code is registered
  paged,     \* the hand-written list answers in pages
  tables,    \* the tools of each table, in order
  reserved,  \* names taken server-wide (Go, Python)
  installed, \* the tables whose handlers are installed, oldest first
  pc, step,  \* of each registration: where it is, and the index of its next tool
  sessions,  \* connected sessions
  bound,     \* the table whose handlers a session has (Java, Kotlin)
  marked,    \* sessions each Kotlin registry has seen
  prompts,   \* prompt sets registered, and those a session can list
  listable,
  call       \* the one tools/call that is followed

chain == <<lang, foreign, paged, tables, reserved, installed, sessions, bound, marked>>
registering == <<pc, step>>
prompting == <<prompts, listable>>
vars == <<chain, registering, prompting, call>>

Files == {FileOf[r] : r \in Registrations}
Tool(r, i) == [by |-> r, at |-> i]
NameOf(tool) == NamesOf[tool.by][tool.at]
ByHand(name) == [by |-> "hand", at |-> name]
IsGenerated(tool) == tool.by \in Registrations

Names(tools) == {NameOf(tools[i]) : i \in DOMAIN tools}
IsInstalled(table) == table \in ToSet(installed)

NoCall == [stage |-> "idle", tool |-> NoTable, fault |-> "none", answer |-> "none"]

Init ==
  /\ lang \in Languages
  /\ foreign \in SUBSET ForeignNames
  /\ paged \in (IF foreign # {} /\ lang = "python" THEN BOOLEAN ELSE {FALSE})
  /\ tables = [t \in Files \cup {Server} |-> <<>>]
  /\ reserved = {} /\ installed = <<>>
  /\ pc = [r \in Registrations |-> "idle"]
  /\ step = [r \in Registrations |-> 1]
  /\ sessions = {}
  /\ bound = [s \in Sessions |-> NoTable]
  /\ marked = [f \in Files |-> {}]
  /\ prompts = {} /\ listable = {}
  /\ call = NoCall
-----------------------------------------------------------------------------
\* Python: the handlers are chained to those they find, then the tools are added up
\* to the first whose name any generated module has reserved on this server.
Fresh(r, taken) ==
  LET names == NamesOf[r]
      clash(i) == names[i] \in taken \cup {names[j] : j \in 1..(i - 1)}
      clashes == {i \in DOMAIN names : clash(i)}
  IN IF clashes = {} THEN Len(names) ELSE (CHOOSE i \in clashes : \A j \in clashes : i <= j) - 1

Install(table) == IF IsInstalled(table) THEN installed ELSE Append(installed, table)

RegisterPython(r) ==
  LET fresh == Fresh(r, reserved)
  IN /\ lang = "python" /\ pc[r] = "idle"
     /\ installed' = Install(FileOf[r])
     /\ tables' = [tables EXCEPT ![FileOf[r]] = @ \o [i \in 1..fresh |-> Tool(r, i)]]
     /\ reserved' = reserved \cup {NamesOf[r][i] : i \in 1..fresh}
     /\ pc' = [pc EXCEPT ![r] = IF fresh = Len(NamesOf[r]) THEN "ok" ELSE "failed"]
     /\ UNCHANGED <<lang, foreign, paged, sessions, bound, marked, step, prompting, call>>

\* TypeScript: refuses a server that has handlers already; never looks at the names.
RegisterTypeScript(r) ==
  /\ lang = "typescript" /\ pc[r] = "idle"
  /\ IF foreign # {} /\ ~IsInstalled(Server)
       THEN pc' = [pc EXCEPT ![r] = "failed"] /\ UNCHANGED <<tables, installed>>
       ELSE /\ pc' = [pc EXCEPT ![r] = "ok"]
            /\ installed' = Install(Server)
            /\ tables' = [tables EXCEPT ![Server] = @ \o [i \in DOMAIN NamesOf[r] |-> Tool(r, i)]]
  /\ UNCHANGED <<lang, foreign, paged, reserved, sessions, bound, marked, step, prompting, call>>

Advance(r) ==
  IF step[r] = Len(NamesOf[r])
    THEN pc' = [pc EXCEPT ![r] = IF lang = "java" THEN "install" ELSE "ok"] /\ UNCHANGED step
    ELSE /\ step' = [step EXCEPT ![r] = @ + 1]
         /\ pc' = [pc EXCEPT ![r] = IF lang = "go" THEN "idle" ELSE "add"]

\* Mutant: the name is not looked up before it is reserved.
ReserveGoBlindly(r) ==
  /\ lang = "go" /\ pc[r] = "idle"
  /\ pc' = [pc EXCEPT ![r] = "add"]
  /\ reserved' = reserved \cup {NamesOf[r][step[r]]}
  /\ UNCHANGED <<lang, foreign, paged, tables, installed, sessions, bound, marked,
                 step, prompting, call>>

\* Go: a name is reserved under the registry's lock and the tool added under the server's.
ReserveGo(r) ==
  LET name == NamesOf[r][step[r]]
  IN /\ lang = "go" /\ pc[r] = "idle"
     /\ IF name \in reserved
          THEN pc' = [pc EXCEPT ![r] = "failed"] /\ UNCHANGED reserved
          ELSE pc' = [pc EXCEPT ![r] = "add"] /\ reserved' = reserved \cup {name}
     /\ UNCHANGED <<lang, foreign, paged, tables, installed, sessions, bound, marked,
                    step, prompting, call>>

\* AddTool replaces a tool of the same name where it stands.
Placed(tools, tool) ==
  IF NameOf(tool) \in Names(tools)
    THEN [i \in DOMAIN tools |-> IF NameOf(tools[i]) = NameOf(tool) THEN tool ELSE tools[i]]
    ELSE Append(tools, tool)

AddGo(r) ==
  /\ lang = "go" /\ pc[r] = "add"
  /\ tables' = [tables EXCEPT ![Server] = Placed(@, Tool(r, step[r]))]
  /\ foreign' = foreign \ {NamesOf[r][step[r]]}
  /\ Advance(r)
  /\ UNCHANGED <<lang, paged, reserved, installed, sessions, bound, marked, prompting, call>>

\* Java and Kotlin: a file's own registry refuses a name it has.
AddToTable(r) ==
  /\ \/ lang = "java" /\ pc[r] \in {"idle", "add"}
     \/ lang = "kotlin" /\ pc[r] = "add"
  /\ IF NamesOf[r][step[r]] \in Names(tables[FileOf[r]])
       THEN pc' = [pc EXCEPT ![r] = "failed"] /\ UNCHANGED <<tables, step>>
       ELSE /\ tables' = [tables EXCEPT ![FileOf[r]] = Append(@, Tool(r, step[r]))]
            /\ Advance(r)
  /\ UNCHANGED <<lang, foreign, paged, reserved, installed, sessions, bound, marked, prompting, call>>

\* Java: the file's session factory replaces the transport's, once.
InstallSessionFactory(r) ==
  /\ lang = "java" /\ pc[r] = "install"
  /\ installed' = Install(FileOf[r])
  /\ pc' = [pc EXCEPT ![r] = "ok"]
  /\ UNCHANGED <<lang, foreign, paged, tables, reserved, sessions, bound, marked, step, prompting, call>>

\* Kotlin: under the file's install lock the handlers are put on the sessions there
\* are, and then on those of every later connection.
InstallMcpHandlers(r) ==
  LET file == FileOf[r]
  IN /\ lang = "kotlin" /\ pc[r] = "idle"
     /\ \A q \in Registrations : FileOf[q] = file => pc[q] # "hook"
     /\ CASE IsInstalled(file) -> pc' = [pc EXCEPT ![r] = "add"] /\ UNCHANGED <<bound, marked>>
          [] ~IsInstalled(file) /\ foreign # {} ->
               pc' = [pc EXCEPT ![r] = "failed"] /\ UNCHANGED <<bound, marked>>
          [] OTHER ->
               /\ pc' = [pc EXCEPT ![r] = "hook"]
               /\ bound' = [s \in Sessions |-> IF s \in sessions \ marked[file] THEN file ELSE bound[s]]
               /\ marked' = [marked EXCEPT ![file] = @ \cup sessions]
     /\ UNCHANGED <<lang, foreign, paged, tables, reserved, installed, sessions, step, prompting, call>>

OnConnect(r) ==
  /\ lang = "kotlin" /\ pc[r] = "hook"
  /\ installed' = Append(installed, FileOf[r])
  /\ pc' = [pc EXCEPT ![r] = "add"]
  /\ UNCHANGED <<lang, foreign, paged, tables, reserved, sessions, bound, marked, step, prompting, call>>

\* A session connects: Java's last factory makes it; in Kotlin every hook runs, in
\* order, over every session its registry has not seen.
Connect(s) ==
  LET open == sessions \cup {s}
      hooks(t) == {i \in DOMAIN installed : t \notin marked[installed[i]]}
  IN /\ s \notin sessions
     /\ sessions' = open
     /\ CASE lang = "java" ->
               /\ bound' = [bound EXCEPT ![s] = IF installed = <<>> THEN NoTable ELSE Last(installed)]
               /\ UNCHANGED marked
          [] lang = "kotlin" ->
               /\ bound' = [t \in Sessions |->
                              IF t \in open /\ hooks(t) # {}
                                THEN installed[CHOOSE i \in hooks(t) : \A j \in hooks(t) : j <= i]
                                ELSE bound[t]]
               /\ marked' = [f \in Files |-> IF IsInstalled(f) THEN open ELSE marked[f]]
          [] OTHER -> UNCHANGED <<bound, marked>>
     /\ UNCHANGED <<lang, foreign, paged, tables, reserved, installed, registering, prompting, call>>
-----------------------------------------------------------------------------
HandTools == SetToSeq({ByHand(n) : n \in foreign})
AnyName(tool) == IF IsGenerated(tool) THEN NameOf(tool) ELSE tool.at

\* The list of the k-th Python module in the chain: that of the handlers it found,
\* which must come in one page, followed by its own tools; no name twice.
PythonListed[k \in 0..Cardinality(Files)] ==
  IF k = 0 THEN (IF paged THEN Failed ELSE HandTools)
  ELSE LET merged == PythonListed[k - 1] \o tables[installed[k]]
       IN IF PythonListed[k - 1] = Failed
             \/ \E i, j \in DOMAIN merged : i < j /\ AnyName(merged[i]) = AnyName(merged[j])
          THEN Failed
          ELSE merged

Listed(s) ==
  CASE lang = "python" -> PythonListed[Len(installed)]
    [] lang = "go" -> HandTools \o tables[Server]
    [] lang = "typescript" -> IF installed = <<>> THEN HandTools ELSE tables[Server]
    [] OTHER -> IF bound[s] = NoTable THEN HandTools ELSE tables[bound[s]]

Named(tools, name) ==
  LET found == {i \in DOMAIN tools : AnyName(tools[i]) = name}
  IN IF found = {} THEN NoTable ELSE tools[CHOOSE i \in found : \A j \in found : i <= j]

\* Mutant: the module installed last answers every call.
PythonReachedLatest(name) ==
  Named(IF installed = <<>> THEN HandTools ELSE tables[Last(installed)], name)

\* A Python call goes down the chain to the module that has the tool; that module
\* first lists everything, unless nothing was there before it.
PythonReached(name) ==
  LET having == {k \in DOMAIN installed : name \in Names(tables[installed[k]])}
  IN IF having = {} THEN Named(HandTools, name)
     ELSE LET k == CHOOSE i \in having : \A j \in having : j <= i
          IN IF (k > 1 \/ foreign # {}) /\ PythonListed[Len(installed)] = Failed
               THEN Failed
               ELSE Named(tables[installed[k]], name)

Reached(s, name) == IF lang = "python" THEN PythonReached(name) ELSE Named(Listed(s), name)
-----------------------------------------------------------------------------
\* How each language's dispatch answers when a stage fails: the arguments against the
\* input schema, their decoding, the handler; a handler that returns nothing; the
\* encoding of its response, and the response against the output schema.
goDispatch ==
  [validate |-> "invalid_params", decode |-> "invalid_params", handle |-> "tool_error",
   nothing |-> "success", marshal |-> "internal", check |-> "internal"]
pythonDispatch == goDispatch
\* Mutant: arguments that do not decode are a failure of the tool.
javaDispatchLate == [goDispatch EXCEPT !.decode = "tool_error"]
javaDispatch == goDispatch
kotlinDispatch == [f \in DOMAIN goDispatch \ {"nothing"} |-> goDispatch[f]]
typescriptDispatch == [goDispatch EXCEPT !["nothing"] = "internal"]

Dispatch ==
  CASE lang = "go" -> goDispatch
    [] lang = "python" -> pythonDispatch
    [] lang = "java" -> javaDispatch
    [] lang = "kotlin" -> kotlinDispatch
    [] lang = "typescript" -> typescriptDispatch

\* The tool is looked up once; the rest of the call keeps it, whatever is registered meanwhile.
Receive(s, name, fault) ==
  /\ call.stage = "idle" /\ s \in sessions
  /\ LET tool == Reached(s, name)
     IN /\ tool # Failed /\ (tool # NoTable => IsGenerated(tool))
        /\ call' = IF tool = NoTable
                     THEN [stage |-> "unknown", tool |-> tool, fault |-> "none", answer |-> "none"]
                     ELSE [stage |-> "validate", tool |-> tool, fault |-> fault, answer |-> "none"]
  /\ UNCHANGED <<chain, registering, prompting>>

Reply(answer) == call' = [call EXCEPT !.stage = "idle", !.answer = answer]

AnswerUnknown == call.stage = "unknown" /\ Reply("invalid_params") /\ UNCHANGED <<chain, registering, prompting>>

Stages == <<"validate", "decode", "handle", "marshal", "check">>
After(stage) == Stages[1 + CHOOSE i \in 1..4 : Stages[i] = stage]

\* A stage fails, or passes the call on to the next, or ends it with a result.
FailsHere == call.fault = call.stage /\ Reply(Dispatch[call.stage])
FailsEmpty ==
  /\ call.fault = "nothing" /\ call.stage = "marshal" /\ Dispatch["nothing"] # "success"
  /\ Reply(Dispatch["nothing"])
Succeeds == call.stage = "check" /\ Reply("success")
PassesOn == call.stage # "check" /\ call' = [call EXCEPT !.stage = After(call.stage)]
Clean == call.fault # call.stage
         /\ ~(call.fault = "nothing" /\ call.stage = "marshal" /\ Dispatch["nothing"] # "success")

RunStage ==
  /\ call.stage \in ToSet(Stages)
  /\ FailsHere \/ FailsEmpty \/ (Clean /\ (Succeeds \/ PassesOn))
  /\ UNCHANGED <<chain, registering, prompting>>
-----------------------------------------------------------------------------
\* The prompts of a file.  Go and Kotlin add them to the server's; TypeScript sets
\* handlers that know this file's prompts only; Java keeps them in a list of its own.
RegisterPrompts(file) ==
  /\ file \notin prompts /\ lang # "python"
  /\ prompts' = prompts \cup {file}
  /\ listable' = CASE lang \in {"go", "kotlin"} -> listable \cup {file}
                   [] lang = "typescript" -> {file}
                   [] lang = "java" -> listable
  /\ UNCHANGED <<chain, registering, call>>
-----------------------------------------------------------------------------
AllNames == UNION {ToSet(NamesOf[r]) : r \in Registrations} \cup ForeignNames

Register(r) ==
  \/ RegisterPython(r) \/ RegisterTypeScript(r) \/ ReserveGo(r) \/ AddGo(r)
  \/ AddToTable(r) \/ InstallSessionFactory(r) \/ InstallMcpHandlers(r) \/ OnConnect(r)

Next ==
  \/ \E r \in Registrations : Register(r)
  \/ \E s \in Sessions : Connect(s)
  \/ \E s \in Sessions, name \in AllNames, fault \in DOMAIN Dispatch \cup {"none"} :
       Receive(s, name, fault)
  \/ AnswerUnknown \/ RunStage
  \/ \E file \in PromptFiles : RegisterPrompts(file)

Spec == Init /\ [][Next]_vars
-----------------------------------------------------------------------------
Distinct(tools) == \A i, j \in DOMAIN tools : AnyName(tools[i]) = AnyName(tools[j]) => i = j

\* What tools/list shows is what tools/call serves: each tool listed is the one its
\* name reaches, and a name that is not listed reaches no generated tool (Listed and
\* Reached walk the chain of Python handlers in opposite directions).  TypeScript is
\* held to it only while no name was registered twice: it never looks.
CallsMatchLists ==
  \A s \in sessions :
    LET listed == Listed(s)
    IN \/ listed = Failed
       \/ lang = "typescript" /\ ~Distinct(listed)
       \/ /\ \A i \in DOMAIN listed : Reached(s, AnyName(listed[i])) = listed[i]
          /\ \A name \in AllNames :
               Reached(s, name) # NoTable => \E i \in DOMAIN listed : AnyName(listed[i]) = name

ComposesWithHand(r) ==
  lang = "python" => ~paged /\ \A q \in Registrations : ToSet(NamesOf[q]) \cap foreign = {}

\* A tool stays served for as long as the server lives once its Register function
\* returned without an error: whatever other generated files, concurrent
\* registrations (failed ones included) and sessions come later, every session that
\* has generated handlers reaches exactly that tool under its name.  On a Java or Kotlin
\* server that holds until a second generated file registers: it takes the sessions.
RegisteredStaysServed ==
  \A r \in Registrations, s \in sessions :
    /\ pc[r] = "ok"
    /\ ComposesWithHand(r)
    /\ lang \in {"java", "kotlin"} =>
         bound[s] # NoTable /\ \A q \in Registrations : FileOf[q] # FileOf[r] => pc[q] = "idle"
    /\ lang = "typescript" => Distinct(tables[Server])
    => \A i \in DOMAIN NamesOf[r] : Reached(s, NamesOf[r][i]) = Tool(r, i)

\* How far a call is, as ToolContract sees it.
Phase == CASE call.stage = "idle" -> "idle"
           [] call.stage \in {"unknown", "validate", "decode"} -> "asked"
           [] OTHER -> "invoked"

Sound == CASE call.stage \in {"validate", "decode"} -> call.fault \notin {"validate", "decode"}
           [] call.stage \in {"handle", "marshal", "check"} ->
                call.fault = "none" \/ (call.fault = "nothing" /\ Dispatch["nothing"] = "success")
           [] OTHER -> FALSE

Contract == INSTANCE ToolContract WITH
  InvalidParams <- "invalid_params", ToolError <- "tool_error", Internal <- "internal",
  Success <- "success", NoAnswer <- "none",
  phase <- Phase, sound <- Sound, answer <- call.answer

\* A tools/call implements ToolContract in every language, while tools are being
\* registered: refused before user code, run at most once, a result only for a
\* response that encodes and validates.
CallsKeepContract == Contract!Spec

\* The prompts whose Register function was called can be listed.  README.md:23 marks
\* prompts as fully supported in Java; nothing reads the list that Java keeps.
PromptsServed == prompts = listable
=============================================================================
