---------------------------- MODULE PromptServing ----------------------------
(***************************************************************************)
(* Prompts and resources on a server: the Register functions that a run of *)
(* the plugin wrote in Go, Kotlin and TypeScript add them, clients list,    *)
(* get and read them.  Java keeps prompts in a list that nothing reads,     *)
(* Python hands them to the SDK; resources have a Register function that    *)
(* does not throw in Go only.                                              *)
(***************************************************************************)
EXTENDS Generator

CONSTANT Texts   \* what prompt arguments say

VARIABLES
  registered, \* the Register functions that were called, in order
  request     \* the prompts/get or resources/read that is looked at

serving == <<registered, request>>

NoRequest == [step |-> "none"]

ServesPrompts == opts.lang \in {"go", "kotlin", "typescript"}
ServesResources == opts.lang = "go"

Ready(f) == stage = "done" /\ request.step = "none" /\ <<f, "mcp">> \in DOMAIN outputs
WasRegistered(what, f) == \E i \in DOMAIN registered : registered[i].what = what /\ registered[i].file = f

Register(what, f, added) ==
  /\ Ready(f) /\ ~WasRegistered(what, f)
  /\ registered' = Append(registered, [what |-> what, file |-> f, added |-> added])
  /\ UNCHANGED <<run, request>>

RegisterPrompts(f) ==
  /\ ServesPrompts /\ models[f].prompts # <<>>
  /\ Register("prompts", f, models[f].prompts)

\* The application's listing of a template's instances may fail; what came before stays.
RegisterResources(f) ==
  /\ ServesResources /\ models[f].resources # <<>>
  /\ \E n \in 0..Len(models[f].resources) :
       /\ n < Len(models[f].resources) => IsTemplate(models[f].resources[n + 1])
       /\ Register("resources", f, SubSeq(models[f].resources, 1, n))

Added(what) == FlattenSeq([i \in DOMAIN registered |-> IF registered[i].what = what THEN registered[i].added ELSE <<>>])

\* The prompts in the order in which names are looked up: a later prompt takes a name
\* over, and in TypeScript a later file takes over all of them.
ServedPrompts ==
  LET files == Only(registered, {r \in Range(registered) : r.what = "prompts"})
  IN CASE files = <<>> -> <<>>
       [] files # <<>> /\ opts.lang = "typescript" -> Last(files).added
       [] OTHER -> Reverse(Added("prompts"))

PromptNamed(name) == Head(Only(ServedPrompts, {t \in Range(ServedPrompts) : project.prompts[t] = name}))

\* TypeScript lists two prompts of one name, the others keep one.
ListedPrompts ==
  {t \in Range(ServedPrompts) : opts.lang = "typescript" \/ PromptNamed(project.prompts[t]) = t}

Keys(t) == UNION {{fields[t][i].json, fields[t][i].name} : i \in DOMAIN fields[t]}

\* A client gets a prompt that it saw in the list.
GetPrompt ==
  /\ stage = "done" /\ request.step = "none"
  /\ \E t \in ListedPrompts : \E keys \in SUBSET Keys(t) : \E args \in [keys -> Texts] :
       LET prompt == PromptNamed(project.prompts[t])
       IN \E got \in PromptInputs(opts.lang, prompt, args) :
            request' = [step |-> "prompted", listed |-> t, args |-> args, prompt |-> prompt, got |-> got]
  /\ UNCHANGED <<run, registered>>

\* A client reads a URI that a resource stands for, listed or not.
ReadResource ==
  /\ stage = "done" /\ request.step = "none"
  /\ \E r \in Range(Added("resources")) : \E values \in Range(r.instances) \cup r.unlisted :
       LET uri == IF IsTemplate(r) THEN Fill(r.template, values) ELSE r.uri
       IN request' = [step |-> "read", resource |-> r, values |-> values, uri |-> uri,
                   got |-> handleResourcesRead(Added("resources"), uri)]
  /\ UNCHANGED <<run, registered>>

Serve ==
  \/ \E f \in DOMAIN models : RegisterPrompts(f) \/ RegisterResources(f)
  \/ GetPrompt \/ ReadResource

ServingInit == registered = <<>> /\ request = NoRequest

ServingNext == (Next /\ UNCHANGED serving) \/ Serve

ServingSpec == Init /\ ServingInit /\ [][ServingNext]_<<run, serving>>

----------------------------------------------------------------------------
\* A field whose JSON name is a name of an earlier field.  (The comment at prompt.go:28
\* looks for JSON names first; the code takes the first field that has the key as either.)
Crossed(t) ==
  \E i, j \in DOMAIN fields[t] : i < j /\ fields[t][j].json \in {fields[t][i].json, fields[t][i].name}

ListedArguments(t) == {fields[t][i].json : i \in DOMAIN fields[t]}
Listed(lang, t, args) ==
  IF lang = "go"
    THEN [i \in DOMAIN fields[t] |->
            IF fields[t][i].json \in DOMAIN args THEN parseScalarValue(fields[t][i], args[fields[t][i].json]) ELSE Absent]
    ELSE args

\* A client that follows prompts/list - listed names, all required ones, values of the
\* fields' types - gets the prompt it chose, and its application gets those values in
\* those fields, whatever was registered before and after.
PromptArgumentsArrive ==
  /\ request.step = "prompted"
  /\ \A u \in ListedPrompts : project.prompts[u] = project.prompts[request.listed] => u = request.listed
  /\ ~Crossed(request.listed)
  /\ DOMAIN request.args \subseteq ListedArguments(request.listed) /\ Complete(request.listed, request.args)
  /\ Raised \notin Range(Listed("go", request.listed, request.args))
  => request.prompt = request.listed /\ request.got = Listed(opts.lang, request.listed, request.args)

\* Two parameters of a template are never in one path segment.
Separated(template) ==
  \A i, j \in DOMAIN template :
    i < j /\ {template[i], template[j]} \subseteq Params => \E k \in i..j : template[k] = Slash

Segment(text) == text # <<>> /\ Slash \notin Range(text)

StandsFor(r, uri) ==
  IF IsTemplate(r)
    THEN LET slots == Len(Only(r.template, Params))
         IN \E values \in [1..slots -> {text \in SubSeqs(uri) : Segment(text)}] : Fill(r.template, values) = uri
    ELSE r.uri = uri

\* A URI reaches the Read function of the resource that it was made from, with the values
\* it was made from: one that the server lists, unless it is listed for another resource
\* as well, and one that it does not list, unless it stands for another resource too.
ResourcesReadAsListed ==
  /\ request.step = "read"
  /\ Separated(request.resource.template) /\ \A text \in Range(request.values) : Segment(text)
  /\ LET listing == {e.of : e \in {e \in Range(Entries(Added("resources"))) : e.uri = request.uri}}
     IN \/ listing = {request.resource}
        \/ listing = {} /\ \A r \in Range(Added("resources")) : StandsFor(r, request.uri) => r = request.resource
  => request.got = [tag |-> "read", message |-> request.resource.message, values |-> request.values]
=============================================================================
