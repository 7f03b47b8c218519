-------------------------- MODULE PromptsResources --------------------------
(***************************************************************************)
(* Prompts and resources: messages with an option of their own.  The plugin *)
(* checks them when it collects a file; the generated Register functions    *)
(* add them to a server, which answers prompts/get and resources/read.      *)
(*                                                                         *)
(* A prompt's arguments are the fields of its message, listed under their   *)
(* JSON names.  A resource is [message, uri, template, instances]: a URI is  *)
(* a sequence of tokens, a template a sequence in which some tokens are      *)
(* parameters, and an instance the values of the parameters, in order, of a  *)
(* resource the application lists.  <<>> is an option that is not set.       *)
(***************************************************************************)
EXTENDS TypeGraph

CONSTANTS
  EnumValues,  \* EnumValues[e]: the numbers of enum e by the names of its values
  Params,      \* tokens that are parameters of a template
  Malformed    \* a token with a brace and no identifier after it

Slash == "/"
ASSUME TokensAssumption == Slash \notin Params

Absent == [tag |-> "absent"]

----------------------------------------------------------------------------
\* The plugin.  Only messages at the top of a file are looked at.
Prompts(f, names) == Only(TypesOf[f], {t \in DOMAIN names : Len(Path[t]) = 1})
Resources(f, resources) ==
  Only(resources, {r \in Range(resources) : FileOf[r.message] = f /\ Len(Path[r.message]) = 1})

UnfitArgument(field) ==
  \/ field.oneof # NoOneof
  \/ field.card \in {"map", "list"}
  \/ field.type \notin Enums \cup {Scalar}

IsTemplate(r) == r.template # <<>>

UnfitTemplate(template) == Range(template) \cap Params = {} \/ Malformed \in Range(template)

UnfitResource(r) ==
  \/ (r.uri = <<>>) = ~IsTemplate(r)
  \/ IsTemplate(r) /\ UnfitTemplate(r.template)

\* A field is a required argument unless it has the keyword optional.
Required(t) == {i \in DOMAIN fields[t] : fields[t][i].card = "implicit"}

----------------------------------------------------------------------------
\* The lookup by proto name alone.
NamedInProto(t, key) ==
  LET named == {i \in DOMAIN fields[t] : key = fields[t][i].name}
  IN IF named = {} THEN 0 ELSE Min(named)

\* prompts/get.  Keys that no field has are skipped; the first field that has the key,
\* as its JSON name or as its own, takes it.
Named(t, key) ==
  LET named == {i \in DOMAIN fields[t] : key \in {fields[t][i].json, fields[t][i].name}}
  IN IF named = {} THEN 0 ELSE Min(named)

\* Numbers, bools and bytes refuse texts as enums do; a string takes them all.
parseScalarValue(field, text) ==
  IF field.type \in Enums
    THEN IF text \in DOMAIN EnumValues[field.type] THEN EnumValues[field.type][text] ELSE Raised
    ELSE [tag |-> "text", text |-> text]

Complete(t, args) == {fields[t][i].json : i \in Required(t)} \subseteq DOMAIN args

\* The map of arguments is read in any order: of two keys for a field either may win.
ParsePromptArguments(t, args) ==
  LET known == {key \in DOMAIN args : Named(t, key) # 0}
      parsed == [key \in known |-> parseScalarValue(fields[t][Named(t, key)], args[key])]
      values(i) == {parsed[key] : key \in {k \in known : Named(t, k) = i}}
      choices(i) == IF values(i) = {} THEN {Absent} ELSE values(i)
  IN IF ~Complete(t, args) \/ \E key \in known : parsed[key] = Raised
       THEN {Raised}
       ELSE {got \in [DOMAIN fields[t] -> UNION {choices(i) : i \in DOMAIN fields[t]}] :
               \A i \in DOMAIN got : got[i] \in choices(i)}

\* Go fills the message; Kotlin and TypeScript hand the arguments over as they came.
PromptInputs(lang, t, args) ==
  IF lang = "go"
    THEN ParsePromptArguments(t, args)
    ELSE {IF Complete(t, args) THEN args ELSE Raised}

----------------------------------------------------------------------------
\* resources/read.  A template's k-th token is, or comes after, parameter Slot(template, k).
Slot(template, k) == Len(Only(SubSeq(template, 1, k), Params))

Fill(template, values) ==
  FlattenSeq([k \in DOMAIN template |->
    IF template[k] \in Params THEN values[Slot(template, k)] ELSE <<template[k]>>])

\* As if it could reach across segments.
ParamTakesSlashes(text) == text # <<>>

\* A parameter takes as much as it can, within a path segment.
ParamTakes(text) == text # <<>> /\ Slash \notin Range(text)

NoMatch == << <<>> >>   \* no values: a parameter takes at least one token

\* match[j][i]: the values with which the tokens of the template from j on are the text
\* from i on.
ExtractURIParams(uri, template) ==
  LET starts == 1..Len(uri) + 1
      match[j \in 1..Len(template) + 1] ==
        [i \in starts |->
           LET ends == {n \in i..Len(uri) : ParamTakes(SubSeq(uri, i, n)) /\ match[j + 1][n + 1] # NoMatch}
           IN CASE j > Len(template) -> IF i > Len(uri) THEN <<>> ELSE NoMatch
                [] j <= Len(template) /\ template[j] \in Params ->
                     IF ends = {} THEN NoMatch ELSE <<SubSeq(uri, i, Max(ends))>> \o match[j + 1][Max(ends) + 1]
                [] OTHER -> IF i <= Len(uri) /\ uri[i] = template[j] THEN match[j + 1][i + 1] ELSE NoMatch]
  IN match[1][1]

\* What the Register function of a file adds: its static resources and the instances
\* that the application lists at that moment, and the templates.
Entries(resources) ==
  FlattenSeq([i \in DOMAIN resources |->
    LET r == resources[i]
    IN IF IsTemplate(r)
         THEN [k \in DOMAIN r.instances |-> [uri |-> Fill(r.template, r.instances[k]), of |-> r]]
         ELSE <<[uri |-> r.uri, of |-> r]>>])

Templates(resources) == Only(resources, {r \in Range(resources) : IsTemplate(r)})

\* The handler of a resource calls the application's Read function for its message.
readHandler(r, uri) ==
  LET values == IF IsTemplate(r) THEN ExtractURIParams(uri, r.template) ELSE <<>>
  IN IF values = NoMatch THEN Raised ELSE [tag |-> "read", message |-> r.message, values |-> values]

handleResourcesRead(resources, uri) ==
  LET entries == Entries(resources)
      templates == Templates(resources)
      listed == {i \in DOMAIN entries : entries[i].uri = uri}
      fitting == {i \in DOMAIN templates : ExtractURIParams(uri, templates[i].template) # NoMatch}
  IN CASE listed # {} -> readHandler(entries[Min(listed)].of, uri)
       [] listed = {} /\ fitting # {} -> readHandler(templates[Min(fitting)], uri)
       [] OTHER -> Raised
=============================================================================
