------------------------------ MODULE ToolCall -------------------------------
(***************************************************************************)
(* A generated tool from its proto messages to its calls: the builder      *)
(* writes the schema, RegisterProtoTool loads it, and the tool's handler   *)
(* answers calls: validate the arguments, decode them, run the             *)
(* application's handler, encode its response, validate that.  The root    *)
(* message is both the request and the response of the RPC.                *)
(***************************************************************************)
EXTENDS SchemaBuilder, ProtoJSON

CONSTANTS
  Arguments(_, _),   \* values a client sends for a field, given the messages
  Depth              \* bound: nesting of messages in arguments and responses

VARIABLES
  tool,   \* "none", "registered" or "refused"
  call    \* the call being looked at: its arguments, how far it got, its outcome

toolVars == <<fields, frames, built, defs, status, tool, call>>

NoCall == [step |-> "none"]

\* loadSchema resolves the schema with ValidateDefaults.
Loads(doc) ==
  \A s \in DocumentSchemas(doc) : "default" \in DOMAIN s => Valid(doc, s, s.default)

RegisterProtoTool ==
  /\ status = "done" /\ tool = "none"
  /\ tool' = IF Loads(Document) THEN "registered" ELSE "refused"
  /\ UNCHANGED <<fields, frames, built, defs, status, call>>

\* marshalArguments: a call without arguments is a call with {}.
marshalArguments(args) == IF args = <<>> THEN Obj(Unconstrained) ELSE args[1]

Receive ==
  /\ tool = "registered" /\ call.step = "none"
  /\ \E args \in {<<>>} \cup {<<x>> : x \in Arguments(fields, Root)} :
       call' = [step |-> "arguments", args |-> marshalArguments(args), outcome |-> "pending"]
  /\ UNCHANGED <<fields, frames, built, defs, status, tool>>

Outcome(outcome) == call' = [step |-> "answered", outcome |-> outcome]

ValidateArguments ==
  /\ call.step = "arguments"
  /\ IF Accepts(Document, call.args)
       THEN call' = [call EXCEPT !.step = "accepted"]
       ELSE Outcome("invalidParams")
  /\ UNCHANGED <<fields, frames, built, defs, status, tool>>

\* A request that does not decode is answered with invalidParams too; it is kept.
UnmarshalArguments ==
  /\ call.step = "accepted"
  /\ call' = IF DecodesMessage(fields, Root, call.args)
               THEN [step |-> "decoded"]
               ELSE [step |-> "answered", outcome |-> "invalidParams", undecodable |-> call.args]
  /\ UNCHANGED <<fields, frames, built, defs, status, tool>>

\* The application fails, or returns a response; a nil response is an empty one,
\* so it is among the responses that are not complete.
Handler ==
  /\ call.step = "decoded"
  /\ \/ Outcome("isError")
     \/ \E complete \in BOOLEAN : \E response \in Written(fields, Root, Depth, complete) :
          call' = [step |-> "responded", response |-> response, complete |-> complete]
  /\ UNCHANGED <<fields, frames, built, defs, status, tool>>

ValidateResponse ==
  /\ call.step = "responded"
  /\ call' = IF Accepts(Document, call.response)
               THEN [step |-> "answered", outcome |-> "result"]
               ELSE [step |-> "answered", outcome |-> "internalError", complete |-> call.complete]
  /\ UNCHANGED <<fields, frames, built, defs, status, tool>>

ToolInit == Init /\ tool = "none" /\ call = NoCall

Step ==
  \/ Build /\ UNCHANGED <<tool, call>>
  \/ RegisterProtoTool \/ ValidateArguments \/ UnmarshalArguments \/ Handler \/ ValidateResponse

ToolNext == Receive \/ Step

\* The generator and the server go on; a client need not call.
ToolSpec == ToolInit /\ [][ToolNext]_toolVars /\ WF_toolVars(Step)

----------------------------------------------------------------------------
\* What the schema does not see of a value: the lexical form of strings, the sign
\* of unsigned integers, a null in place of a wrapper in a list or a map, and a null
\* for a Value, which the codec takes for a value where the schema takes it for an
\* absence (in place of a list of Values, or in a oneof beside another member).
Loose(field) ==
  LET many == field.card \in {"list", "map"}
  IN [field EXCEPT !.kind =
        CASE @ \in Wrappers /\ many -> "anything"
          [] @ = "Value" /\ (field.card = "list" \/ field.oneof # NoOneof) -> "anything"
          [] @ \in {"BytesValue", "Int64Value"} /\ ~many -> "string"
          [] @ \in {"bytes", "Timestamp", "Duration", "FieldMask", "int64", "uint64"} -> "string"
          [] @ = "uint32" -> "int32"
          [] OTHER -> @]

LooseFields == [m \in Messages |-> [i \in DOMAIN fields[m] |-> Loose(fields[m][i])]]

\* Arguments that the published schema admits are arguments that ProtoJSON decodes,
\* up to the above: the shape a client reads in inputSchema is the shape the codec
\* takes, oneofs, nulls, maps and recursive messages included.
AcceptedDecodes ==
  "undecodable" \in DOMAIN call => DecodesMessage(LooseFields, Root, call.undecodable)

\* A response that sets all its message fields, holds no hidden enum value and
\* obeys its limits is never turned into an internal error by the schema that was
\* generated from the same descriptor.
ResponsesAccepted ==
  "complete" \in DOMAIN call /\ call.step = "answered" => ~call.complete

\* The messages at the end of a chain of n required fields that starts in ms.
RECURSIVE Needs(_, _)
Needs(ms, n) ==
  IF n = 0 THEN ms
  ELSE LET required(m) == {i \in DOMAIN fields[m] : isRequiredField(fields[m][i]) /\ IsMessage(fields[m][i])}
       IN Needs(UNION {{fields[m][i].msg : i \in required(m)} : m \in ms}, n - 1)

\* What the builder's examples rely on: no chain of required fields without end,
\* a required field that is no message in every message, no hidden enum value, no limits.
Plain ==
  /\ Needs(Messages, Cardinality(Messages)) = {}
  /\ \A m \in Messages :
       /\ \E i \in DOMAIN fields[m] : isRequiredField(fields[m][i]) /\ ~IsMessage(fields[m][i])
       /\ \A i \in DOMAIN fields[m] :
            /\ fields[m][i].limits = Unconstrained
            /\ \A v \in fields[m][i].values : ~v.hidden

\* The invented examples are values the schema they are published in admits.
ExamplesValid ==
  status = "done" /\ Plain =>
    \A i \in DOMAIN fields[Root] :
      LET field == fields[Root][i]
          examples == autoFieldExamples(fields, field)
      IN \A k \in DOMAIN examples :
           Valid(Document, Document.schema.properties[field.name], examples[k])

\* A generated tool whose descriptor the builder supports is registered or refused
\* in the end: no cycle of messages makes the builder run forever.
BuilderTerminates == <>(status = "failed" \/ tool # "none")
=============================================================================
