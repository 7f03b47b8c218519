----------------------------- MODULE PythonCalls -----------------------------
(***************************************************************************)
(* Calls of the tools of a Python module that a run of the plugin wrote:   *)
(* its mappers convert the messages.  The application answers with the     *)
(* request it got, when the types allow it, or builds a response.          *)
(***************************************************************************)
EXTENDS Generator, PythonMappers

CONSTANT Depth   \* bound: nesting of messages in calls

VARIABLE call    \* the call that is looked at

NoCall == [step |-> "none"]

Served(f) == stage = "done" /\ opts.lang = "python" /\ "dataclass" \in pythonHandlers /\ <<f, "mcp">> \in DOMAIN outputs

Receive ==
  /\ call.step = "none"
  /\ \E f \in DOMAIN models :
       /\ Served(f)
       /\ \E m \in Range(models[f].tools) : \E request \in Messages(m.input, Depth) :
            LET object == from_pb(f, request)
            IN call' = IF object = Raised
                         THEN [step |-> "answered", file |-> f, meant |-> request, sent |-> Raised]
                         ELSE [step |-> "received", file |-> f, output |-> m.output,
                               meant |-> request, object |-> object]
  /\ UNCHANGED run

Reply(meant, object) ==
  /\ call.step = "received"
  /\ call' = [step |-> "answered", file |-> call.file, meant |-> meant, sent |-> to_pb(call.file, object)]
  /\ UNCHANGED run

Echo == call.step = "received" /\ call.object.class = call.output /\ Reply(call.meant, call.object)
Answer == call.step = "received" /\ \E response \in Messages(call.output, Depth) : Reply(response, Built(response))

Call == Receive \/ Echo \/ Answer

CallsInit == call = NoCall

CallsNext == (Next /\ UNCHANGED call) \/ Call

CallsSpec == Init /\ CallsInit /\ [][CallsNext]_<<run, call>>

----------------------------------------------------------------------------
Own(f, message) == \A m \in Parts(message) : FileOf[m.class] = f
OneofsUnset(message) ==
  \A m \in Parts(message) : \A i \in DOMAIN fields[m.class] :
    fields[m.class][i].oneof # NoOneof => m.value[fields[m.class][i].name] = <<>>

\* A message of the module's own types comes out of the mappers as it went in, unset
\* fields and oneofs included, whether the application hands it back or builds it.
OwnMessagesSurvive ==
  call.step = "answered" /\ Own(call.file, call.meant) => call.sent = call.meant

\* "Handlers should return UNSET when a field should remain unset in the serialized
\* protobuf output": a message in which fields and oneofs were left at their defaults
\* leaves as it is.  (Fails for an imported type: its UNSET is another module's.)
UnsetStaysUnset ==
  call.step = "answered" /\ OneofsUnset(call.meant) => call.sent = call.meant
=============================================================================
