---------------------------- MODULE SchemaBuilder ----------------------------
(***************************************************************************)
(* GenerateMessageSchema: the JSON Schema of a protobuf message, which the *)
(* generator embeds in the code of every tool.                             *)
(*                                                                         *)
(* Messages refer to each other and to themselves, so the builder keeps    *)
(* the messages it is inside of (building), the schemas it has finished    *)
(* (built) and the definitions that some $ref points to (defs).  Its       *)
(* recursion is a stack of frames here, one per call of                    *)
(* generateMessageSchema in progress, and a step handles one field.  The   *)
(* messages and their fields are chosen in the initial state.              *)
(***************************************************************************)
EXTENDS SchemaTerms, FiniteSets, SequencesExt

CONSTANTS
  Messages,     \* full names of user-defined messages
  Root,         \* the message whose schema is asked for
  Descriptors   \* the fields each message may have: functions from Messages to sequences

ASSUME RootAssumption == Root \in Messages /\ RefRoot \notin Messages
ASSUME MessagesAssumption == IsFiniteSet(Messages)

ASSUME DescriptorsAssumption ==
  \A d \in Descriptors, m \in Messages : \A i \in 1..Len(d[m]) :
    d[m][i].kind = "message" => d[m][i].msg \in Messages

VARIABLES
  fields,   \* fields[m]: the fields of message m, in order
  frames,   \* calls of generateMessageSchema in progress, innermost last
  built,    \* finished schemas, by message
  defs,     \* definitions, by message
  status    \* "building", "done" or "failed"

vars == <<fields, frames, built, defs, status>>

Frame(m) == [message |-> m, next |-> 1, properties |-> Unconstrained]

Top == frames[Len(frames)]
AtField == frames # <<>> /\ Top.next <= Len(fields[Top.message])
Field == fields[Top.message][Top.next]
building == {frames[i].message : i \in DOMAIN frames}

\* Calls of generateSingularSchema that reach a user-defined message.
IsMessage(field) == field.kind = "message"

Init ==
  /\ fields \in Descriptors
  /\ frames = <<Frame(Root)>>
  /\ built = Unconstrained
  /\ defs = Unconstrained
  /\ status = "building"

\* The frame after the schema of its field's value has become a property.
Advanced(frame, schema) ==
  LET field == fields[frame.message][frame.next]
  IN [message |-> frame.message, next |-> frame.next + 1,
      properties |-> Set(frame.properties, field.name, Property(field, schema))]

Put(schema) == frames' = [frames EXCEPT ![Len(frames)] = Advanced(Top, schema)]

ScalarField ==
  /\ AtField /\ Supported(Field) /\ ~IsMessage(Field)
  /\ Put(Leaf(Field, LimitsOf(Field)))
  /\ UNCHANGED <<fields, built, defs, status>>

\* Mutant: the refusal of a field is lost on the way up the recursion.
UnsupportedFieldForgotten ==
  /\ AtField /\ ~Supported(Field)
  /\ frames' = <<>>
  /\ UNCHANGED <<fields, built, defs, status>>

UnsupportedField ==
  /\ AtField /\ ~Supported(Field)
  /\ status' = "failed"
  /\ frames' = <<>>
  /\ UNCHANGED <<fields, built, defs>>

\* ensureDefinition: a placeholder until the message is finished.
ensureDefinition(m) ==
  defs' = IF m = Root \/ m \in DOMAIN defs THEN defs ELSE Set(defs, m, Unconstrained)

\* The field's message is one the builder is inside of: refer to it.
RecursiveField ==
  /\ AtField /\ IsMessage(Field) /\ Field.msg \in building
  /\ ensureDefinition(Field.msg)
  /\ Put(RefTo(IF Field.msg = Root THEN RefRoot ELSE Field.msg))
  /\ UNCHANGED <<fields, built, status>>

\* The field's message is finished: refer to its definition, or copy it.
BuiltField ==
  /\ AtField /\ IsMessage(Field)
  /\ Field.msg \notin building /\ Field.msg \in DOMAIN built
  /\ Put(IF Field.msg \in DOMAIN defs THEN RefTo(Field.msg) ELSE built[Field.msg])
  /\ UNCHANGED <<fields, built, defs, status>>

EnterMessage ==
  /\ AtField /\ IsMessage(Field)
  /\ Field.msg \notin building /\ Field.msg \notin DOMAIN built
  /\ frames' = Append(frames, Frame(Field.msg))
  /\ UNCHANGED <<fields, built, defs, status>>

\* The oneofs of a message in the order of their first members.
Oneofs(m) == {fields[m][i].oneof : i \in DOMAIN fields[m]} \ {NoOneof}
Members(m, oneof) == SelectSeq(fields[m], LAMBDA f : f.oneof = oneof)

\* generateSchema gives the builder no OneofMetadata, so lookupOneofMetadata
\* answers the zero value whatever the oneof's options say.
lookupOneofMetadata(members) == [required |-> FALSE]

generateOneofConstraints(m) ==
  LET constraint(oneof) ==
        LET members == Members(m, oneof)
        IN oneofConstraint([i \in DOMAIN members |-> members[i].name],
                           lookupOneofMetadata(members).required)
  IN SetToSeq({constraint(oneof) : oneof \in Oneofs(m)})

MessageSchema(m, properties) ==
  LET required == {fields[m][i].name : i \in {k \in DOMAIN fields[m] : isRequiredField(fields[m][k])}}
      absent == (IF properties = Unconstrained THEN {"properties"} ELSE {}) \cup
                (IF required = {} THEN {"required"} ELSE {}) \cup
                (IF Oneofs(m) = {} THEN {"allOf"} ELSE {})
  IN Without([type |-> "object", additionalProperties |-> Nothing, properties |-> properties,
              required |-> required, allOf |-> generateOneofConstraints(m)], absent)

\* Mutant: a placeholder is filled only for a message that was finished before.
LeaveMessageUnfilled ==
  /\ frames # <<>> /\ ~AtField
  /\ LET schema == MessageSchema(Top.message, Top.properties)
         caller == Len(frames) - 1
     IN /\ built' = Set(built, Top.message, schema)
        /\ defs' = IF Top.message \in DOMAIN built THEN Set(defs, Top.message, schema) ELSE defs
        /\ frames' = [i \in 1..caller |->
                       IF i = caller THEN Advanced(frames[i], schema) ELSE frames[i]]
        /\ status' = IF caller = 0 THEN "done" ELSE "building"
  /\ UNCHANGED fields

\* Every field is done: the schema is kept, a placeholder for it is filled, and
\* the caller, if there is one, goes on with it.
LeaveMessage ==
  /\ frames # <<>> /\ ~AtField
  /\ LET schema == MessageSchema(Top.message, Top.properties)
         caller == Len(frames) - 1
     IN /\ built' = Set(built, Top.message, schema)
        /\ defs' = [m \in DOMAIN defs |-> IF m = Top.message THEN schema ELSE defs[m]]
        /\ frames' = [i \in 1..caller |->
                       IF i = caller THEN Advanced(frames[i], schema) ELSE frames[i]]
        /\ status' = IF caller = 0 THEN "done" ELSE "building"
  /\ UNCHANGED fields

Build ==
  ScalarField \/ UnsupportedField \/ RecursiveField \/ BuiltField \/ EnterMessage \/ LeaveMessage

\* The recursion runs to its end.
Spec == Init /\ [][Build]_vars /\ WF_vars(Build)

\* What GenerateMessageSchema returns: the root's schema and its $defs.
Document == [schema |-> built[Root], defs |-> defs]

----------------------------------------------------------------------------
\* The placeholder that a recursive $ref leaves in $defs lasts only while its message
\* is being built: afterwards the definition is the message's own finished schema,
\* whichever field, at whatever depth, referred to it first.
DefinitionsFilled ==
  \A m \in DOMAIN defs : m \notin building =>
     status = "failed" \/ (m \in DOMAIN built /\ defs[m] = built[m] /\ Constrained(defs[m]))

\* The recursion never enters a message it is inside of, so it is never deeper than
\* there are messages, however they refer to each other.
DepthBounded ==
  /\ \A i, k \in DOMAIN frames : i # k => frames[i].message # frames[k].message
  /\ Len(frames) <= Cardinality(Messages)
=============================================================================
