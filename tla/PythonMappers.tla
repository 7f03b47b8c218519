---------------------------- MODULE PythonMappers ----------------------------
(***************************************************************************)
(* The code a Python module converts its messages with: a _from_pb_ and a  *)
(* _to_pb_ function for every message of its type graph.                   *)
(*                                                                         *)
(* A protobuf message is [tag, class, value]: value[n] is the sequence of  *)
(* the values of field n, empty when n is not set.  A dataclass object is  *)
(* [tag, class, attrs]: an attribute per field, and one per oneof for its  *)
(* members.  An attribute holds values, a variant of a oneof, or UNSET,    *)
(* which every generated module defines for itself.                        *)
(***************************************************************************)
EXTENDS TypeGraph

CONSTANT Visible   \* Visible[e]: the numbers of enum e that are not hidden

Unset(module) == [tag |-> "unset", module |-> module]

IsMessage(type) == type \in WellKnown \cup (Types \ Enums)

IsSchemaRequired(field) == field.card = "implicit" /\ field.oneof = NoOneof
HasPresence(field) ==
  \/ field.card = "optional"
  \/ field.oneof # NoOneof
  \/ field.card = "implicit" /\ IsMessage(field.type)

\* What the mappers would be if only messages could be absent.
pythonFieldUsesUnsetForMessages(field) ==
  field.oneof = NoOneof /\ field.card = "optional" /\ IsMessage(field.type)

pythonFieldUsesUnset(field) ==
  /\ field.oneof = NoOneof
  /\ field.card \notin {"list", "map"}
  /\ ~IsSchemaRequired(field)
  /\ HasPresence(field)

Members(t, oneof) == {i \in DOMAIN fields[t] : fields[t][i].oneof = oneof}
Alone(t) == Members(t, NoOneof)

Held(items) == IF Raised \in Range(items) THEN Raised ELSE [tag |-> "value", items |-> items]

----------------------------------------------------------------------------
\* The object for a message, made with the names of module own[t] for class t: its
\* UNSET, and the variant classes it defines, which are those of its own types.
RECURSIVE Object(_, _)

FromValue(type, v, own) ==
  CASE type \in Enums -> IF v.number \in Visible[type] THEN v ELSE Raised
    [] type \in Types \ Enums -> Object(v, own)
    [] OTHER -> v

\* Reading a singular field that is not set gives its type's default.
Default(type) ==
  CASE type \in Enums -> [tag |-> "enum", number |-> 0]
    [] type \in Types \ Enums ->
         [tag |-> "message", class |-> type,
          value |-> [n \in {fields[type][i].name : i \in DOMAIN fields[type]} |-> <<>>]]
    [] OTHER -> [tag |-> "scalar"]

FieldAttr(t, field, items, own) ==
  LET read == IF items = <<>> /\ field.card \in {"implicit", "optional"} THEN <<Default(field.type)>> ELSE items
  IN IF pythonFieldUsesUnset(field) /\ items = <<>>
       THEN Unset(own[t])
       ELSE Held([i \in DOMAIN read |-> FromValue(field.type, read[i], own)])

OneofAttr(t, oneof, value, own) ==
  LET present == {i \in Members(t, oneof) : value[fields[t][i].name] # <<>>}
      field == fields[t][CHOOSE i \in present : TRUE]
      held == Held(<<FromValue(field.type, value[field.name][1], own)>>)
  IN CASE present = {} -> Unset(own[t])
       [] present # {} /\ own[t] # FileOf[t] -> Raised
       [] OTHER -> IF held = Raised THEN Raised ELSE [tag |-> "variant", field |-> field.name, items |-> held.items]

Object(message, own) ==
  LET t == message.class
      alone == {fields[t][i].name : i \in Alone(t)}
      named(n) == fields[t][CHOOSE i \in Alone(t) : fields[t][i].name = n]
      attrs == [n \in alone \cup Oneofs(t) |->
                  IF n \in alone THEN FieldAttr(t, named(n), message.value[n], own)
                                 ELSE OneofAttr(t, n, message.value, own)]
  IN IF \E n \in DOMAIN attrs : attrs[n] = Raised
       THEN Raised
       ELSE [tag |-> "object", class |-> t, attrs |-> attrs]

\* The mapper of module f uses the names of f for every class.
from_pb(f, message) == Object(message, [t \in Types |-> f])

\* An application that builds the same object takes every class from its own module
\* and leaves the attributes it does not set at their defaults.
Built(message) == Object(message, FileOf)

----------------------------------------------------------------------------
RECURSIVE to_pb(_, _)

ToValues(f, type, items) ==
  [i \in DOMAIN items |-> IF type \in Types \ Enums THEN to_pb(f, items[i]) ELSE items[i]]

\* Anything but a value of the field's type raises, another module's UNSET included.
FromField(f, field, attr) ==
  CASE attr.tag = "value" -> ToValues(f, field.type, attr.items)
    [] attr.tag = "unset" -> IF pythonFieldUsesUnset(field) /\ attr.module = f THEN <<>> ELSE <<Raised>>

\* The variants are tested with isinstance against classes that only their own module has.
FromOneof(f, t, field, attr) ==
  CASE attr.tag = "unset" /\ attr.module = f -> <<>>
    [] attr.tag = "variant" /\ FileOf[t] = f ->
         IF attr.field = field.name THEN ToValues(f, field.type, attr.items) ELSE <<>>
    [] OTHER -> <<Raised>>

to_pb(f, object) ==
  LET t == object.class
      names == {fields[t][i].name : i \in DOMAIN fields[t]}
      named(n) == fields[t][CHOOSE i \in DOMAIN fields[t] : fields[t][i].name = n]
      value == [n \in names |->
                  IF named(n).oneof = NoOneof
                    THEN FromField(f, named(n), object.attrs[n])
                    ELSE FromOneof(f, t, named(n), object.attrs[named(n).oneof])]
  IN IF \E n \in names : Raised \in Range(value[n])
       THEN Raised
       ELSE [tag |-> "message", class |-> t, value |-> value]

----------------------------------------------------------------------------
\* The messages of type t that the generated schema admits, down to a depth: what is
\* schema-required is there, enums are visible, a oneof has one member at most.
RECURSIVE Messages(_, _)

ValuesOf(type, depth) ==
  CASE type \in Enums -> {[tag |-> "enum", number |-> n] : n \in Visible[type]}
    [] type \in Types \ Enums -> Messages(type, depth)
    [] OTHER -> {[tag |-> "scalar"]}

Messages(t, depth) ==
  LET names == {fields[t][i].name : i \in DOMAIN fields[t]}
      named(n) == fields[t][CHOOSE i \in DOMAIN fields[t] : fields[t][i].name = n]
      values(n) == {<<v>> : v \in ValuesOf(named(n).type, depth - 1)} \cup
                   (IF IsSchemaRequired(named(n)) THEN {} ELSE {<<>>})
      legal(w) == /\ \A n \in names : w[n] \in values(n)
                  /\ \A o \in Oneofs(t) : Cardinality({n \in names : named(n).oneof = o /\ w[n] # <<>>}) <= 1
  IN IF depth = 0
       THEN {}
       ELSE {[tag |-> "message", class |-> t, value |-> w] :
               w \in {x \in [names -> UNION {values(n) : n \in names}] : legal(x)}}

\* A message and the messages inside it.
RECURSIVE Parts(_)
Parts(message) ==
  {message} \cup
  UNION {UNION {Parts(v) : v \in {x \in Range(message.value[n]) : x.tag = "message"}} : n \in DOMAIN message.value}
=============================================================================
