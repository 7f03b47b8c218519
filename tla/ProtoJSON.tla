------------------------------ MODULE ProtoJSON ------------------------------
(***************************************************************************)
(* JSON values and the three readers of them that a generated tool has:    *)
(* the JSON Schema validator (google/jsonschema-go), the ProtoJSON codec   *)
(* (google.golang.org/protobuf/encoding/protojson), both external and      *)
(* modelled from how mcpruntime calls them, and the examples that          *)
(* internal/schema invents.  Only TLC uses this module: JSON is a tree.    *)
(***************************************************************************)
EXTENDS SchemaTerms, FiniteSets

NULL == [j |-> "null"]
True == [j |-> "boolean"]
Num(n) == [j |-> "integer", n |-> n]
Real == [j |-> "number"]                          \* 1.25
Str(s) == [j |-> "string", v |-> s]
Obj(members) == [j |-> "object", m |-> members]
Arr(elements) == [j |-> "array", e |-> elements]

Wrappers == {"BoolValue", "StringValue", "BytesValue", "Int32Value", "Int64Value", "DoubleValue"}

\* Strings that have a lexical form: the others are plain text.
Form ==
  [signedMapKeyPattern |-> {"1", "-1"}, unsignedMapKeyPattern |-> {"1"}, durationPattern |-> {"3600s"},
   Timestamp |-> {"2026-03-09T10:11:12Z"}, Base64 |-> {"aGVsbG8="}, FieldMask |-> {"fieldName,otherField"},
   Special |-> {"NaN", "Infinity", "-Infinity"}]

StrIn(x, strings) == x.j = "string" /\ x.v \in strings

----------------------------------------------------------------------------
\* jsonschema.Resolved.Validate: every keyword that is present constrains the value.

HasType(x, type) == x.j = type \/ (type = "number" /\ x.j = "integer")

RECURSIVE Valid(_, _, _)
Valid(doc, s, x) ==
  LET has(k) == k \in DOMAIN s
      ok(t, y) == Valid(doc, t, y)
      names == IF x.j = "object" THEN DOMAIN x.m ELSE {}
      declared == IF has("properties") THEN DOMAIN s.properties ELSE {}
  IN /\ has("ref") => ok(IF s.ref = RefRoot THEN doc.schema ELSE doc.defs[s.ref], x)
     /\ has("type") => HasType(x, s.type)
     /\ has("types") => \E i \in DOMAIN s.types : HasType(x, s.types[i])
     /\ has("enum") => StrIn(x, s.enum)
     /\ has("pattern") /\ x.j = "string" => x.v \in Form[s.pattern]
     /\ has("minimum") /\ x.j = "integer" => x.n >= s.minimum
     /\ has("not") => ~ok(s.not, x)
     /\ has("allOf") => \A i \in DOMAIN s.allOf : ok(s.allOf[i], x)
     /\ has("anyOf") => \E i \in DOMAIN s.anyOf : ok(s.anyOf[i], x)
     /\ has("oneOf") => Cardinality({i \in DOMAIN s.oneOf : ok(s.oneOf[i], x)}) = 1
     /\ x.j = "array" =>
          /\ has("items") => \A i \in DOMAIN x.e : ok(s.items, x.e[i])
          /\ has("minItems") => Len(x.e) >= s.minItems
     /\ x.j = "object" =>
          /\ has("required") => s.required \subseteq names
          /\ \A n \in names \cap declared : ok(s.properties[n], x.m[n])
          /\ has("additionalProperties") =>
               \A n \in names \ declared : ok(s.additionalProperties, x.m[n])
          /\ has("propertyNames") => \A n \in names : ok(s.propertyNames, Str(n))

Accepts(doc, x) == Valid(doc, doc.schema, x)

\* The schemas inside a schema, itself included.
RECURSIVE Subschemas(_)
Subschemas(s) ==
  LET has(k) == k \in DOMAIN s
      nested ==
        {s[k] : k \in DOMAIN s \cap {"items", "additionalProperties", "propertyNames", "not"}} \cup
        (IF has("properties") THEN {s.properties[n] : n \in DOMAIN s.properties} ELSE {}) \cup
        UNION {{s[k][i] : i \in DOMAIN s[k]} : k \in DOMAIN s \cap {"allOf", "anyOf", "oneOf"}}
  IN {s} \cup UNION {Subschemas(t) : t \in nested}

DocumentSchemas(doc) == Subschemas(doc.schema) \cup UNION {Subschemas(doc.defs[m]) : m \in DOMAIN doc.defs}

----------------------------------------------------------------------------
\* protojson.Unmarshal without DiscardUnknown: can this value be a singular
\* value of the field's kind, a field's value, a message's value?

\* A null leaves a field unset, but for a google.protobuf.Value, repeated or not.
NullIsValue(field) == field.kind = "Value" /\ field.card # "map"

RECURSIVE DecodesAs(_, _, _)
DecodesMessage(fields, m, x) ==
  LET byName(n) == CHOOSE i \in DOMAIN fields[m] : fields[m][i].name = n
      set(n) == x.m[n].j # "null" \/ NullIsValue(fields[m][byName(n)])
      member(n) == fields[m][byName(n)].oneof # NoOneof
  IN /\ x.j = "object"
     /\ \A n \in DOMAIN x.m : \E i \in DOMAIN fields[m] : fields[m][i].name = n
     /\ \A n \in DOMAIN x.m : set(n) => DecodesAs(fields, fields[m][byName(n)], x.m[n])
     /\ \A n1, n2 \in {n \in DOMAIN x.m : set(n) /\ member(n)} :
          n1 # n2 => fields[m][byName(n1)].oneof # fields[m][byName(n2)].oneof

DecodesAs(fields, field, x) ==
  LET kind == field.kind
      one == [field EXCEPT !.card = "implicit"]
      number(strings) == x.j = "integer" \/ StrIn(x, strings)
  IN CASE field.card = "list" ->
            x.j = "array" /\ \A i \in DOMAIN x.e : DecodesAs(fields, one, x.e[i])
       [] field.card = "map" ->
            /\ x.j = "object"
            /\ \A k \in DOMAIN x.m :
                 /\ field.key # "string" => k \in [int32 |-> {"1", "-1"}, uint32 |-> {"1"}, bool |-> {"true"}][field.key]
                 /\ DecodesAs(fields, one, x.m[k])
       [] field.card \notin {"list", "map"} ->
            CASE kind \in {"bool", "BoolValue"} -> x.j = "boolean"
              [] kind \in {"string", "StringValue"} -> x.j = "string"
              [] kind \in {"bytes", "BytesValue"} -> StrIn(x, Form.Base64)
              [] kind \in {"int32", "int64", "Int32Value", "Int64Value"} -> number({"1", "-1"})
              [] kind \in {"uint32", "uint64"} -> number({"1"}) /\ (x.j = "integer" => x.n >= 0)
              [] kind \in {"double", "DoubleValue"} -> x.j = "number" \/ number({"1", "-1"} \cup Form.Special)
              [] kind = "enum" -> x.j = "integer" \/ StrIn(x, {v.name : v \in field.values})
              [] kind = "message" -> DecodesMessage(fields, field.msg, x)
              [] kind = "Empty" -> x.j = "object" /\ DOMAIN x.m = {}
              [] kind = "Timestamp" -> StrIn(x, Form.Timestamp)
              [] kind = "Duration" -> StrIn(x, Form.durationPattern)
              [] kind = "FieldMask" -> StrIn(x, Form.FieldMask)
              [] kind = "Struct" -> x.j = "object"
              [] kind = "ListValue" -> x.j = "array"
              [] kind \in {"Value", "anything"} -> TRUE
              [] kind = "Any" -> x.j = "object" /\ "type_url" \in DOMAIN x.m

----------------------------------------------------------------------------
\* Documents that protojson.Marshal writes with EmitDefaultValues: scalars, lists
\* and maps are always there, an unset message or optional field never is.  Depth
\* bounds the nesting of messages; complete asks for the messages whose singular
\* message fields are all set, whose enums hold no hidden value and which obey
\* the limits of their fields.

Values(field, complete) ==
  CASE field.kind \in {"bool", "BoolValue"} -> {True}
    [] field.kind \in {"string", "StringValue", "Int64Value"} \cup Int64Kinds -> {Str("1")}
    [] field.kind \in {"bytes", "BytesValue"} -> {Str("aGVsbG8=")}
    [] field.kind \in Int32Kinds \cup {"Int32Value"} ->
         {Num(n) : n \in IF complete /\ field.limits # Unconstrained THEN {1} ELSE {0, 1}}
    [] field.kind \in {"double", "DoubleValue"} -> {Real, Str("NaN")}
    [] field.kind = "enum" -> {Str(v.name) : v \in {w \in field.values : complete => ~w.hidden}}
    [] field.kind = "Empty" -> {Obj(Unconstrained)}
    [] field.kind = "Timestamp" -> {Str("2026-03-09T10:11:12Z")}
    [] field.kind = "Duration" -> {Str("3600s")}
    [] field.kind = "FieldMask" -> {Str("fieldName,otherField")}
    [] field.kind = "Struct" -> {Obj(Unconstrained), Obj([k |-> NULL])}
    [] field.kind = "ListValue" -> {Arr(<<>>), Arr(<<NULL>>)}
    [] field.kind = "Value" -> {NULL, Real}
    [] field.kind = "Any" -> {Obj([type_url |-> Str("1")])}

RECURSIVE Written(_, _, _, _)
WrittenField(fields, field, depth, complete) ==
  LET one == IF field.kind = "message"
               THEN Written(fields, field.msg, depth - 1, complete)
               ELSE Values(field, complete)
  IN CASE field.card = "list" ->
            {Arr(<<v>>) : v \in one} \cup
            (IF complete /\ "minItems" \in DOMAIN field.limits THEN {} ELSE {Arr(<<>>)})
       [] field.card = "map" -> {Obj((IF field.key = "bool" THEN "true" ELSE "1") :> v) : v \in one} \cup {Obj(Unconstrained)}
       [] OTHER -> one

Written(fields, m, depth, complete) ==
  LET all == 1..Len(fields[m])
      mayMiss(f) == \/ f.card = "optional" \/ f.oneof # NoOneof
                    \/ ~complete /\ f.card = "implicit" /\ f.kind \in WellKnown \cup {"message"}
      present == {s \in SUBSET all :
                    /\ \A i \in all \ s : mayMiss(fields[m][i])
                    /\ \A i, k \in s : i # k /\ fields[m][i].oneof # NoOneof
                                         => fields[m][i].oneof # fields[m][k].oneof}
      write(s) == {w \in [s -> UNION {WrittenField(fields, fields[m][i], depth, complete) : i \in s}] :
                     \A i \in s : w[i] \in WrittenField(fields, fields[m][i], depth, complete)}
      named(s, w) == [n \in {fields[m][i].name : i \in s} |->
                        w[CHOOSE i \in s : fields[m][i].name = n]]
  IN IF depth = 0 THEN {} ELSE UNION {{Obj(named(s, w)) : w \in write(s)} : s \in present}

----------------------------------------------------------------------------
\* The examples that internal/schema invents where the author gave none.

autoLeafExamples ==
  [bool |-> <<True>>, string |-> <<Str("example")>>, bytes |-> <<Str("aGVsbG8=")>>,
   int32 |-> <<Num(-1)>>, uint32 |-> <<Num(1)>>, int64 |-> <<Str("-1")>>, uint64 |-> <<Str("1")>>,
   double |-> <<Real, Str("NaN")>>, Empty |-> <<Obj(Unconstrained)>>,
   Timestamp |-> <<Str("2026-03-09T10:11:12Z")>>, Duration |-> <<Str("3600s")>>,
   FieldMask |-> <<Str("fieldName,otherField")>>, Struct |-> <<Obj([kind |-> Str("demo")])>>,
   ListValue |-> <<Arr(<<Str("item"), Num(2), True>>)>>, Value |-> <<Obj([kind |-> Str("demo")])>>,
   Any |-> <<Obj([type_url |-> Str("url")])>>, BoolValue |-> <<True>>, StringValue |-> <<Str("example")>>,
   BytesValue |-> <<Str("aGVsbG8=")>>, Int32Value |-> <<Num(1)>>, Int64Value |-> <<Str("1")>>,
   DoubleValue |-> <<Real, Str("NaN")>>]

\* The first value that is not number 0, hidden or not, or else the zero value.
enumExample(values) ==
  LET others == {v \in values : v.number # 0}
  IN CHOOSE v \in IF others = {} THEN values ELSE others : \A w \in others : v.number <= w.number

autoMapKeyExample(kind) == [string |-> "key", bool |-> "true", int32 |-> "1", uint32 |-> "1"][kind]

\* seen counts the calls in progress for each message: an inner call keeps the
\* required fields only, the sixth gives up.  <<>> stands for no example.
RECURSIVE autoMessageExample(_, _, _)
autoSingularExamples(fields, field, seen) ==
  CASE field.kind = "message" -> autoMessageExample(fields, field.msg, seen)
    [] field.kind = "enum" -> <<Str(enumExample(field.values).name)>>
    [] OTHER -> autoLeafExamples[field.kind]

autoMapExample(fields, field, seen) ==
  LET values == autoSingularExamples(fields, field, seen)
  IN IF values = <<>> THEN <<>> ELSE <<Obj(autoMapKeyExample(field.key) :> values[1])>>

autoFieldExampleValue(fields, field, seen) ==
  LET values == autoSingularExamples(fields, field, seen)
  IN CASE field.card = "map" -> autoMapExample(fields, field, seen)
       [] field.card = "list" /\ values # <<>> -> <<Arr(<<values[1]>>)>>
       [] OTHER -> values

\* Mutant: an example gives a value to every member of a oneof.
autoMessageExampleOfAll(fields, m, seen) ==
  LET inner == [seen EXCEPT ![m] = @ + 1]
      kept(i) == inner[m] > 1 => isRequiredField(fields[m][i])
      value(i) == autoFieldExampleValue(fields, fields[m][i], inner)
      given == {i \in 1..Len(fields[m]) : kept(i) /\ value(i) # <<>>}
      example == [n \in {fields[m][i].name : i \in given} |->
                    value(CHOOSE i \in given : fields[m][i].name = n)[1]]
  IN IF inner[m] > 5 \/ given = {} THEN <<>> ELSE <<Obj(example)>>

autoMessageExample(fields, m, seen) ==
  LET inner == [seen EXCEPT ![m] = @ + 1]
      first(i) == \A k \in 1..(i - 1) :
                    fields[m][k].oneof = NoOneof \/ fields[m][k].oneof # fields[m][i].oneof
      kept(i) == first(i) /\ (inner[m] > 1 => isRequiredField(fields[m][i]))
      value(i) == autoFieldExampleValue(fields, fields[m][i], inner)
      given == {i \in 1..Len(fields[m]) : kept(i) /\ value(i) # <<>>}
      example == [n \in {fields[m][i].name : i \in given} |->
                    value(CHOOSE i \in given : fields[m][i].name = n)[1]]
  IN IF inner[m] > 5 \/ given = {} THEN <<>> ELSE <<Obj(example)>>

\* The examples of a property's schema.
autoFieldExamples(fields, field) ==
  LET unseen == [m \in DOMAIN fields |-> 0]
      values == autoSingularExamples(fields, field, unseen)
  IN CASE field.card = "map" -> autoMapExample(fields, field, unseen)
       [] field.card = "list" -> [i \in DOMAIN values |-> Arr(<<values[i]>>)]
       [] OTHER -> values
=============================================================================
