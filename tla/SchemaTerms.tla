----------------------------- MODULE SchemaTerms -----------------------------
(***************************************************************************)
(* The JSON Schemas that internal/schema writes, and the parts of it that  *)
(* compute one schema from one field.                                      *)
(*                                                                         *)
(* A schema is a record of the keywords that are present, as Schema is a   *)
(* Go struct whose zero fields are left out: the schema that accepts       *)
(* everything is the empty record.  Titles, descriptions and examples are  *)
(* annotations and left out here (the examples are in ProtoJSON).          *)
(*                                                                         *)
(* A field is a record:                                                    *)
(*   name, kind (a scalar kind, the short name of a well-known type, or    *)
(*   "message" with msg the message), card ("implicit", "optional",        *)
(*   "list" or "map" with key the kind of its keys), oneof (the name of    *)
(*   its oneof or NoOneof), values (of its enum), limits (a record of the  *)
(*   schema keywords set in FieldOptions), default and examples (at most   *)
(*   one default, as sequences of JSON values).                            *)
(***************************************************************************)
EXTENDS Integers, Sequences, TLC

NoOneof == ""

Int32Kinds == {"int32", "uint32"}
Int64Kinds == {"int64", "uint64"}

Unconstrained == [k \in {} |-> k]
Nothing == [not |-> Unconstrained]
Typed(type) == [type |-> type]
Null == Typed("null")
RefTo(name) == [ref |-> name]
RefRoot == "#"

\* Keywords that isUnconstrainedSchema looks at: it passes over required, limits and defaults.
Structural ==
  {"ref", "type", "types", "enum", "items", "properties", "additionalProperties",
   "propertyNames", "allOf", "anyOf", "oneOf", "not", "format", "pattern", "contentEncoding"}

\* The map f after f[k] = v.
Set(f, k, v) == [x \in {k} \cup DOMAIN f |-> IF x = k THEN v ELSE f[x]]

Constrained(schema) == DOMAIN schema \cap Structural # {}

Without(schema, keywords) == [k \in DOMAIN schema \ keywords |-> schema[k]]

OrNull(schema) == [anyOf |-> <<schema, Null>>]

\* The null branch is added to a type or an anyOf, around everything else.
nullableSchema(schema) ==
  CASE ~Constrained(schema) -> schema
    [] "enum" \in DOMAIN schema -> OrNull(schema)
    [] "type" \in DOMAIN schema /\ "enum" \notin DOMAIN schema ->
         Without(schema, {"type"}) @@
         [types |-> IF schema.type = "null" THEN <<"null">> ELSE <<schema.type, "null">>]
    [] "types" \in DOMAIN schema /\ DOMAIN schema \cap {"enum", "type"} = {} ->
         IF \E i \in DOMAIN schema.types : schema.types[i] = "null"
           THEN schema
           ELSE [schema EXCEPT !.types = Append(@, "null")]
    [] "anyOf" \in DOMAIN schema /\ DOMAIN schema \cap {"enum", "type", "types"} = {} ->
         IF \E i \in DOMAIN schema.anyOf : schema.anyOf[i] = Null
           THEN schema
           ELSE [schema EXCEPT !.anyOf = Append(@, Null)]
    [] OTHER -> OrNull(schema)

protoJSONFloatSchema(nullable) ==
  [anyOf |-> <<Typed("number"), Typed("string") @@ [enum |-> {"NaN", "Infinity", "-Infinity"}]>>
             \o (IF nullable THEN <<Null>> ELSE <<>>)]

\* The keywords of a field's options that apply to its kind.
Only(limits, keywords) == [k \in DOMAIN limits \cap keywords |-> limits[k]]
applyStringConstraints(schema, limits) ==
  schema @@ Only(limits, {"pattern", "format", "minLength", "maxLength"})
applyNumberConstraints(schema, limits) ==
  schema @@ Only(limits, {"minimum", "maximum", "exclusiveMinimum", "exclusiveMaximum", "multipleOf"})
applyArrayConstraints(schema, limits) ==
  schema @@ Only(limits, {"minItems", "maxItems", "uniqueItems"})

Signed == "signedMapKeyPattern"
Unsigned == "unsignedMapKeyPattern"
Duration == "durationPattern"

wellKnownTypeSchema ==
  [Empty |-> Typed("object") @@ [additionalProperties |-> Nothing],
   Timestamp |-> Typed("string") @@ [format |-> "date-time"],
   Duration |-> Typed("string") @@ [pattern |-> Duration],
   FieldMask |-> Typed("string"),
   Struct |-> Typed("object") @@ [additionalProperties |-> Unconstrained],
   ListValue |-> Typed("array") @@ [items |-> Unconstrained],
   Value |-> Unconstrained,
   Any |-> Typed("object") @@
           [properties |-> [type_url |-> Typed("string")], required |-> {"type_url"},
            additionalProperties |-> Unconstrained],
   BoolValue |-> nullableSchema(Typed("boolean")),
   StringValue |-> nullableSchema(Typed("string")),
   BytesValue |-> nullableSchema(Typed("string") @@ [contentEncoding |-> "base64"]),
   Int32Value |-> nullableSchema(Typed("integer")),
   Int64Value |-> nullableSchema(Typed("string")),
   DoubleValue |-> protoJSONFloatSchema(TRUE)]

WellKnown == DOMAIN wellKnownTypeSchema

\* generateSingularSchema of every kind but a user-defined message.
Leaf(field, limits) ==
  CASE field.kind = "bool" -> Typed("boolean")
    [] field.kind = "string" -> applyStringConstraints(Typed("string"), limits)
    [] field.kind = "bytes" -> Typed("string") @@ [contentEncoding |-> "base64"]
    [] field.kind \in Int32Kinds -> applyNumberConstraints(Typed("integer"), limits)
    [] field.kind \in Int64Kinds -> Typed("string")
    [] field.kind = "double" -> protoJSONFloatSchema(FALSE)
    [] field.kind = "enum" ->
         Typed("string") @@ [enum |-> {v.name : v \in {w \in field.values : ~w.hidden}}]
    [] field.kind \in WellKnown -> wellKnownTypeSchema[field.kind]

\* Groups and the other google.protobuf messages are refused.
Supported(field) ==
  field.kind \in {"bool", "string", "bytes", "double", "enum", "message"}
                 \cup Int32Kinds \cup Int64Kinds \cup WellKnown

generateMapKeySchema(kind) ==
  CASE kind = "string" -> Typed("string")
    [] kind = "bool" -> Typed("string") @@ [enum |-> {"true", "false"}]
    [] kind \in {"int32", "int64"} -> Typed("string") @@ [pattern |-> Signed]
    [] kind \in {"uint32", "uint64"} -> Typed("string") @@ [pattern |-> Unsigned]

\* A map's values are generated with empty options.
LimitsOf(field) == IF field.card = "map" THEN Unconstrained ELSE field.limits

\* Mutant: every singular field is required.
isRequiredFieldAlways(field) == field.oneof = NoOneof /\ field.card \in {"implicit", "optional"}

isRequiredField(field) == field.oneof = NoOneof /\ field.card = "implicit"

\* What generateFieldSchema and generateMapFieldSchema put around the schema of
\* one value: the default lands on the value, the array limits on the array.
Wrapped(field, schema) ==
  LET withDefault == IF field.default = <<>> THEN schema ELSE schema @@ [default |-> field.default[1]]
  IN CASE field.card = "map" ->
            Typed("object") @@ [additionalProperties |-> schema,
                                propertyNames |-> generateMapKeySchema(field.key)]
       [] field.card = "list" ->
            applyArrayConstraints(Typed("array") @@ [items |-> withDefault], field.limits)
       [] OTHER -> withDefault

Property(field, schema) ==
  IF isRequiredField(field) THEN Wrapped(field, schema) ELSE nullableSchema(Wrapped(field, schema))

\* A member of a oneof is selected when it is present and not null.
selectedOneofFieldSchema(name) ==
  [required |-> {name},
   not |-> [required |-> {name}, properties |-> [n \in {name} |-> Null]]]

\* Mutant: a branch selects its member and says nothing of the others.
oneofConstraintAny(members, required) ==
  LET selected == [i \in DOMAIN members |-> selectedOneofFieldSchema(members[i])]
  IN [anyOf |-> (IF required THEN <<>> ELSE <<[not |-> [anyOf |-> selected]]>>) \o selected]

\* One branch for each member alone, and one for no member unless the oneof is required.
oneofConstraint(members, required) ==
  LET selected == [i \in DOMAIN members |-> selectedOneofFieldSchema(members[i])]
      others(i) == [k \in 1..(Len(members) - 1) |-> selected[IF k < i THEN k ELSE k + 1]]
      alone(i) == [allOf |-> IF Len(members) = 1
                               THEN <<selected[i]>>
                               ELSE <<selected[i], [not |-> [anyOf |-> others(i)]]>>]
      none == [not |-> [anyOf |-> selected]]
  IN [oneOf |-> (IF required THEN <<>> ELSE <<none>>) \o [i \in DOMAIN members |-> alone(i)]]
=============================================================================
