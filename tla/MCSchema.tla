------------------------------ MODULE MCSchema -------------------------------
(* Small instances of ToolCall for TLC: two messages, R and A. *)
EXTENDS ToolCall

R == "R"
A == "A"
MCMessages == {R, A}

NoMessage == ""
Plain0 == [oneof |-> NoOneof, msg |-> NoMessage, key |-> "string",
           values |-> {}, limits |-> Unconstrained, default |-> <<>>]
F(name, kind, card) == Plain0 @@ [name |-> name, kind |-> kind, card |-> card]
M(name, msg, card) == [F(name, "message", card) EXCEPT !.msg = msg]
Key(field, kind) == [field EXCEPT !.key = kind]
In(field, oneof) == [field EXCEPT !.oneof = oneof]

Value(name, number, hidden) == [name |-> name, number |-> number, hidden |-> hidden]
Color == {Value("ZERO", 0, FALSE), Value("ONE", 1, FALSE), Value("TWO", 2, FALSE)}
Mode == {Value("ZERO", 0, TRUE), Value("ONE", 1, FALSE)}
Enum(field, values) == [field EXCEPT !.values = values]

Kinds == {"bool", "string", "bytes", "int32", "uint32", "int64", "uint64", "double"} \cup WellKnown

\* The first field of R: every kind alone, and what each card does to some kinds.
First ==
  {F("f", kind, "implicit") : kind \in Kinds \cup {"group"}} \cup
  {F("f", kind, "optional") : kind \in {"string", "double", "Value", "Empty", "StringValue", "bytes"}} \cup
  {F("f", kind, "list") : kind \in {"string", "BoolValue", "Value", "int32"}} \cup
  {Key(F("f", kind, "map"), key) :
     kind \in {"double", "Value"}, key \in {"string", "bool", "int32", "uint32"}} \cup
  {Enum(F("f", "enum", card), values) : card \in {"implicit", "optional", "list", "map"}, values \in {Color, Mode}} \cup
  {M("f", m, card) : m \in MCMessages, card \in {"implicit", "optional", "list", "map"}} \cup
  {[F("f", "int32", card) EXCEPT !.limits = [minimum |-> 1]] : card \in {"implicit", "optional"}} \cup
  {[F("f", "string", "list") EXCEPT !.limits = [minItems |-> 1]],
   [F("f", "string", "list") EXCEPT !.default = <<Arr(<<Str("1")>>)>>],
   [F("f", "int32", "optional") EXCEPT !.default = <<Num(1)>>]} \cup
  {In(F("f", kind, "implicit"), "choice") : kind \in {"string", "StringValue", "Value"}} \cup
  {In(M("f", A, "implicit"), "choice")}

\* The other fields of R and the fields of A.
Rest ==
  {<<>>, <<F("g", "string", "implicit")>>, <<In(F("g", "bool", "implicit"), "choice")>>,
   <<M("g", A, "implicit")>>, <<M("g", A, "list")>>}

FieldsOfA ==
  {<<>>, <<F("s", "string", "implicit")>>, <<F("s", "bool", "implicit"), M("t", R, "optional")>>,
   <<F("s", "string", "implicit"), M("t", A, "list")>>, <<M("t", A, "implicit")>>,
   <<In(F("s", "bool", "implicit"), "either"), In(M("t", A, "implicit"), "either")>>}

Choice ==
  <<F("r", "string", "implicit"), In(F("s", "bool", "implicit"), "either"),
    In(F("t", "string", "implicit"), "either")>>

MCDescriptors ==
  {[m \in MCMessages |-> IF m = R THEN <<f>> \o rest ELSE a] :
     f \in First, rest \in Rest, a \in FieldsOfA} \cup
  {[m \in MCMessages |-> IF m = R THEN <<F("f", "string", "implicit"), M("g", A, card)>> ELSE Choice] :
     card \in {"implicit", "optional", "list", "map"}}

\* Arguments: values of the right kind, a null, a value of another kind, a list
\* or a map that holds a null, and a key that is no integer.
RECURSIVE ArgumentsFor(_, _, _)
ArgumentOf(fs, field, depth) ==
  LET one == IF field.kind = "message" THEN ArgumentsFor(fs, field.msg, depth - 1) ELSE Values(field, FALSE)
      some == one \cup {NULL, IF field.kind = "string" THEN True ELSE Str("text")}
  IN CASE field.card = "list" -> {NULL, Arr(<<>>)} \cup {Arr(<<v>>) : v \in some}
       [] field.card = "map" -> {NULL} \cup {Obj(k :> v) : k \in {"1", "true"}, v \in some}
       [] OTHER -> some

ArgumentsFor(fs, m, depth) ==
  LET all == DOMAIN fs[m]
      objects(s) == {w \in [s -> UNION {ArgumentOf(fs, fs[m][i], depth) : i \in s}] :
                       \A i \in s : w[i] \in ArgumentOf(fs, fs[m][i], depth)}
      named(s, w) == [n \in {fs[m][i].name : i \in s} |-> w[CHOOSE i \in s : fs[m][i].name = n]]
  IN IF depth = 0 THEN {}
     ELSE {Obj("other" :> NULL)} \cup UNION {{Obj(named(s, w)) : w \in objects(s)} : s \in SUBSET all}

MCArguments(fs, m) == ArgumentsFor(fs, m, 2)
=============================================================================
