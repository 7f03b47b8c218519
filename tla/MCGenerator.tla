----------------------------- MODULE MCGenerator -----------------------------
(* Three files for TLC: a imports b, which imports c. *)
EXTENDS Generator

MCTypes == {"Req", "Part", "X", "XE", "E", "Y"}
MCEnums == {"E"}
MCFileOf == [t \in MCTypes |-> CASE t \in {"Req", "Part"} -> "a" [] t \in {"X", "XE", "E"} -> "b" [] OTHER -> "c"]

\* E is nested in X, and flattens to the name of XE.
MCPath ==
  [t \in MCTypes |-> CASE t = "E" -> <<<<"X">>, <<"E">>>> [] t = "XE" -> <<<<"X", "E">>>> [] OTHER -> <<<<t>>>>]
MCTypesOf == [f \in {"a", "b", "c"} |-> CASE f = "a" -> <<"Req", "Part">> [] f = "b" -> <<"X", "E", "XE">> [] OTHER -> <<"Y">>]

F(name, type, card) == [name |-> name, json |-> name, type |-> type, card |-> card, oneof |-> NoOneof]
In(oneof, field) == [field EXCEPT !.oneof = oneof]

FieldsOfReq ==
  {<<>>, <<F("F", Scalar, "implicit"), F("G", Scalar, "optional")>>, <<F("F", "E", "implicit"), F("G", "E", "optional")>>,
   <<F("F", "E", "map"), F("G", "Timestamp", "optional")>>, <<F("F", Unsupported, "implicit")>>,
   <<F("F", "Req", "optional"), F("G", "Timestamp", "implicit")>>,
   <<In("O", F("F", "E", "implicit")), In("O", F("G", "Part", "implicit")), F("H", "Part", "implicit")>>} \cup
  {<<F("F", type, card), F("G", "Part", more)>> :
     type \in {"X", "Part"}, card \in {"implicit", "optional", "list", "map"}, more \in {"optional", "list"}} \cup
  {<<In("O", F("F", "X", "implicit")), F("G", "Part", "optional")>>}

FieldsOfPart ==
  {<<F("F", Scalar, "optional")>>, <<F("F", "Timestamp", "list"), F("G", "E", "implicit")>>,
   <<In("P", F("F", Scalar, "implicit")), In("P", F("G", "Req", "implicit"))>>}

FieldsOfX ==
  {<<>>, <<F("H", Scalar, "optional")>>, <<F("H", "Y", "implicit"), F("I", "X", "list")>>,
   <<In("P", F("H", Scalar, "implicit"))>>}

MCFields ==
  {[t \in MCTypes |-> CASE t = "Req" -> req [] t = "X" -> x
                        [] t = "Part" -> part
                        [] OTHER -> <<>>] : req \in FieldsOfReq, x \in FieldsOfX, part \in FieldsOfPart}

Tool(input, output) ==
  [input |-> input, output |-> output, hidden |-> FALSE, streaming |-> FALSE, badTheme |-> FALSE,
   namespace |-> <<>>, option |-> <<>>, name |-> <<"t">>]
Hidden(tool) == [tool EXCEPT !.hidden = TRUE]

Methods(a, b) == [f \in {"a", "b", "c"} |-> CASE f = "a" -> a [] f = "b" -> b [] OTHER -> <<>>]

P(name, values) == [name |-> name, values |-> values]
Lang(lang) == P("lang", <<lang>>)

Project(fs, methods, ps) ==
  [fields |-> fs, files |-> <<"c", "b", "a">>, generate |-> {"a", "b", "c"}, methods |-> methods,
   unpackaged |-> {}, prompts |-> [t \in {} |-> t], resources |-> <<>>, proto2 |-> {}, params |-> ps]

Python == <<Lang("python")>>
OnReq == Tool("Req", "Req")
MethodsOfB == {<<>>, <<Tool("XE", "XE")>>, <<Hidden(Tool("XE", "XE"))>>, <<Tool("X", "Empty")>>}

Sample == [t \in MCTypes |-> IF t = "Req" THEN <<F("F", "X", "optional")>> ELSE <<>>]

\* Types and methods under Python; parameters, flaws and languages on one sample.
MCProjects ==
  {Project(fs, Methods(<<OnReq>>, b), Python) : fs \in MCFields, b \in MethodsOfB} \cup
  {Project(fs, Methods(<<OnReq>>, <<>>), <<Lang("python"), P("python_handler", hs)>> \o more) :
     fs \in {Sample}, hs \in {<<"dataclass">>, <<"protobuf">>, <<"dataclass", "protobuf">>, <<"rpc">>},
     more \in {<<>>, <<P("protobuf", <<>>)>>, <<P("python_runtime", <<"grpclib">>)>>,
               <<P("python_runtime", <<"google.protobuf">>), P("protobuf", <<>>)>>}} \cup
  {[Project(Sample, Methods(<<a>>, b), <<Lang(lang)>>) EXCEPT !.prompts = prompts, !.proto2 = old, !.generate = gen] :
     a \in {OnReq, Hidden(OnReq), [OnReq EXCEPT !.streaming = TRUE], [Hidden(OnReq) EXCEPT !.streaming = TRUE],
            [OnReq EXCEPT !.badTheme = TRUE], Tool("X", "Empty")},
     b \in {<<>>, <<Tool("XE", "X")>>}, prompts \in {[t \in {} |-> t], [t \in {"XE"} |-> t]}, old \in {{}, {"b"}},
     gen \in {{"a", "b", "c"}, {"a", "b"}, {"a"}},
     lang \in {"go", "python", "kotlin", "java", "typescript", "ruby"}} \cup
  {Project(Sample, Methods(<<OnReq>>, <<>>), <<Lang("java"), P(name, <<"x">>)>>) : name \in {"python_runtime", "python_handler"}} \cup
  {Project(Sample, Methods(<<OnReq>>, <<>>), <<P("protobuf", <<>>)>>)}

MCEnumValues == [e \in MCEnums |-> [text \in {"one", "two"} |-> [tag |-> "enum", number |-> IF text = "one" THEN 1 ELSE 2]]]

\* Names of every spelling up to the limit, and one beyond it; files without go_package.
Spelling == {"a", ".", "_", " "}
MCNameProjects ==
  {Project(Sample, Methods(<<[OnReq EXCEPT !.namespace = namespace, !.option = option]>>, <<>>), <<Lang("go")>>) :
     namespace \in {<<>>, <<"b">>, <<"b", ".", "_">>, <<" ", "b", " ">>, <<"_", " ", "b">>},
     option \in UNION {[1..n -> Spelling] : n \in 0..4}} \cup
  {[Project(Sample, Methods(<<OnReq>>, <<>>), <<Lang(lang)>>) EXCEPT !.unpackaged = {"c"}] : lang \in {"go", "java"}}
=============================================================================
