--------------------------- MODULE MCGeneratedCode ---------------------------
(* What becomes of the files of MCGenerator, with prompts and resources, for TLC. *)
EXTENDS GeneratedCode, MCGenerator

MCVisible == [e \in MCEnums |-> {1, 2}]

J(json, field) == [field EXCEPT !.json = json]
PromptFields ==
  {<<F("F", Scalar, "implicit"), J("h", F("G", "E", "implicit"))>>,
   <<J("f", F("F", Scalar, "optional")), F("G", "E", "optional")>>,
   <<J("G", F("F", Scalar, "implicit")), J("F", F("G", Scalar, "implicit"))>>,
   <<F("F", Scalar, "list")>>, <<F("F", Scalar, "map")>>, <<In("O", F("F", Scalar, "implicit"))>>, <<F("F", "Y", "implicit")>>}

\* Prompts of three messages of two files; E is nested, and an enum.
MCPromptProjects ==
  {[Project([t \in MCTypes |-> CASE t = "Part" -> part [] t = "X" -> J1 [] OTHER -> <<>>], Methods(<<>>, <<>>), <<Lang(lang)>>)
      EXCEPT !.prompts = names] :
     part \in PromptFields, J1 \in {<<F("F", "E", "implicit")>>},
     names \in {[t \in {"Part", "X", "Req"} |-> IF t = "Req" THEN "p" ELSE n[t]] : n \in [{"Part", "X"} -> {"p", "q"}]},
     lang \in {"go", "kotlin", "typescript", "java"}}

Res(message, uri, template, instances, unlisted) ==
  [message |-> message, uri |-> uri, template |-> template, instances |-> instances, unlisted |-> unlisted]
Static(message, uri) == Res(message, uri, <<>>, <<>>, {<<>>})

A == <<"a">>
AB == <<"a", "-", "b">>
AsB == <<"a", "/", "b">>
One == {<<A>>, <<AB>>, <<AsB>>}
Two == {<<A, A>>, <<AB, A>>, <<A, AsB>>}

\* Of Req and Part in file a, and of X in file b.
MCOfReq ==
  {Static("Req", <<"d", "/", "a">>), Res("Req", <<>>, <<"d", "/", "{key}">>, <<>>, One),
   Res("Req", <<>>, <<"d", "/", "{id}", "/", "{key}">>, <<<<A, A>>, <<A, AsB>>>>, Two),
   Res("Req", <<>>, <<"d", "/", "{id}", "/", "a">>, <<>>, One)}
MCOfPart == {Static("Part", <<"d", "/", "a">>), Res("Part", <<>>, <<"{id}">>, <<<<A>>>>, One)}
MCOfX ==
  {Static("X", <<"d">>), Res("X", <<>>, <<"d", "/", "{id}">>, <<<<A>>, <<AB>>>>, One),
   Res("X", <<>>, <<"d", "/", "{id}", "-", "{key}">>, <<<<A, A>>>>, Two)}
MCUnfit ==
  {Static("Part", <<>>), [Static("Part", <<"d">>) EXCEPT !.template = <<"{id}">>, !.unlisted = {}],
   Res("Part", <<>>, <<"d">>, <<>>, {}), Res("Part", <<>>, <<"{1}", "{id}">>, <<>>, {})}

MCResourceProjects ==
  {[Project(Sample, Methods(<<>>, <<>>), <<Lang(lang)>>) EXCEPT !.resources = rs] :
     rs \in {<<r, p, x>> : r \in MCOfReq, p \in MCOfPart, x \in MCOfX} \cup {<<r>> : r \in MCUnfit}, lang \in {"go"}}
  \cup {[Project(Sample, Methods(<<>>, <<>>), <<Lang(lang)>>) EXCEPT !.resources = <<Static("X", <<"d">>)>>] :
     lang \in {"go", "python", "kotlin", "java", "typescript"}}

MCEveryProject == MCProjects \cup MCNameProjects \cup MCPromptProjects \cup MCResourceProjects
=============================================================================
