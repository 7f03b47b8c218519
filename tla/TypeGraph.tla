------------------------------ MODULE TypeGraph ------------------------------
(***************************************************************************)
(* The types a generated file talks about and the names they have in it.   *)
(* TypeScript looks at the tools' own messages only; the other collectors  *)
(* walk over every message and enum below them (TypeCollector).            *)
(*                                                                         *)
(* A field is [name, json, type, card, oneof]: json is its JSON name, card  *)
(* is "implicit", "optional", "list" or "map" (of values of that type),    *)
(* oneof the name of its oneof or NoOneof.  Names are sequences of letters  *)
(* in exported form (separators dropped, words capitalised), so A_B and AB  *)
(* are the same here, as they are after pythonExportedIdentifier.           *)
(***************************************************************************)
EXTENDS Integers, Sequences, FiniteSets, SequencesExt, Sublists

CONSTANTS
  Types,        \* messages and enums of the project
  Enums,        \* those that are enums
  FileOf,       \* FileOf[t]: the file that declares t
  Path,         \* Path[t]: its name after the package, one part per level of nesting
  TypesOf,      \* TypesOf[f]: the types file f declares, in the order of collectCurrentFileTypes
  WellKnown,    \* supported google.protobuf messages
  WellKnownFile \* the file they are in

Scalar == "scalar"
Unsupported == "unsupported"   \* any other google.protobuf message

ASSUME TypesAssumption ==
  /\ IsFiniteSet(Types) /\ Enums \subseteq Types
  /\ Types \cap WellKnown = {} /\ (Types \cup WellKnown) \cap {Scalar, Unsupported} = {}
  /\ \A f \in DOMAIN TypesOf : TypesOf[f] \in Seq(Types)

NoOneof == ""

Raised == [tag |-> "raised"]   \* a conversion that fails

VARIABLE fields   \* fields[m]: the fields of message m, in order

Oneofs(t) == {fields[t][i].oneof : i \in DOMAIN fields[t]} \ {NoOneof}

pythonPublicTypeName(t) == FlattenSeq(Path[t])
pythonOneofWrapperName(t, oneof) == pythonPublicTypeName(t) \o <<oneof, "Variant">>
pythonOneofVariantWrapperName(t, field) == pythonPublicTypeName(t) \o <<field.oneof, field.name, "Variant">>
typescriptPublicTypeName(t) == Path[t]

\* The classes that stand for the oneofs of a message.
Wrappers(t) ==
  {[name |-> pythonOneofWrapperName(t, o), of |-> <<t, o>>] : o \in Oneofs(t)} \cup
  {[name |-> pythonOneofVariantWrapperName(t, fields[t][i]), of |-> <<t, fields[t][i].name>>] :
     i \in {j \in DOMAIN fields[t] : fields[t][j].oneof # NoOneof}}

TypeName(t) == [name |-> pythonPublicTypeName(t), of |-> <<t>>]

----------------------------------------------------------------------------
\* What a collector has found: types it has seen, files it will import, types in the
\* order they were finished, names it has given out by the file that owns them.
NoGraph == [seen |-> {}, imports |-> <<>>, types |-> <<>>, names |-> {}, failed |-> FALSE]

Current(root, graph) == {t \in Range(graph.types) : FileOf[t] = root}
Foreign(root, graph) == Range(graph.types) \ Current(root, graph)

\* What merging would be without the comparison of names.
mergePythonTypeGraphsBlindly(root, base, extra) ==
  [base EXCEPT !.imports = @ \o Only(extra.imports, Range(extra.imports) \ Range(base.imports)),
               !.types = @ \o Only(extra.types, Range(extra.types) \ Range(base.types))]

\* Only the types' own names are compared; the wrappers of their oneofs are not.
mergePythonTypeGraphs(root, base, extra) ==
  LET clash == \E t \in Current(root, extra), u \in Current(root, base) :
                 t # u /\ pythonPublicTypeName(t) = pythonPublicTypeName(u)
  IN [base EXCEPT
        !.imports = @ \o Only(extra.imports, Range(extra.imports) \ Range(base.imports)),
        !.types = @ \o Only(extra.types, Range(extra.types) \ Range(base.types)),
        !.failed = extra.failed \/ clash]

\* The TypeScript names that tools use, of their own and of imported files.
trackTypeScriptTypeRefs(methods) ==
  LET ref(t) == IF t \in WellKnown
                  THEN [file |-> WellKnownFile, name |-> <<<<t>>>>]
                  ELSE [file |-> FileOf[t], name |-> typescriptPublicTypeName(t)]
  IN UNION {{ref(methods[i].input), ref(methods[i].output)} : i \in DOMAIN methods}

\* Two files with one name.
typescriptCollision(methods) ==
  \E r, s \in trackTypeScriptTypeRefs(methods) : r.name = s.name /\ r.file # s.file
=============================================================================
