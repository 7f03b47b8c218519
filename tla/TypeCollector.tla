---------------------------- MODULE TypeCollector ----------------------------
(***************************************************************************)
(* The walk over the types below the tools of a file, in internal/codegen  *)
(* the recursion collectMessage, collectField, typeRefForField, which the  *)
(* Python and the JVM collector have alike.  Messages refer to each other  *)
(* and to themselves, so a type is marked as seen before its fields are    *)
(* looked at.  The recursion is a stack of frames here, one per message    *)
(* whose fields are being collected, and a step handles one field.         *)
(***************************************************************************)
EXTENDS TypeGraph

VARIABLES
  graph,   \* what was found so far
  frames,  \* calls of collectMessage in progress, innermost last
  roots    \* types that are still to be collected for themselves

collector == <<graph, frames, roots>>

Frame(t) == [type |-> t, next |-> 1]
MembersOf(t) == IF t \in Enums THEN <<>> ELSE fields[t]

Top == frames[Len(frames)]
AtField == frames # <<>> /\ Top.next <= Len(MembersOf(Top.type))
Field == MembersOf(Top.type)[Top.next]

ownerForProtoPath(root, g, file) ==
  IF file = root \/ file \in Range(g.imports) THEN g ELSE [g EXCEPT !.imports = Append(@, file)]

\* A name of a file that was given out for something else; all of it fails then.
checkOwnedPublicName(g, file, entries) ==
  LET given == {[file |-> file, name |-> entry.name, of |-> entry.of] : entry \in entries}
      known == g.names \cup given
      clash == \E a \in known, b \in given : a.file = b.file /\ a.name = b.name /\ a.of # b.of
  IN [g EXCEPT !.names = known, !.failed = @ \/ clash]

typeRefForField(root, g, type) ==
  CASE type = Scalar -> g
    [] type = Unsupported -> [g EXCEPT !.failed = TRUE]
    [] type \in WellKnown -> ownerForProtoPath(root, g, WellKnownFile)
    [] OTHER -> ownerForProtoPath(root, g, FileOf[type])

\* collectMessage and collectEnum up to the fields: seen, owned, named.
Entered(root, g, t) ==
  checkOwnedPublicName(ownerForProtoPath(root, [g EXCEPT !.seen = @ \cup {t}], FileOf[t]), FileOf[t],
                       {TypeName(t)} \cup (IF t \in Enums THEN {} ELSE Wrappers(t)))

Start(types) == graph' = NoGraph /\ frames' = <<>> /\ roots' = types

CollectRoot(root) ==
  /\ ~graph.failed /\ frames = <<>> /\ roots # <<>>
  /\ LET t == Head(roots)
     IN IF t \in graph.seen \cup WellKnown
          THEN UNCHANGED <<graph, frames>>
          ELSE graph' = Entered(root, graph, t) /\ frames' = <<Frame(t)>>
  /\ roots' = Tail(roots)

\* As if the types of other files were only imported.
CollectOwnField(root) ==
  /\ ~graph.failed /\ AtField
  /\ LET type == Field.type
         referred == typeRefForField(root, graph, type)
         after == [frames EXCEPT ![Len(frames)].next = @ + 1]
     IN IF type \in Types \ graph.seen /\ FileOf[type] = root
          THEN graph' = Entered(root, referred, type) /\ frames' = Append(after, Frame(type))
          ELSE graph' = referred /\ frames' = after
  /\ UNCHANGED roots

\* A field of a type that is new is left for the type's own fields.
CollectField(root) ==
  /\ ~graph.failed /\ AtField
  /\ LET type == Field.type
         referred == typeRefForField(root, graph, type)
         after == [frames EXCEPT ![Len(frames)].next = @ + 1]
     IN IF type \in Types \ graph.seen
          THEN graph' = Entered(root, referred, type) /\ frames' = Append(after, Frame(type))
          ELSE graph' = referred /\ frames' = after
  /\ UNCHANGED roots

\* After its fields a type is listed.
FinishType ==
  /\ ~graph.failed /\ frames # <<>> /\ ~AtField
  /\ graph' = [graph EXCEPT !.types = Append(@, Top.type)]
  /\ frames' = SubSeq(frames, 1, Len(frames) - 1)
  /\ UNCHANGED roots

Collect(root) == CollectRoot(root) \/ CollectField(root) \/ FinishType

\* A failure ends the recursion wherever it is.
Collected == graph.failed \/ (frames = <<>> /\ roots = <<>>)

----------------------------------------------------------------------------
\* Where the walk starts.  A file whose tools are all hidden, or that has none, gives
\* its own types.
collectTypeGraph(root, methods) ==
  IF methods = <<>>
    THEN TypesOf[root]
    ELSE FlattenSeq([i \in DOMAIN methods |-> <<methods[i].input, methods[i].output>>])

collectJVMTypeGraph(root, methods) == collectTypeGraph(root, methods)

\* The types of a file that other files of the same run refer to, in the order of
\* their full names, which only decides the order of the classes.
collectPythonTypeGraphFromRefs(refs) == SetToSeq(refs)

----------------------------------------------------------------------------
\* The types below some types, for reference: what every set that has those, and the
\* types of the fields of its own, has as well.
Below(t) == {MembersOf(t)[i].type : i \in DOMAIN MembersOf(t)}
Closed(S) == \A t \in S : Below(t) \cap Types \subseteq S
Reachable(types) ==
  LET closed == {S \in SUBSET Types : types \cap Types \subseteq S /\ Closed(S)}
  IN {t \in Types : \A S \in closed : t \in S}
=============================================================================
