------------------------- MODULE SchemaBuilderProofs -------------------------
(***************************************************************************)
(* Proofs about SchemaBuilder: type correctness, the bound on the depth of *)
(* its recursion, and that no definition stays a placeholder.              *)
(***************************************************************************)
EXTENDS SchemaBuilder, FiniteSetTheorems, SequenceTheorems, TLAPS

\* A stack of frames, whatever the properties gathered so far.
IsFrame(frame) ==
  /\ frame = [message |-> frame.message, next |-> frame.next, properties |-> frame.properties]
  /\ frame.message \in Messages
  /\ frame.next \in Nat \ {0}

IsStack(s) ==
  /\ Len(s) \in Nat
  /\ DOMAIN s = 1..Len(s)
  /\ s = [i \in 1..Len(s) |-> s[i]]
  /\ \A i \in 1..Len(s) : IsFrame(s[i])

\* While there are frames the builder is neither done nor failed.
Types ==
  /\ fields \in Descriptors
  /\ IsStack(frames)
  /\ frames # <<>> => status = "building"
  /\ DOMAIN built \subseteq Messages
  /\ DOMAIN defs \subseteq Messages \ {Root}
  /\ status \in {"building", "done", "failed"}

Distinct == \A i, k \in DOMAIN frames : i # k => frames[i].message # frames[k].message

IInv == Types /\ Distinct /\ DefinitionsFilled

\* A message's schema is never the unconstrained one.
LEMMA MessageSchemaConstrained ==
  ASSUME NEW m, NEW properties
  PROVE  Constrained(MessageSchema(m, properties))
<1>1. "type" \in DOMAIN MessageSchema(m, properties)
  BY DEF MessageSchema, Without
<1> QED BY <1>1 DEF Constrained, Structural

\* Any function on 1..n whose values are frames is a stack, of length n.
LEMMA StackOf ==
  ASSUME NEW n \in Nat, NEW s, s = [i \in 1..n |-> s[i]], \A i \in 1..n : IsFrame(s[i])
  PROVE  IsStack(s) /\ Len(s) = n /\ (s = <<>> <=> n = 0)
<1> DEFINE S == {s[i] : i \in 1..n}
<1>1. [i \in 1..n |-> s[i]] \in Seq(S) /\ Len([i \in 1..n |-> s[i]]) = n
  OBVIOUS
<1>2. s \in Seq(S) /\ Len(s) = n
  BY <1>1, Zenon
<1>3. s = <<>> <=> n = 0
  BY <1>2
<1> QED BY <1>2, <1>3 DEF IsStack

\* A sequence is a function on 1..Len.
LEMMA SeqAsFunction ==
  ASSUME NEW S, NEW s \in Seq(S)
  PROVE  s = [i \in 1..Len(s) |-> s[i]] /\ Len(s) \in Nat
<1>1. s \in [1..Len(s) -> S] /\ Len(s) \in Nat
  OBVIOUS
<1> QED BY <1>1, Zenon

\* The same for the frame that Advanced makes.
LEMMA AdvancedFrame ==
  ASSUME NEW frame, IsFrame(frame), NEW schema
  PROVE  IsFrame(Advanced(frame, schema)) /\ Advanced(frame, schema).message = frame.message
  BY DEF IsFrame, Advanced

\* A non-empty stack has a top.
LEMMA TopFrame ==
  ASSUME IsStack(frames), frames # <<>>
  PROVE  /\ Len(frames) \in 1..Len(frames) /\ Len(frames) >= 1
         /\ IsFrame(Top) /\ Top = frames[Len(frames)]
         /\ Top.message \in building
<1>1. Len(frames) # 0
  <2> SUFFICES ASSUME Len(frames) = 0 PROVE FALSE
    OBVIOUS
  <2>1. frames = [i \in 1..0 |-> frames[i]]
    BY DEF IsStack
  <2> QED BY <2>1
<1> QED BY <1>1 DEF IsStack, Top, building

\* Putting a property leaves the stack's messages as they are.
LEMMA PutKeeps ==
  ASSUME Types, frames # <<>>, NEW schema, Put(schema)
  PROVE  /\ IsStack(frames') /\ frames' # <<>> /\ Len(frames') = Len(frames)
         /\ \A i \in 1..Len(frames) : frames'[i].message = frames[i].message
         /\ building' = building
<1> DEFINE n == Len(frames)
<1>1. IsStack(frames) /\ n \in Nat /\ n \in 1..n
  BY TopFrame DEF Types, IsStack
<1>2. frames' = [i \in 1..n |-> IF i = n THEN Advanced(Top, schema) ELSE frames[i]]
  BY <1>1 DEF Put, IsStack
<1>3. \A i \in 1..n : IsFrame(frames'[i]) /\ frames'[i].message = frames[i].message
  BY <1>1, <1>2, TopFrame, AdvancedFrame DEF IsStack
<1>4. frames' = [i \in 1..n |-> frames'[i]]
  BY <1>2
<1>5. IsStack(frames') /\ Len(frames') = n /\ frames' # <<>>
  BY <1>1, <1>3, <1>4, StackOf
<1> QED BY <1>1, <1>3, <1>5 DEF building, IsStack

LEMMA InitIInv == Init => IInv
<1> SUFFICES ASSUME Init PROVE IInv
  OBVIOUS
<1>1. frames = [i \in 1..1 |-> frames[i]] /\ frames[1] = Frame(Root)
  BY DEF Init
<1>2. IsFrame(frames[1])
  BY <1>1, RootAssumption DEF Frame, IsFrame
<1>3. IsStack(frames) /\ Len(frames) = 1
  BY <1>1, <1>2, StackOf
<1>4. DOMAIN built = {} /\ DOMAIN defs = {}
  BY DEF Init, Unconstrained
<1> QED BY <1>3, <1>4 DEF Init, IInv, Types, Distinct, DefinitionsFilled, IsStack

\* A step that only puts a property, and leaves the other variables alone but for
\* a new placeholder for a message that is being built.
LEMMA PutIInv ==
  ASSUME IInv, frames # <<>>, NEW schema, Put(schema),
         UNCHANGED <<fields, built, status>>,
         DOMAIN defs' \subseteq Messages \ {Root},
         \A m \in DOMAIN defs' : m \notin building => m \in DOMAIN defs /\ defs'[m] = defs[m]
  PROVE  IInv'
<1>1. Types /\ Distinct /\ DefinitionsFilled
  BY DEF IInv
<1>2. /\ IsStack(frames') /\ frames' # <<>> /\ Len(frames') = Len(frames)
      /\ \A i \in 1..Len(frames) : frames'[i].message = frames[i].message
      /\ building' = building
  BY <1>1, PutKeeps
<1>3. Types'
  BY <1>1, <1>2 DEF Types
<1>4. Distinct'
  BY <1>1, <1>2 DEF Distinct, Types, IsStack
<1>5. DefinitionsFilled'
  BY <1>1, <1>2 DEF DefinitionsFilled
<1> QED BY <1>3, <1>4, <1>5 DEF IInv

LEMMA ScalarFieldIInv == IInv /\ ScalarField => IInv'
<1> SUFFICES ASSUME IInv, ScalarField PROVE IInv'
  OBVIOUS
<1>1. frames # <<>> /\ Put(Leaf(Field, LimitsOf(Field)))
  BY DEF ScalarField, AtField
<1>2. UNCHANGED <<fields, built, status, defs>> /\ DOMAIN defs \subseteq Messages \ {Root}
  BY DEF ScalarField, IInv, Types
<1> HIDE DEF Put, Leaf
<1> QED BY <1>1, <1>2, PutIInv

LEMMA BuiltFieldIInv == IInv /\ BuiltField => IInv'
<1> SUFFICES ASSUME IInv, BuiltField PROVE IInv'
  OBVIOUS
<1> DEFINE schema == IF Field.msg \in DOMAIN defs THEN RefTo(Field.msg) ELSE built[Field.msg]
<1>1. frames # <<>> /\ Put(schema)
  BY DEF BuiltField, AtField
<1>2. UNCHANGED <<fields, built, status, defs>> /\ DOMAIN defs \subseteq Messages \ {Root}
  BY DEF BuiltField, IInv, Types
<1> HIDE DEF schema
<1> QED BY <1>1, <1>2, PutIInv

\* The placeholder is for a message on the stack, and never for the root.
LEMMA RecursiveFieldIInv == IInv /\ RecursiveField => IInv'
<1> SUFFICES ASSUME IInv, RecursiveField PROVE IInv'
  OBVIOUS
<1> DEFINE schema == RefTo(IF Field.msg = Root THEN RefRoot ELSE Field.msg)
           m0 == Field.msg
<1>1. frames # <<>> /\ Put(schema) /\ m0 \in building /\ ensureDefinition(m0)
  BY DEF RecursiveField, AtField
<1>2. UNCHANGED <<fields, built, status>>
  BY DEF RecursiveField
<1>3. Types /\ DOMAIN defs \subseteq Messages \ {Root}
  BY DEF IInv, Types
<1>4. m0 \in Messages
  BY <1>1, <1>3 DEF building, Types, IsStack, IsFrame
<1> HIDE DEF schema, m0
<1>5. CASE m0 = Root \/ m0 \in DOMAIN defs
  BY <1>1, <1>2, <1>3, <1>5, PutIInv DEF ensureDefinition
<1>6. CASE m0 # Root /\ m0 \notin DOMAIN defs
  <2>1. defs' = Set(defs, m0, Unconstrained)
    BY <1>1, <1>6 DEF ensureDefinition
  <2>2. DOMAIN defs' = {m0} \cup DOMAIN defs /\ \A m \in DOMAIN defs : m # m0 => defs'[m] = defs[m]
    BY <2>1 DEF Set
  <2> QED BY <1>1, <1>2, <1>3, <1>4, <1>6, <2>2, PutIInv
<1> QED BY <1>5, <1>6

LEMMA UnsupportedFieldIInv == IInv /\ UnsupportedField => IInv'
<1> SUFFICES ASSUME IInv, UnsupportedField PROVE IInv'
  OBVIOUS
<1>1. frames' = <<>> /\ status' = "failed" /\ UNCHANGED <<fields, built, defs>>
  BY DEF UnsupportedField
<1>2. IsStack(frames') /\ DOMAIN frames' = {}
  <2>1. frames' = [i \in 1..0 |-> frames'[i]] /\ \A i \in 1..0 : IsFrame(frames'[i])
    BY <1>1
  <2> QED BY <2>1, StackOf DEF IsStack
<1> QED BY <1>1, <1>2 DEF IInv, Types, Distinct, DefinitionsFilled

\* Entering a message makes the set of messages being built larger.
LEMMA EnterMessageIInv == IInv /\ EnterMessage => IInv'
<1> SUFFICES ASSUME IInv, EnterMessage PROVE IInv'
  OBVIOUS
<1> DEFINE n == Len(frames)
           m0 == Field.msg
<1>1. /\ frames # <<>> /\ Types /\ Distinct /\ DefinitionsFilled /\ IsStack(frames)
      /\ m0 \notin building /\ UNCHANGED <<fields, built, defs, status>>
      /\ frames' = Append(frames, Frame(m0))
      /\ IsMessage(Field) /\ Top.next <= Len(fields[Top.message])
  BY DEF EnterMessage, AtField, IInv, Types
<1>2. n \in Nat /\ IsFrame(Top) /\ fields \in Descriptors
  BY <1>1, TopFrame DEF IsStack, Types
<1>3. m0 \in Messages
  <2>1. Top.message \in Messages /\ Top.next \in 1..Len(fields[Top.message])
    BY <1>1, <1>2 DEF IsFrame
  <2> QED BY <1>1, <1>2, <2>1, DescriptorsAssumption DEF Field, IsMessage
<1> HIDE DEF m0
<1>4. frames' = [i \in 1..(n + 1) |-> IF i = n + 1 THEN Frame(m0) ELSE frames[i]]
  <2> DEFINE S == {frames[i] : i \in 1..n} \cup {Frame(m0)}
  <2>1. [i \in 1..n |-> frames[i]] \in Seq(S)
    BY <1>2
  <2>2. frames \in Seq(S)
    BY <1>1, <2>1, Zenon DEF IsStack
  <2>3. Frame(m0) \in S
    OBVIOUS
  <2> HIDE DEF S
  <2>4. /\ Append(frames, Frame(m0)) \in Seq(S) /\ Len(Append(frames, Frame(m0))) = n + 1
        /\ \A i \in 1..n : Append(frames, Frame(m0))[i] = frames[i]
        /\ Append(frames, Frame(m0))[n + 1] = Frame(m0)
    BY <2>2, <2>3, AppendProperties
  <2>5. frames' = [i \in 1..(n + 1) |-> frames'[i]]
    BY <1>1, <2>4, SeqAsFunction
  <2> QED BY <1>1, <1>2, <2>4, <2>5
<1>5. IsFrame(Frame(m0)) /\ Frame(m0).message = m0
  BY <1>3 DEF IsFrame, Frame
<1>6. /\ \A i \in 1..(n + 1) : IsFrame(frames'[i])
      /\ \A i \in 1..n : frames'[i] = frames[i]
      /\ frames'[n + 1] = Frame(m0)
  BY <1>1, <1>2, <1>4, <1>5 DEF IsStack
<1>7. IsStack(frames') /\ Len(frames') = n + 1 /\ frames' # <<>>
  <2>1. n + 1 \in Nat /\ frames' = [i \in 1..(n + 1) |-> frames'[i]] /\ n + 1 # 0
    BY <1>2, <1>4
  <2> QED BY <1>6, <2>1, StackOf
<1>8. Types'
  BY <1>1, <1>7 DEF Types
<1>9. Distinct'
  <2> SUFFICES ASSUME NEW i \in 1..(n + 1), NEW k \in 1..(n + 1), i # k
               PROVE  frames'[i].message # frames'[k].message
    BY <1>7 DEF Distinct, IsStack
  <2>1. \A j \in 1..n : frames'[j].message \in building
    BY <1>1, <1>6 DEF building, IsStack
  <2>2. CASE i \in 1..n /\ k \in 1..n
    BY <1>1, <1>6, <2>2 DEF Distinct, IsStack
  <2>3. CASE i = n + 1 /\ k \in 1..n
    BY <1>1, <1>5, <1>6, <2>1, <2>3
  <2>4. CASE k = n + 1 /\ i \in 1..n
    BY <1>1, <1>5, <1>6, <2>1, <2>4
  <2> QED BY <1>2, <2>2, <2>3, <2>4
<1>10. building \subseteq building'
  <2>1. \A i \in 1..n : i \in 1..(n + 1) /\ frames'[i].message = frames[i].message
    BY <1>2, <1>6
  <2> QED BY <1>1, <1>7, <2>1 DEF building, IsStack
<1>11. DefinitionsFilled'
  BY <1>1, <1>10 DEF DefinitionsFilled
<1> QED BY <1>8, <1>9, <1>11 DEF IInv

\* Leaving a message fills its placeholder with the schema it also keeps.
LEMMA LeaveMessageIInv == IInv /\ LeaveMessage => IInv'
<1> SUFFICES ASSUME IInv, LeaveMessage PROVE IInv'
  OBVIOUS
<1> DEFINE schema == MessageSchema(Top.message, Top.properties)
           m0 == Top.message
           caller == Len(frames) - 1
<1>1. /\ frames # <<>> /\ Types /\ Distinct /\ DefinitionsFilled /\ IsStack(frames)
      /\ built' = Set(built, m0, schema)
      /\ defs' = [m \in DOMAIN defs |-> IF m = m0 THEN schema ELSE defs[m]]
      /\ frames' = [i \in 1..caller |-> IF i = caller THEN Advanced(frames[i], schema) ELSE frames[i]]
      /\ status' = IF caller = 0 THEN "done" ELSE "building"
      /\ UNCHANGED fields
  BY DEF LeaveMessage, IInv, Types
<1>2. Constrained(schema)
  BY MessageSchemaConstrained
<1>3. /\ Len(frames) \in 1..Len(frames) /\ caller \in Nat /\ m0 \in Messages
      /\ m0 = frames[Len(frames)].message
  BY <1>1, TopFrame DEF IsStack, IsFrame
<1> HIDE DEF schema, m0
<1>4. \A i \in 1..caller : IsFrame(frames'[i]) /\ frames'[i].message = frames[i].message /\ i \in 1..Len(frames)
  BY <1>1, <1>3, AdvancedFrame DEF IsStack
<1>5. IsStack(frames') /\ Len(frames') = caller /\ (frames' = <<>> <=> caller = 0)
  <2>1. frames' = [i \in 1..caller |-> frames'[i]]
    BY <1>1, Zenon
  <2> QED BY <1>3, <1>4, <2>1, StackOf
<1>6. /\ DOMAIN built' = {m0} \cup DOMAIN built /\ built'[m0] = schema
      /\ \A m \in DOMAIN built : m # m0 => built'[m] = built[m]
      /\ DOMAIN defs' = DOMAIN defs
  BY <1>1 DEF Set
<1>7. Types'
  BY <1>1, <1>3, <1>5, <1>6 DEF Types
<1>8. Distinct'
  BY <1>1, <1>4, <1>5 DEF Distinct, IsStack
<1>9. \A m \in building : m # m0 => m \in building'
  <2> SUFFICES ASSUME NEW i \in 1..Len(frames), frames[i].message # m0
               PROVE  frames[i].message \in building'
    BY <1>1 DEF building, IsStack
  <2>1. i \in 1..caller
    BY <1>3
  <2> QED BY <1>4, <1>5, <2>1 DEF building, IsStack
<1>10. DefinitionsFilled'
  <2> SUFFICES ASSUME NEW m \in DOMAIN defs, m \notin building'
               PROVE  m \in DOMAIN built' /\ defs'[m] = built'[m] /\ Constrained(defs'[m])
    BY <1>6 DEF DefinitionsFilled
  <2>1. CASE m = m0
    BY <1>1, <1>2, <1>6, <2>1
  <2>2. CASE m # m0
    <3>1. m \notin building /\ status = "building"
      BY <1>1, <1>9, <2>2 DEF Types
    <3> QED BY <1>1, <1>6, <2>2, <3>1 DEF DefinitionsFilled
  <2> QED BY <2>1, <2>2
<1> QED BY <1>7, <1>8, <1>10 DEF IInv

LEMMA StepIInv == IInv /\ [Build]_vars => IInv'
<1> SUFFICES ASSUME IInv, [Build]_vars PROVE IInv'
  OBVIOUS
<1>1. CASE UNCHANGED vars
  BY <1>1 DEF vars, IInv, Types, Distinct, DefinitionsFilled, building
<1>2. CASE Build
  BY <1>2, ScalarFieldIInv, UnsupportedFieldIInv, RecursiveFieldIInv, BuiltFieldIInv,
     EnterMessageIInv, LeaveMessageIInv DEF Build
<1> QED BY <1>1, <1>2

\* Distinct messages on the stack, by injection into the finite set of messages.
LEMMA DistinctBounds == IInv => DepthBounded
<1> SUFFICES ASSUME IInv PROVE DepthBounded
  OBVIOUS
<1> DEFINE n == Len(frames)
           f == [i \in 1..n |-> frames[i].message]
<1>1. IsStack(frames) /\ Distinct /\ n \in Nat
  BY DEF IInv, Types, IsStack
<1>2. f \in Injection(1..n, Messages)
  <2>1. f \in [1..n -> Messages]
    BY <1>1 DEF IsStack, IsFrame
  <2>2. \A i, k \in 1..n : f[i] = f[k] => i = k
    BY <1>1 DEF Distinct, IsStack
  <2> QED BY <2>1, <2>2 DEF Injection, IsInjective
<1>3. Cardinality(1..n) <= Cardinality(Messages)
  BY <1>2, FS_Injection, MessagesAssumption
<1>4. Cardinality(1..n) = n
  BY <1>1, FS_Interval, SMTT(40)
<1> QED BY <1>1, <1>3, <1>4 DEF DepthBounded, Distinct

\* DefinitionsFilled and DepthBounded hold of the builder whatever the messages.
THEOREM BuilderInvariant == Spec => []IInv
<1>1. Init => IInv
  BY InitIInv
<1>2. IInv /\ [Build]_vars => IInv'
  BY StepIInv
<1> QED BY <1>1, <1>2, PTL DEF Spec

\* generateMessageSchema, ensureDefinition and fillDefinition together leave no
\* placeholder among the $defs, for any messages that refer to each other in any way.
THEOREM DefinitionsAreFilled == Spec => []DefinitionsFilled
<1>1. IInv => DefinitionsFilled
  BY DEF IInv
<1> QED BY <1>1, BuilderInvariant, PTL

\* The check of building bounds the recursion of generateMessageSchema by the number
\* of messages, for any messages.
THEOREM DepthIsBounded == Spec => []DepthBounded
  BY BuilderInvariant, DistinctBounds, PTL
=============================================================================
