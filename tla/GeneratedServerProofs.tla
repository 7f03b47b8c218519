------------------------ MODULE GeneratedServerProofs ------------------------
(***************************************************************************)
(* For every set of registrations, names and sessions, in every language:  *)
(* a tools/call implements ToolContract; tools/list shows what tools/call  *)
(* serves; a tool that was registered stays served.                        *)
(***************************************************************************)
EXTENDS GeneratedServer, LeastElements, FiniteSetTheorems, SequenceTheorems, TLAPS
-----------------------------------------------------------------------------
(* The way of one call *)

CallStages == {"idle", "unknown", "validate", "decode", "handle", "marshal", "check"}

\* A call that has passed a stage does not fail there.
CallInv ==
  /\ lang \in Languages
  /\ call = [stage |-> call.stage, tool |-> call.tool, fault |-> call.fault, answer |-> call.answer]
  /\ call.stage \in CallStages
  /\ call.fault \in DOMAIN Dispatch \cup {"none"}
  /\ call.stage = "unknown" => call.fault = "none"
  /\ call.stage \in {"decode", "handle", "marshal", "check"} => call.fault # "validate"
  /\ call.stage \in {"handle", "marshal", "check"} => call.fault # "decode"
  /\ call.stage \in {"marshal", "check"} => call.fault # "handle"
  /\ call.stage = "check" =>
       call.fault # "marshal" /\ (call.fault = "nothing" => Dispatch["nothing"] = "success")

\* The five dispatch tables agree but for a handler that returns nothing.
LEMMA DispatchFacts ==
  ASSUME lang \in Languages
  PROVE  /\ Dispatch["validate"] = "invalid_params"
         /\ Dispatch["decode"] = "invalid_params"
         /\ Dispatch["handle"] = "tool_error"
         /\ Dispatch["marshal"] = "internal"
         /\ Dispatch["check"] = "internal"
         /\ "nothing" \in DOMAIN Dispatch => Dispatch["nothing"] \in {"success", "internal"}
         /\ DOMAIN Dispatch \subseteq {"validate", "decode", "handle", "nothing", "marshal", "check"}
<1>1. lang \in {"go", "python", "java", "kotlin", "typescript"} BY LanguagesAssumption
<1>2. DOMAIN goDispatch = {"validate", "decode", "handle", "nothing", "marshal", "check"}
  BY DEF goDispatch
<1>3. CASE lang \in {"go", "python", "java"}
  BY <1>2, <1>3 DEF Dispatch, goDispatch, pythonDispatch, javaDispatch
<1>4. CASE lang = "kotlin"
  BY <1>2, <1>4 DEF Dispatch, goDispatch, kotlinDispatch
<1>5. CASE lang = "typescript"
  BY <1>2, <1>5 DEF Dispatch, goDispatch, typescriptDispatch
<1> QED BY <1>1, <1>3, <1>4, <1>5

\* The stage that follows each stage but the last.
LEMMA AfterFacts ==
  /\ After("validate") = "decode" /\ After("decode") = "handle"
  /\ After("handle") = "marshal" /\ After("marshal") = "check"
  /\ ToSet(Stages) = {"validate", "decode", "handle", "marshal", "check"}
<1>1. /\ DOMAIN Stages = 1..5
      /\ Stages[1] = "validate" /\ Stages[2] = "decode" /\ Stages[3] = "handle"
      /\ Stages[4] = "marshal" /\ Stages[5] = "check"
  BY DEF Stages
<1>2. \A i \in 1..4 : (CHOOSE j \in 1..4 : Stages[j] = Stages[i]) = i
  <2> TAKE i \in 1..4
  <2>1. i = 1 \/ i = 2 \/ i = 3 \/ i = 4 OBVIOUS
  <2>2. \A j \in 1..4 : Stages[j] = Stages[i] => j = i
    <3> TAKE j \in 1..4
    <3>1. j = 1 \/ j = 2 \/ j = 3 \/ j = 4 OBVIOUS
    <3> QED BY <1>1, <2>1, <3>1
  <2>3. \E j \in 1..4 : Stages[j] = Stages[i] OBVIOUS
  <2> QED BY <2>2, <2>3
<1>3. \A i \in 1..4 : After(Stages[i]) = Stages[1 + i] BY <1>2 DEF After
<1>4. After(Stages[1]) = Stages[2] /\ After(Stages[2]) = Stages[3]
      /\ After(Stages[3]) = Stages[4] /\ After(Stages[4]) = Stages[5]
  BY <1>3
<1>5. ToSet(Stages) = {"validate", "decode", "handle", "marshal", "check"}
  <2>1. ToSet(Stages) = {Stages[i] : i \in 1..5} BY <1>1 DEF ToSet
  <2>2. \A i \in 1..5 : i = 1 \/ i = 2 \/ i = 3 \/ i = 4 \/ i = 5 OBVIOUS
  <2> QED BY <1>1, <2>1, <2>2
<1> QED BY <1>1, <1>4, <1>5

\* Steps that are not of the call leave it, and the language, alone.
Elsewhere == lang' = lang /\ call' = call

LEMMA OtherSteps ==
  ASSUME Next
  PROVE  Elsewhere \/ AnswerUnknown \/ RunStage
         \/ \E s \in Sessions, name \in AllNames, fault \in DOMAIN Dispatch \cup {"none"} :
              Receive(s, name, fault)
<1>1. ASSUME NEW r \in Registrations, Register(r) PROVE Elsewhere
  BY <1>1 DEF Register, Elsewhere, RegisterPython, RegisterTypeScript, ReserveGo, AddGo,
    AddToTable, InstallSessionFactory, InstallMcpHandlers, OnConnect
<1>2. ASSUME NEW s \in Sessions, Connect(s) PROVE Elsewhere
  BY <1>2 DEF Connect, Elsewhere
<1>3. ASSUME NEW file \in PromptFiles, RegisterPrompts(file) PROVE Elsewhere
  BY <1>3 DEF RegisterPrompts, Elsewhere, chain
<1> QED BY <1>1, <1>2, <1>3 DEF Next

Ready(name, fault) == call' = [stage |-> "validate", tool |-> call'.tool, fault |-> fault, answer |-> "none"]
Refused == call' = [stage |-> "unknown", tool |-> call'.tool, fault |-> "none", answer |-> "none"]

\* A call that comes in is answered as unknown, or starts at its first stage.
LEMMA ReceiveFacts ==
  ASSUME NEW s \in Sessions, NEW name \in AllNames, NEW fault \in DOMAIN Dispatch \cup {"none"},
         Receive(s, name, fault)
  PROVE  /\ lang' = lang /\ call.stage = "idle"
         /\ Ready(name, fault) \/ Refused
  BY DEF Receive, Ready, Refused, chain

\* What a stage of a call does.
LEMMA RunStageFacts ==
  ASSUME RunStage
  PROVE  /\ lang' = lang
         /\ call.stage \in {"validate", "decode", "handle", "marshal", "check"}
         /\ FailsHere \/ FailsEmpty \/ (Clean /\ (Succeeds \/ PassesOn))
BY AfterFacts DEF RunStage, chain

\* The dispatch table is the language's.
LEMMA DispatchSteady ==
  ASSUME lang' = lang
  PROVE  Dispatch' = Dispatch
  BY DEF Dispatch

\* CallInv is inductive.
LEMMA CallInvInit ==
  ASSUME Init PROVE CallInv
  BY DEF Init, CallInv, NoCall, CallStages

\* Every step keeps CallInv.
LEMMA CallInvNext ==
  ASSUME CallInv, [Next]_vars PROVE CallInv'
<1> USE DEF CallStages
<1>1. CASE UNCHANGED vars
  <2>1. lang' = lang /\ call' = call BY <1>1 DEF vars, chain
  <2> QED BY <2>1, DispatchSteady DEF CallInv
<1>2. CASE Elsewhere
  BY <1>2, DispatchSteady DEF CallInv, Elsewhere
<1>3. CASE AnswerUnknown
  <2>1. lang' = lang BY <1>3 DEF AnswerUnknown, chain
  <2>2. call' = [call EXCEPT !.stage = "idle", !.answer = "invalid_params"]
    BY <1>3 DEF AnswerUnknown, Reply
  <2> QED BY <2>1, <2>2, DispatchSteady DEF CallInv
<1>4. ASSUME NEW s \in Sessions, NEW name \in AllNames, NEW fault \in DOMAIN Dispatch \cup {"none"},
             Receive(s, name, fault)
      PROVE CallInv'
  <2>1. lang' = lang /\ (Ready(name, fault) \/ Refused) BY <1>4, ReceiveFacts
  <2>2. Dispatch' = Dispatch BY <2>1, DispatchSteady
  <2>3. CASE Ready(name, fault) BY <2>1, <2>2, <2>3, <1>4 DEF CallInv, Ready
  <2>4. CASE Refused BY <2>1, <2>2, <2>4 DEF CallInv, Refused
  <2> QED BY <2>1, <2>3, <2>4
<1>5. CASE RunStage
  <2>1. lang' = lang BY <1>5, RunStageFacts
  <2>2. Dispatch' = Dispatch BY <2>1, DispatchSteady
  <2>3. ASSUME NEW a, call' = [call EXCEPT !.stage = "idle", !.answer = a] PROVE CallInv'
    BY <2>1, <2>2, <2>3 DEF CallInv
  <2>4. CASE FailsHere BY <2>3, <2>4 DEF FailsHere, Reply
  <2>5. CASE FailsEmpty BY <2>3, <2>5 DEF FailsEmpty, Reply
  <2>6. CASE Succeeds BY <2>3, <2>6 DEF Succeeds, Reply
  <2>7. CASE Clean /\ PassesOn
    <3>1. After(call.stage) \in {"decode", "handle", "marshal", "check"}
      BY <1>5, <2>7, RunStageFacts, AfterFacts DEF PassesOn
    <3>2. /\ call'.stage = After(call.stage)
          /\ call' = [stage |-> call'.stage, tool |-> call.tool, fault |-> call.fault, answer |-> call.answer]
      BY <2>7 DEF PassesOn, CallInv
    <3>3. /\ After(call.stage) = "decode" => call.stage = "validate"
          /\ After(call.stage) = "handle" => call.stage = "decode"
          /\ After(call.stage) = "marshal" => call.stage = "handle"
          /\ After(call.stage) = "check" => call.stage = "marshal"
      BY <1>5, <2>7, RunStageFacts, AfterFacts DEF PassesOn
    <3> QED BY <2>1, <2>2, <2>7, <3>1, <3>2, <3>3 DEF CallInv, Clean
  <2> QED BY <1>5, RunStageFacts, <2>4, <2>5, <2>6, <2>7
<1> QED BY <1>1, <1>2, <1>3, <1>4, <1>5, OtherSteps

\* Every call, in every language, implements ToolContract (CallsKeepContract).
THEOREM CallsImplementContract == Spec => CallsKeepContract
<1> USE DEF CallStages
<1>1. ASSUME Init PROVE Contract!Init
  BY <1>1 DEF Init, NoCall, Contract!Init, Phase, Sound
<1>2. ASSUME CallInv, CallInv', [Next]_vars PROVE [Contract!Next]_(Contract!vars)
  <2>1. CASE UNCHANGED vars
    <3>1. lang' = lang /\ call' = call BY <2>1 DEF vars, chain
    <3> QED BY <3>1, DispatchSteady DEF Contract!vars, Phase, Sound
  <2>2. CASE Elsewhere
    BY <2>2, DispatchSteady DEF Elsewhere, Contract!vars, Phase, Sound
  <2>3. CASE AnswerUnknown
    <3>1. call.stage = "unknown" /\ call' = [call EXCEPT !.stage = "idle", !.answer = "invalid_params"]
      BY <2>3 DEF AnswerUnknown, Reply
    <3>2. call'.stage = "idle" /\ call'.answer = "invalid_params" BY <1>2, <3>1 DEF CallInv
    <3> QED BY <3>1, <3>2 DEF Contract!Next, Contract!Refuse, Phase, Sound
  <2>4. ASSUME NEW s \in Sessions, NEW name \in AllNames, NEW fault \in DOMAIN Dispatch \cup {"none"},
               Receive(s, name, fault)
        PROVE Contract!Next
    <3>1. call.stage = "idle" /\ call'.stage \in {"validate", "unknown"} /\ call'.answer = "none"
      BY <2>4, ReceiveFacts DEF Ready, Refused
    <3>2. Phase = "idle" /\ Phase' = "asked" BY <3>1 DEF Phase
    <3>3. Sound' \in BOOLEAN BY <3>1 DEF Sound
    <3>4. Contract!Ask(Sound') BY <3>1, <3>2 DEF Contract!Ask
    <3> QED BY <3>3, <3>4 DEF Contract!Next
  <2>5. CASE RunStage
    <3>1. /\ lang' = lang
          /\ call.stage \in {"validate", "decode", "handle", "marshal", "check"}
          /\ FailsHere \/ FailsEmpty \/ (Clean /\ (Succeeds \/ PassesOn))
      BY <2>5, RunStageFacts
    <3>2. Dispatch' = Dispatch BY <3>1, DispatchSteady
    <3>3. lang \in Languages BY <1>2 DEF CallInv
    <3>4. ASSUME NEW a, Reply(a) PROVE call'.stage = "idle" /\ call'.answer = a
      BY <1>2, <3>4 DEF Reply, CallInv
    <3>5. CASE FailsHere
      <4>1. call'.stage = "idle" /\ call'.answer = Dispatch[call.stage] /\ call.fault = call.stage
        BY <3>4, <3>5 DEF FailsHere
      <4>2. CASE call.stage \in {"validate", "decode"}
        <5>1. call'.answer = "invalid_params" BY <4>1, <4>2, <3>3, DispatchFacts
        <5> QED BY <4>1, <4>2, <5>1 DEF Contract!Next, Contract!Refuse, Phase, Sound
      <4>3. CASE call.stage \in {"handle", "marshal", "check"}
        <5>1. call'.answer \in {"tool_error", "internal"} BY <4>1, <4>3, <3>3, DispatchFacts
        <5> QED BY <4>1, <4>3, <5>1 DEF Contract!Next, Contract!Finish, Phase, Sound
      <4> QED BY <3>1, <4>2, <4>3
    <3>6. CASE FailsEmpty
      <4>1. call'.stage = "idle" /\ call'.answer = Dispatch["nothing"] /\ call.fault = "nothing"
            /\ call.stage = "marshal" /\ Dispatch["nothing"] # "success"
        BY <3>4, <3>6 DEF FailsEmpty
      <4>2. call'.answer = "internal" BY <1>2, <4>1, <3>3, DispatchFacts DEF CallInv
      <4> QED BY <4>1, <4>2 DEF Contract!Next, Contract!Finish, Phase, Sound
    <3>7. CASE Clean /\ Succeeds
      <4>1. call.stage = "check" /\ call'.stage = "idle" /\ call'.answer = "success"
        BY <3>4, <3>7 DEF Succeeds
      <4>2. call.fault = "none" \/ (call.fault = "nothing" /\ Dispatch["nothing"] = "success")
        BY <1>2, <3>3, <3>7, <4>1, DispatchFacts DEF CallInv, Clean
      <4> QED BY <4>1, <4>2 DEF Contract!Next, Contract!Finish, Phase, Sound
    <3>8. CASE Clean /\ PassesOn
      <4>1. call' = [call EXCEPT !.stage = After(call.stage)] /\ call.stage # "check"
        BY <3>8 DEF PassesOn
      <4>2. call'.stage = After(call.stage) /\ call'.fault = call.fault /\ call'.answer = call.answer
        BY <1>2, <4>1 DEF CallInv
      <4>3. CASE call.stage = "validate"
        <5>1. call'.stage = "decode" BY <4>2, <4>3, AfterFacts
        <5>2. Phase' = Phase /\ Sound' = Sound BY <4>2, <4>3, <5>1 DEF Phase, Sound
        <5> QED BY <4>2, <5>2 DEF Contract!vars
      <4>4. CASE call.stage = "decode"
        <5>1. call'.stage = "handle" BY <4>2, <4>4, AfterFacts
        <5>2. call.fault \notin {"validate", "decode"} BY <1>2, <3>8, <4>4 DEF CallInv, Clean
        <5>3. Phase = "asked" /\ Phase' = "invoked" /\ Sound = TRUE
          BY <4>4, <5>1, <5>2 DEF Phase, Sound
        <5>4. Sound' \in BOOLEAN BY <5>1 DEF Sound
        <5>5. Contract!Invoke(Sound') BY <4>2, <5>3 DEF Contract!Invoke
        <5> QED BY <5>4, <5>5 DEF Contract!Next
      <4>5. CASE call.stage \in {"handle", "marshal"}
        <5>1. call'.stage \in {"marshal", "check"} BY <4>2, <4>5, AfterFacts
        <5>2. Phase' = Phase BY <4>5, <5>1 DEF Phase
        <5>3. Sound' = Sound BY <3>2, <4>2, <4>5, <5>1 DEF Sound
        <5> QED BY <4>2, <5>2, <5>3 DEF Contract!vars
      <4> QED BY <3>1, <4>1, <4>3, <4>4, <4>5
    <3> QED BY <3>1, <3>5, <3>6, <3>7, <3>8
  <2> QED BY <1>2, <2>1, <2>2, <2>3, <2>4, <2>5, OtherSteps
<1> QED BY <1>1, <1>2, CallInvInit, CallInvNext, PTL DEF Spec, Contract!Spec, CallsKeepContract
-----------------------------------------------------------------------------
(* Lists of tools, and looking a name up in one *)

Tables == Files \cup {Server}

\* The tools of generated code, and those of a list.
Generated == [by : Registrations, at : Nat \ {0}]
Listable == [by : Registrations \cup {"hand"}, at : Nat \cup ForeignNames]

\* No two tools of a table have one name.
OneNameEach(tools) == \A i, j \in DOMAIN tools : NameOf(tools[i]) = NameOf(tools[j]) => i = j

\* A tool carries its registration and its index, and is called by the name it has there.
LEMMA ToolFacts ==
  ASSUME NEW r \in Registrations, NEW i \in Nat \ {0}
  PROVE  /\ Tool(r, i) \in Generated /\ IsGenerated(Tool(r, i))
         /\ NameOf(Tool(r, i)) = NamesOf[r][i] /\ AnyName(Tool(r, i)) = NamesOf[r][i]
         /\ Tool(r, i).by = r /\ Tool(r, i).at = i
BY DEF Tool, Generated, IsGenerated, NameOf, AnyName

\* A generated tool is listed under the name it was registered with.
LEMMA GeneratedFacts ==
  ASSUME NEW t \in Generated
  PROVE  AnyName(t) = NameOf(t) /\ t \in Listable /\ t.by \in Registrations
BY DEF Generated, AnyName, NameOf, IsGenerated, Listable

\* The names of the tools served by hand are distinct, in whatever order they come.
LEMMA HandFacts ==
  ASSUME foreign \subseteq ForeignNames
  PROVE  /\ HandTools \in Seq(Listable) /\ Distinct(HandTools)
         /\ \A i \in DOMAIN HandTools : AnyName(HandTools[i]) \in foreign
<1> DEFINE S == {ByHand(n) : n \in foreign}
           n == Cardinality(S)
           right(f) == f \in [1..n -> S] /\ IsInjective(f)
<1>1. IsFiniteSet(S)
  <2>1. IsFiniteSet(foreign)
    BY ForeignNamesAssumption, FS_Subset
  <2> DEFINE g == [m \in foreign |-> ByHand(m)]
  <2>2. g \in Surjection(foreign, S)
    BY DEF Surjection
  <2> QED BY <2>1, <2>2, FS_Surjection
<1>2. n \in Nat /\ ExistsBijection(1..n, S)
  BY <1>1, FS_CardinalityType
<1>3. \E f : right(f)
  BY <1>2 DEF ExistsBijection, Bijection, Injection
<1>4. HandTools \in [1..n -> S] /\ IsInjective(HandTools)
  BY <1>3 DEF HandTools, SetToSeq
<1> HIDE DEF n
<1>5. DOMAIN HandTools = 1..n
  BY <1>4
<1>6. ASSUME NEW i \in 1..n
      PROVE  \E m \in foreign : HandTools[i] = ByHand(m) /\ AnyName(HandTools[i]) = m
  <2>1. HandTools[i] \in S
    BY <1>4
  <2>2. PICK m \in foreign : HandTools[i] = ByHand(m)
    BY <2>1
  <2>3. AnyName(ByHand(m)) = m
    BY RegistrationsAssumption DEF AnyName, IsGenerated, ByHand
  <2> QED BY <2>2, <2>3
<1>7. Distinct(HandTools)
  <2> SUFFICES ASSUME NEW i \in 1..n, NEW j \in 1..n, AnyName(HandTools[i]) = AnyName(HandTools[j])
               PROVE  i = j
    BY <1>5 DEF Distinct
  <2>1. HandTools[i] = HandTools[j]
    BY <1>6
  <2> QED BY <1>4, <1>5, <2>1 DEF IsInjective
<1>8. S \subseteq Listable
  BY DEF ByHand, Listable
<1>9. HandTools \in Seq(Listable)
  <2>1. HandTools \in [1..n -> Listable]
    <3> HIDE DEF S
    <3> QED BY <1>4, <1>8
  <2> QED BY <1>2, <2>1
<1> QED BY <1>5, <1>6, <1>7, <1>9

\* A name looked up in a list of distinct names finds the tool that has it.
LEMMA NamedFinds ==
  ASSUME NEW tools \in Seq(Listable), Distinct(tools), NEW i \in DOMAIN tools
  PROVE  Named(tools, AnyName(tools[i])) = tools[i]
<1> DEFINE found == {j \in DOMAIN tools : AnyName(tools[j]) = AnyName(tools[i])}
<1>1. found = {i}
  BY DEF Distinct
<1>2. i \in Nat
  BY LenProperties
<1>3. (CHOOSE k \in found : \A j \in found : k <= j) = i
  <2> HIDE DEF found
  <2> QED BY <1>1, <1>2
<1>4. found # {}
  BY <1>1
<1> QED BY <1>3, <1>4 DEF Named

\* A name that finds a tool is that of one in the list.
LEMMA NamedIsListed ==
  ASSUME NEW tools, NEW name, Named(tools, name) # NoTable
  PROVE  \E i \in DOMAIN tools : AnyName(tools[i]) = name
BY DEF Named

-----------------------------------------------------------------------------
(* The registrations: types, what a table has, whose names are whose *)

\* The table that a registration adds to.
TableOf(r) == IF lang \in {"go", "typescript"} THEN Server ELSE FileOf[r]

\* The shape of the state, and the next tool of a registration is one it has.
Types ==
  /\ lang \in Languages
  /\ tables \in [Tables -> Seq(Generated)]
  /\ installed \in Seq(Tables)
  /\ pc \in [Registrations -> {"idle", "add", "hook", "install", "ok", "failed"}]
  /\ step \in [Registrations -> Nat \ {0}]
  /\ \A r \in Registrations : step[r] \in DOMAIN NamesOf[r]
  /\ foreign \subseteq ForeignNames
  /\ sessions \subseteq Sessions
  /\ bound \in [Sessions -> Files \cup {NoTable}]
  /\ marked \in [Files -> SUBSET Sessions]

\* A table has only tools there are, and all those that were added to it.
Served ==
  /\ \A f \in Tables : \A t \in ToSet(tables[f]) : t.at \in DOMAIN NamesOf[t.by]
  /\ \A r \in Registrations :
       \A i \in (IF pc[r] \in {"ok", "install"} THEN DOMAIN NamesOf[r] ELSE 1..(step[r] - 1)) :
         Tool(r, i) \in ToSet(tables[TableOf(r)])

\* The name that a Go registration has reserved and not added yet.
Pending(r) == NamesOf[r][step[r]]

\* No name is served twice, where the code looks before it adds.
Unique ==
  /\ lang # "typescript" => \A f \in Tables : OneNameEach(tables[f])
  /\ lang = "python" =>
       \A f \in Tables :
         /\ Names(tables[f]) \subseteq reserved
         /\ \A g \in Tables : f # g => Names(tables[f]) \cap Names(tables[g]) = {}
  /\ lang = "go" =>
       /\ Names(tables[Server]) \subseteq reserved \ foreign
       /\ \A r \in Registrations : pc[r] = "add" =>
            /\ Pending(r) \in reserved \ Names(tables[Server])
            /\ \A q \in Registrations : pc[q] = "add" /\ Pending(q) = Pending(r) => q = r

\* A registration of this file has begun.
Begun(f) == \E q \in Registrations : FileOf[q] = f /\ pc[q] # "idle"

\* Whose handlers are installed, and whose a session has.
Chained ==
  /\ lang # "typescript" => installed \in Seq(Files)
  /\ lang = "python" =>
       IsInjective(installed) /\ \A f \in Files : tables[f] # <<>> => f \in ToSet(installed)
  /\ lang = "typescript" => \A r \in Registrations : pc[r] = "ok" => installed # <<>>
  /\ lang \in {"java", "kotlin"} =>
       /\ \A k \in DOMAIN installed : Begun(installed[k])
       /\ \A s \in Sessions : bound[s] # NoTable => Begun(bound[s])

\* The invariant that the two properties of the lists follow from.
ListsInv == Types /\ Served /\ Unique /\ Chained

\* No tables, no handlers and no sessions at the start.
LEMMA ListsInit == Init => ListsInv
<1> SUFFICES ASSUME Init PROVE ListsInv
  OBVIOUS
<1>1. \A f \in Tables : tables[f] = <<>>
  BY DEF Init, Tables
<1>2. \A f \in Tables : DOMAIN tables[f] = {} /\ ToSet(tables[f]) = {} /\ Names(tables[f]) = {}
  <2>1. DOMAIN <<>> = {}
    OBVIOUS
  <2> QED BY <1>1, <2>1 DEF ToSet, Names
<1>3. \A r \in Registrations : pc[r] = "idle" /\ step[r] = 1 /\ 1 \in DOMAIN NamesOf[r]
  <2>1. ASSUME NEW r \in Registrations PROVE 1 \in DOMAIN NamesOf[r]
    <3>1. NamesOf[r] \in Seq(STRING) /\ NamesOf[r] # <<>>
      BY RegistrationsAssumption
    <3> QED BY <3>1, EmptySeq, LenProperties
  <2> QED BY <2>1 DEF Init
<1>4. Types
  <2>1. tables \in [Tables -> Seq(Generated)] /\ installed \in Seq(Tables)
    BY EmptySeq DEF Init, Tables
  <2>2. /\ pc \in [Registrations -> {"idle", "add", "hook", "install", "ok", "failed"}]
        /\ step \in [Registrations -> Nat \ {0}]
        /\ bound \in [Sessions -> Files \cup {NoTable}]
        /\ marked \in [Files -> SUBSET Sessions]
        /\ lang \in Languages /\ foreign \subseteq ForeignNames /\ sessions \subseteq Sessions
    BY DEF Init
  <2> QED BY <1>3, <2>1, <2>2 DEF Types
<1>5. Served
  BY <1>2, <1>3 DEF Served
<1>6. Unique
  <2>1. Server \in Tables
    BY DEF Tables
  <2> QED BY <1>2, <1>3, <2>1 DEF Unique, OneNameEach
<1>7. Chained
  <2>1. installed = <<>> /\ DOMAIN <<>> = {} /\ IsInjective(<<>>)
    BY DEF Init, IsInjective
  <2>2. \A s \in Sessions : bound[s] = NoTable
    BY DEF Init
  <2>3. Files \subseteq Tables
    BY DEF Tables
  <2> QED BY <1>1, <1>3, <2>1, <2>2, <2>3, EmptySeq DEF Chained
<1> QED BY <1>4, <1>5, <1>6, <1>7 DEF ListsInv

\* A table with one more tool.
LEMMA AppendFacts ==
  ASSUME NEW s \in Seq(Generated), NEW t \in Generated
  PROVE  /\ ToSet(Append(s, t)) = ToSet(s) \cup {t}
         /\ Names(Append(s, t)) = Names(s) \cup {NameOf(t)}
         /\ OneNameEach(s) /\ NameOf(t) \notin Names(s) => OneNameEach(Append(s, t))
<1>1. /\ Len(s) \in Nat /\ DOMAIN s = 1..Len(s) /\ DOMAIN Append(s, t) = 1..(Len(s) + 1)
      /\ \A i \in 1..Len(s) : Append(s, t)[i] = s[i]
      /\ Append(s, t)[Len(s) + 1] = t
  BY LenProperties
<1>2. 1..(Len(s) + 1) = 1..Len(s) \cup {Len(s) + 1}
  BY <1>1
<1>3. ToSet(Append(s, t)) = ToSet(s) \cup {t}
  BY <1>1, <1>2 DEF ToSet
<1>4. Names(Append(s, t)) = Names(s) \cup {NameOf(t)}
  BY <1>1, <1>2 DEF Names
<1>5. ASSUME OneNameEach(s), NameOf(t) \notin Names(s) PROVE OneNameEach(Append(s, t))
  <2>1. \A i \in 1..Len(s) : NameOf(s[i]) \in Names(s)
    BY <1>1 DEF Names
  <2> QED BY <1>1, <1>2, <1>5, <2>1 DEF OneNameEach
<1> QED BY <1>3, <1>4, <1>5

\* A table with the tools of a whole registration behind it.
LEMMA ConcatFacts ==
  ASSUME NEW s \in Seq(Generated), NEW u \in Seq(Generated)
  PROVE  /\ s \o u \in Seq(Generated)
         /\ ToSet(s \o u) = ToSet(s) \cup ToSet(u)
         /\ Names(s \o u) = Names(s) \cup Names(u)
         /\ OneNameEach(s) /\ OneNameEach(u) /\ Names(s) \cap Names(u) = {} => OneNameEach(s \o u)
<1>1. /\ Len(s) \in Nat /\ DOMAIN s = 1..Len(s) /\ Len(u) \in Nat /\ DOMAIN u = 1..Len(u)
      /\ s \o u \in Seq(Generated) /\ DOMAIN (s \o u) = 1..(Len(s) + Len(u))
      /\ \A i \in 1..(Len(s) + Len(u)) :
           (s \o u)[i] = IF i <= Len(s) THEN s[i] ELSE u[i - Len(s)]
  BY LenProperties, ConcatProperties
<1>2. /\ \A i \in 1..Len(s) : i \in 1..(Len(s) + Len(u)) /\ (s \o u)[i] = s[i]
      /\ \A i \in 1..Len(u) : i + Len(s) \in 1..(Len(s) + Len(u)) /\ (s \o u)[i + Len(s)] = u[i]
  BY <1>1
<1>3. \A i \in 1..(Len(s) + Len(u)) :
        \/ i \in 1..Len(s) /\ (s \o u)[i] = s[i]
        \/ i - Len(s) \in 1..Len(u) /\ (s \o u)[i] = u[i - Len(s)]
  BY <1>1
<1>4. ToSet(s \o u) = ToSet(s) \cup ToSet(u)
  BY <1>1, <1>2, <1>3 DEF ToSet
<1>5. Names(s \o u) = Names(s) \cup Names(u)
  BY <1>1, <1>2, <1>3 DEF Names
<1>6. ASSUME OneNameEach(s), OneNameEach(u), Names(s) \cap Names(u) = {} PROVE OneNameEach(s \o u)
  <2> SUFFICES ASSUME NEW i \in 1..(Len(s) + Len(u)), NEW j \in 1..(Len(s) + Len(u)),
                      NameOf((s \o u)[i]) = NameOf((s \o u)[j])
               PROVE  i = j
    BY <1>1 DEF OneNameEach
  <2>1. \A k \in 1..Len(s) : NameOf(s[k]) \in Names(s)
    BY <1>1 DEF Names
  <2>2. \A k \in 1..Len(u) : NameOf(u[k]) \in Names(u)
    BY <1>1 DEF Names
  <2>3. CASE i \in 1..Len(s) /\ j \in 1..Len(s)
    BY <1>1, <1>2, <1>6, <2>3 DEF OneNameEach
  <2>4. CASE i - Len(s) \in 1..Len(u) /\ j - Len(s) \in 1..Len(u)
    <3>1. (s \o u)[i] = u[i - Len(s)] /\ (s \o u)[j] = u[j - Len(s)]
      BY <1>1, <2>4
    <3>2. i - Len(s) = j - Len(s)
      BY <1>1, <1>6, <2>4, <3>1 DEF OneNameEach
    <3> QED BY <1>1, <3>2
  <2>5. CASE i \in 1..Len(s) /\ j - Len(s) \in 1..Len(u)
    <3>1. (s \o u)[i] = s[i] /\ (s \o u)[j] = u[j - Len(s)]
      BY <1>1, <2>5
    <3> QED BY <1>6, <2>1, <2>2, <2>5, <3>1
  <2>6. CASE i - Len(s) \in 1..Len(u) /\ j \in 1..Len(s)
    <3>1. (s \o u)[j] = s[j] /\ (s \o u)[i] = u[i - Len(s)]
      BY <1>1, <2>6
    <3> QED BY <1>6, <2>1, <2>2, <2>6, <3>1
  <2> QED BY <1>3, <2>3, <2>4, <2>5, <2>6
<1> QED BY <1>1, <1>4, <1>5, <1>6

\* The tools of r from the first to the n-th.
LEMMA FirstTools ==
  ASSUME NEW r \in Registrations, NEW n \in 0..Len(NamesOf[r])
  PROVE  LET first == [i \in 1..n |-> Tool(r, i)]
         IN  /\ first \in Seq(Generated) /\ DOMAIN first = 1..n
             /\ ToSet(first) = {Tool(r, i) : i \in 1..n}
             /\ Names(first) = {NamesOf[r][i] : i \in 1..n}
             /\ 1..n \subseteq DOMAIN NamesOf[r] /\ DOMAIN NamesOf[r] = 1..Len(NamesOf[r])
<1> DEFINE first == [i \in 1..n |-> Tool(r, i)]
<1>1. DOMAIN NamesOf[r] = 1..Len(NamesOf[r]) /\ Len(NamesOf[r]) \in Nat
  BY RegistrationsAssumption, LenProperties
<1>2. \A i \in 1..n : first[i] = Tool(r, i) /\ Tool(r, i) \in Generated
                      /\ NameOf(first[i]) = NamesOf[r][i]
  BY <1>1, ToolFacts
<1>3. first \in [1..n -> Generated] /\ n \in Nat
  BY <1>1, <1>2
<1>4. first \in Seq(Generated)
  BY <1>3
<1>5. ToSet(first) = {Tool(r, i) : i \in 1..n}
  BY <1>2 DEF ToSet
<1>6. Names(first) = {NamesOf[r][i] : i \in 1..n}
  BY <1>2 DEF Names
<1> QED BY <1>1, <1>3, <1>4, <1>5, <1>6

\* Python adds up to the first name that is taken.
LEMMA FreshFacts ==
  ASSUME NEW r \in Registrations, NEW taken
  PROVE  /\ Fresh(r, taken) \in 0..Len(NamesOf[r])
         /\ \A i \in 1..Fresh(r, taken) :
              /\ NamesOf[r][i] \notin taken
              /\ \A j \in 1..Fresh(r, taken) : NamesOf[r][i] = NamesOf[r][j] => i = j
<1> DEFINE names == NamesOf[r]
           clash(i) == names[i] \in taken \cup {names[j] : j \in 1..(i - 1)}
           clashes == {i \in DOMAIN names : clash(i)}
           least == CHOOSE i \in clashes : \A j \in clashes : i <= j
           fresh == Fresh(r, taken)
<1>1. Len(names) \in Nat /\ DOMAIN names = 1..Len(names)
  BY RegistrationsAssumption, LenProperties
<1>2. fresh = IF clashes = {} THEN Len(names) ELSE least - 1
  BY DEF Fresh
<1>3. clashes \in SUBSET Nat
  BY <1>1
<1>4. clashes # {} => least \in clashes /\ \A j \in clashes : least <= j
  <2> HIDE DEF clashes
  <2> QED BY <1>3, LeastNatural
<1>5. clashes # {} => least \in 1..Len(names)
  <2> HIDE DEF least
  <2> QED BY <1>1, <1>4
<1> HIDE DEF least
<1>6. fresh \in 0..Len(names)
  BY <1>1, <1>2, <1>5
<1>7. ASSUME NEW i \in 1..fresh PROVE i \in 1..Len(names) /\ ~clash(i)
  <2>1. i \in 1..Len(names)
    BY <1>1, <1>6
  <2>2. clashes # {} => ~(least <= i)
    BY <1>1, <1>2, <1>5, <2>1
  <2>3. i \notin clashes
    <3> HIDE DEF clashes
    <3> QED BY <1>4, <2>2
  <2> QED BY <1>1, <2>1, <2>3
<1>8. ASSUME NEW i \in 1..fresh, NEW j \in 1..fresh, names[i] = names[j] PROVE i = j
  <2>1. i \in Nat /\ j \in Nat
    BY <1>1, <1>7
  <2>2. ~(i < j)
    <3>1. i < j => i \in 1..(j - 1)
      BY <1>1, <1>7
    <3> QED BY <1>7, <1>8, <3>1
  <2>3. ~(j < i)
    <3>1. j < i => j \in 1..(i - 1)
      BY <1>1, <1>7
    <3> QED BY <1>7, <1>8, <3>1
  <2> QED BY <2>1, <2>2, <2>3
<1> QED BY <1>6, <1>7, <1>8

-----------------------------------------------------------------------------
(* The steps of the registrations *)

\* The table of a file is not the one table of Go and TypeScript.
LEMMA FileFacts ==
  ASSUME NEW r \in Registrations
  PROVE  FileOf[r] \in Files /\ FileOf[r] \in Tables /\ Server \in Tables /\ Server \notin Files
BY RegistrationsAssumption DEF Files, Tables

\* Install puts a table into the chain once.
LEMMA InstallFacts ==
  ASSUME NEW S, installed \in Seq(S), NEW f \in S
  PROVE  /\ Install(f) \in Seq(S) /\ Install(f) # <<>>
         /\ ToSet(Install(f)) = ToSet(installed) \cup {f}
         /\ IsInjective(installed) => IsInjective(Install(f))
<1>1. /\ Len(installed) \in Nat /\ DOMAIN installed = 1..Len(installed)
      /\ Append(installed, f) \in Seq(S) /\ DOMAIN Append(installed, f) = 1..(Len(installed) + 1)
      /\ \A i \in 1..Len(installed) : Append(installed, f)[i] = installed[i]
      /\ Append(installed, f)[Len(installed) + 1] = f
  BY LenProperties
<1>2. CASE f \in ToSet(installed)
  <2>1. Install(f) = installed
    BY <1>2 DEF Install, IsInstalled
  <2>2. installed # <<>>
    <3>1. ToSet(<<>>) = {}
      BY DEF ToSet
    <3> QED BY <1>2, <3>1
  <2> QED BY <1>2, <2>1, <2>2
<1>3. CASE f \notin ToSet(installed)
  <2>1. Install(f) = Append(installed, f)
    BY <1>3 DEF Install, IsInstalled
  <2>2. 1..(Len(installed) + 1) = 1..Len(installed) \cup {Len(installed) + 1}
    BY <1>1
  <2>3. ToSet(Append(installed, f)) = ToSet(installed) \cup {f}
    BY <1>1, <2>2 DEF ToSet
  <2>4. Append(installed, f) # <<>>
    BY <1>1
  <2>5. \A i \in 1..Len(installed) : installed[i] # f
    BY <1>1, <1>3 DEF ToSet
  <2>6. IsInjective(installed) => IsInjective(Append(installed, f))
    BY <1>1, <2>2, <2>5 DEF IsInjective
  <2> QED BY <1>1, <2>1, <2>3, <2>4, <2>6
<1> QED BY <1>2, <1>3

\* What each registration has added is still there when tables only grow.
Covers(q, has) ==
  \A i \in (IF pc[q] \in {"ok", "install"} THEN DOMAIN NamesOf[q] ELSE 1..(step[q] - 1)) :
    Tool(q, i) \in has

\* Tables that only grow keep serving what was registered.
LEMMA ServedGrows ==
  ASSUME Types, Served, lang' = lang,
         \A f \in Tables :
           /\ ToSet(tables[f]) \subseteq ToSet(tables'[f])
           /\ \A t \in ToSet(tables'[f]) : t \in ToSet(tables[f]) \/ t.at \in DOMAIN NamesOf[t.by],
         \A q \in Registrations :
           \/ step'[q] = step[q] /\ (pc'[q] \in {"ok", "install"} => pc[q] \in {"ok", "install"})
           \/ Covers(q, ToSet(tables[TableOf(q)]))'
  PROVE  Served'
<1>1. ASSUME NEW f \in Tables, NEW t \in ToSet(tables'[f]) PROVE t.at \in DOMAIN NamesOf[t.by]
  BY DEF Served
<1>2. ASSUME NEW q \in Registrations PROVE Covers(q, ToSet(tables[TableOf(q)]))'
  <2>1. TableOf(q)' = TableOf(q) /\ TableOf(q) \in Tables
    BY FileFacts DEF TableOf
  <2>2. ASSUME step'[q] = step[q], pc'[q] \in {"ok", "install"} => pc[q] \in {"ok", "install"}
        PROVE  Covers(q, ToSet(tables[TableOf(q)]))'
    <3>1. step[q] \in DOMAIN NamesOf[q] /\ step[q] \in Nat \ {0}
      BY DEF Types
    <3>2. 1..(step[q] - 1) \subseteq DOMAIN NamesOf[q]
      <4>1. DOMAIN NamesOf[q] = 1..Len(NamesOf[q]) /\ Len(NamesOf[q]) \in Nat
        BY RegistrationsAssumption, LenProperties
      <4> QED BY <3>1, <4>1
    <3>3. Covers(q, ToSet(tables[TableOf(q)]))
      BY DEF Served, Covers
    <3> QED BY <2>1, <2>2, <3>2, <3>3 DEF Covers
  <2> QED BY <2>2
<1> QED BY <1>1, <1>2 DEF Served, Covers, ToSet

\* Python: names that no module had reserved, and handlers chained before the tools.
LEMMA RegisterPythonStep ==
  ASSUME ListsInv, NEW r \in Registrations, RegisterPython(r)
  PROVE  ListsInv'
<1> USE DEF ListsInv
<1> DEFINE file == FileOf[r]
           fresh == Fresh(r, reserved)
           first == [i \in 1..fresh |-> Tool(r, i)]
           new == {NamesOf[r][i] : i \in 1..fresh}
<1>1. /\ lang = "python" /\ pc[r] = "idle"
      /\ installed' = Install(file)
      /\ tables' = [tables EXCEPT ![file] = @ \o first]
      /\ reserved' = reserved \cup new
      /\ pc' = [pc EXCEPT ![r] = IF fresh = Len(NamesOf[r]) THEN "ok" ELSE "failed"]
      /\ UNCHANGED <<lang, foreign, sessions, bound, marked, step>>
  BY DEF RegisterPython
<1>2. fresh \in 0..Len(NamesOf[r])
      /\ \A i \in 1..fresh : /\ NamesOf[r][i] \notin reserved
                             /\ \A j \in 1..fresh : NamesOf[r][i] = NamesOf[r][j] => i = j
  BY FreshFacts
<1>3. /\ first \in Seq(Generated) /\ DOMAIN first = 1..fresh
      /\ ToSet(first) = {Tool(r, i) : i \in 1..fresh} /\ Names(first) = new
      /\ 1..fresh \subseteq DOMAIN NamesOf[r] /\ DOMAIN NamesOf[r] = 1..Len(NamesOf[r])
  BY <1>2, FirstTools
<1>4. OneNameEach(first)
  <2>1. \A i \in 1..fresh : NameOf(first[i]) = NamesOf[r][i]
    BY <1>2, <1>3, ToolFacts
  <2> QED BY <1>2, <1>3, <2>1 DEF OneNameEach
<1>5. file \in Files /\ file \in Tables /\ tables \in [Tables -> Seq(Generated)]
      /\ installed \in Seq(Files)
  BY <1>1, FileFacts DEF Types, Chained
<1> HIDE DEF file, fresh, first, new
<1>6. /\ tables[file] \o first \in Seq(Generated)
      /\ ToSet(tables[file] \o first) = ToSet(tables[file]) \cup ToSet(first)
      /\ Names(tables[file] \o first) = Names(tables[file]) \cup new
  BY <1>3, <1>5, ConcatFacts
<1>7. /\ tables'[file] = tables[file] \o first
      /\ \A f \in Tables : f # file => tables'[f] = tables[f]
  BY <1>1, <1>5
<1>8. /\ Install(file) \in Seq(Files) /\ Install(file) \in Seq(Tables) /\ Install(file) # <<>>
      /\ ToSet(Install(file)) = ToSet(installed) \cup {file}
      /\ IsInjective(installed) => IsInjective(Install(file))
  <2>1. Files \subseteq Tables
    BY DEF Tables
  <2> QED BY <1>5, <2>1, InstallFacts, SeqMonotonic
<1>9. Types'
  <2>1. tables' \in [Tables -> Seq(Generated)]
    BY <1>1, <1>5, <1>6
  <2>2. pc' \in [Registrations -> {"idle", "add", "hook", "install", "ok", "failed"}]
    BY <1>1 DEF Types
  <2>3. installed' \in Seq(Tables)
    BY <1>1, <1>8
  <2>4. lang' = lang /\ foreign' = foreign /\ sessions' = sessions /\ bound' = bound
        /\ marked' = marked /\ step' = step
    BY <1>1
  <2> QED BY <2>1, <2>2, <2>3, <2>4 DEF Types
<1>10. Served'
  <2>1. ASSUME NEW f \in Tables
        PROVE  /\ ToSet(tables[f]) \subseteq ToSet(tables'[f])
               /\ \A t \in ToSet(tables'[f]) : t \in ToSet(tables[f]) \/ t.at \in DOMAIN NamesOf[t.by]
    <3>1. \A t \in ToSet(first) : t.at \in DOMAIN NamesOf[t.by]
      BY <1>3 DEF Tool
    <3> QED BY <1>6, <1>7, <3>1
  <2>2. ASSUME NEW q \in Registrations
        PROVE  \/ step'[q] = step[q] /\ (pc'[q] \in {"ok", "install"} => pc[q] \in {"ok", "install"})
               \/ Covers(q, ToSet(tables[TableOf(q)]))'
    <3>1. CASE q = r /\ fresh = Len(NamesOf[r])
      <4>1. pc'[r] = "ok" /\ TableOf(r)' = file
        BY <1>1, <3>1 DEF Types, TableOf, file
      <4>2. \A i \in DOMAIN NamesOf[r] : Tool(r, i) \in ToSet(first)
        BY <1>3, <3>1
      <4> QED BY <1>6, <1>7, <3>1, <4>1, <4>2 DEF Covers
    <3>2. CASE ~(q = r /\ fresh = Len(NamesOf[r]))
      BY <1>1, <3>2 DEF Types
    <3> QED BY <3>1, <3>2
  <2> QED BY <1>1, <2>1, <2>2, ServedGrows
<1>11. Unique'
  <2>1. new \cap reserved = {}
    BY <1>2 DEF new
  <2>2. \A f \in Tables :
          /\ OneNameEach(tables[f]) /\ Names(tables[f]) \subseteq reserved
          /\ \A g \in Tables : f # g => Names(tables[f]) \cap Names(tables[g]) = {}
    BY <1>1 DEF Unique
  <2>3. OneNameEach(tables[file] \o first)
    BY <1>3, <1>4, <1>5, <2>1, <2>2, ConcatFacts
  <2>4. \A f \in Tables : Names(tables'[f]) = IF f = file THEN Names(tables[f]) \cup new
                                                          ELSE Names(tables[f])
    BY <1>6, <1>7
  <2>5. ASSUME NEW f \in Tables
        PROVE  OneNameEach(tables'[f]) /\ Names(tables'[f]) \subseteq reserved'
    <3>1. CASE f = file
      <4>1. tables'[f] = tables[file] \o first
        BY <1>7, <3>1
      <4>2. OneNameEach(tables'[f])
        BY <2>3, <4>1
      <4>3. Names(tables'[f]) \subseteq Names(tables[f]) \cup new
        BY <2>4
      <4>4. Names(tables[f]) \subseteq reserved
        BY <2>2
      <4>5. Names(tables'[f]) \subseteq reserved'
        BY <1>1, <4>3, <4>4
      <4> QED BY <4>2, <4>5
    <3>2. CASE f # file
      <4>1. tables'[f] = tables[f]
        BY <1>7, <3>2
      <4> QED BY <1>1, <2>2, <4>1
    <3> QED BY <3>1, <3>2
  <2>6. \A f, g \in Tables : f # g => Names(tables'[f]) \cap Names(tables'[g]) = {}
    BY <2>1, <2>2, <2>4
  <2> QED BY <1>1, <2>5, <2>6 DEF Unique, OneNameEach, Names
<1>12. Chained'
  <2>1. \A f \in Files : tables'[f] # <<>> => f \in ToSet(installed')
    <3>1. Files \subseteq Tables
      BY DEF Tables
    <3>2. ToSet(installed') = ToSet(installed) \cup {file}
      BY <1>1, <1>8
    <3>3. \A f \in Files : tables[f] # <<>> => f \in ToSet(installed)
      BY <1>1 DEF Chained
    <3> QED BY <1>7, <3>1, <3>2, <3>3
  <2>2. IsInjective(installed') /\ installed' \in Seq(Files)
    BY <1>1, <1>8 DEF Chained
  <2>3. lang' = "python"
    BY <1>1
  <2> QED BY <2>1, <2>2, <2>3 DEF Chained
<1> QED BY <1>9, <1>10, <1>11, <1>12

\* TypeScript: all the tools at once, or none.
LEMMA RegisterTypeScriptStep ==
  ASSUME ListsInv, NEW r \in Registrations, RegisterTypeScript(r)
  PROVE  ListsInv'
<1> USE DEF ListsInv
<1> DEFINE all == [i \in DOMAIN NamesOf[r] |-> Tool(r, i)]
<1>1. /\ lang = "typescript" /\ pc[r] = "idle"
      /\ UNCHANGED <<lang, foreign, reserved, sessions, bound, marked, step>>
  BY DEF RegisterTypeScript
<1>2. \/ pc' = [pc EXCEPT ![r] = "failed"] /\ UNCHANGED <<tables, installed>>
      \/ /\ pc' = [pc EXCEPT ![r] = "ok"] /\ installed' = Install(Server)
         /\ tables' = [tables EXCEPT ![Server] = @ \o all]
  BY DEF RegisterTypeScript
<1>3. /\ all \in Seq(Generated) /\ ToSet(all) = {Tool(r, i) : i \in DOMAIN NamesOf[r]}
  <2>1. Len(NamesOf[r]) \in Nat /\ DOMAIN NamesOf[r] = 1..Len(NamesOf[r])
    BY RegistrationsAssumption, LenProperties
  <2>2. Len(NamesOf[r]) \in 0..Len(NamesOf[r])
    BY <2>1
  <2> QED BY <2>1, <2>2, FirstTools
<1> HIDE DEF all
<1>4. Server \in Tables /\ tables \in [Tables -> Seq(Generated)] /\ installed \in Seq(Tables)
  BY FileFacts DEF Types
<1>5. tables[Server] \o all \in Seq(Generated)
      /\ ToSet(tables[Server] \o all) = ToSet(tables[Server]) \cup ToSet(all)
  BY <1>3, <1>4, ConcatFacts
<1>6. Install(Server) \in Seq(Tables) /\ Install(Server) # <<>>
  BY <1>4, InstallFacts
<1>7. pc' \in [Registrations -> {"idle", "add", "hook", "install", "ok", "failed"}]
  BY <1>2 DEF Types
<1>8. Types'
  <2>1. tables' \in [Tables -> Seq(Generated)]
    BY <1>2, <1>4, <1>5
  <2>2. installed' \in Seq(Tables)
    BY <1>2, <1>4, <1>6
  <2>3. /\ lang' = lang /\ foreign' = foreign /\ sessions' = sessions /\ bound' = bound
        /\ marked' = marked /\ step' = step
    BY <1>1
  <2> QED BY <1>7, <2>1, <2>2, <2>3 DEF Types
<1>9. Served'
  <2>1. ASSUME NEW f \in Tables
        PROVE  /\ ToSet(tables[f]) \subseteq ToSet(tables'[f])
               /\ \A t \in ToSet(tables'[f]) : t \in ToSet(tables[f]) \/ t.at \in DOMAIN NamesOf[t.by]
    <3>1. \A t \in ToSet(all) : t.at \in DOMAIN NamesOf[t.by]
      BY <1>3 DEF Tool
    <3>2. CASE tables'[f] = tables[f]
      BY <3>2
    <3>3. CASE tables'[f] = tables[Server] \o all /\ f = Server
      BY <1>5, <3>1, <3>3
    <3> QED BY <1>2, <1>4, <3>2, <3>3
  <2>2. ASSUME NEW q \in Registrations
        PROVE  \/ step'[q] = step[q] /\ (pc'[q] \in {"ok", "install"} => pc[q] \in {"ok", "install"})
               \/ Covers(q, ToSet(tables[TableOf(q)]))'
    <3>1. CASE q = r /\ tables' = [tables EXCEPT ![Server] = @ \o all] /\ pc' = [pc EXCEPT ![r] = "ok"]
      <4>1. pc'[r] = "ok" /\ TableOf(r)' = Server
        BY <1>1, <3>1 DEF Types, TableOf
      <4>2. tables'[Server] = tables[Server] \o all
        BY <1>4, <3>1
      <4>3. \A i \in DOMAIN NamesOf[r] : Tool(r, i) \in ToSet(tables'[Server])
        BY <1>3, <1>5, <4>2
      <4> QED BY <3>1, <4>1, <4>3 DEF Covers
    <3>2. CASE q # r \/ pc' = [pc EXCEPT ![r] = "failed"]
      BY <1>1, <1>2, <3>2 DEF Types
    <3> QED BY <1>2, <3>1, <3>2
  <2> QED BY <1>1, <2>1, <2>2, ServedGrows
<1>10. Unique'
  BY <1>1 DEF Unique
<1>11. Chained'
  <2>1. ASSUME NEW q \in Registrations, pc'[q] = "ok" PROVE installed' # <<>>
    BY <1>1, <1>2, <1>6, <2>1 DEF Types, Chained
  <2> QED BY <1>1, <2>1 DEF Chained
<1> QED BY <1>8, <1>9, <1>10, <1>11

\* A registration goes on: the tools up to the one it is at are now those it has added.
LEMMA AdvanceFacts ==
  ASSUME Types, NEW r \in Registrations, Advance(r)
  PROVE  /\ pc' \in [Registrations -> {"idle", "add", "hook", "install", "ok", "failed"}]
         /\ step' \in [Registrations -> Nat \ {0}]
         /\ \A q \in Registrations : step'[q] \in DOMAIN NamesOf[q]
         /\ \A q \in Registrations : q # r => pc'[q] = pc[q] /\ step'[q] = step[q]
         /\ pc'[r] = "idle" => lang = "go"
         /\ pc'[r] = "add" => lang # "go"
         /\ (IF pc'[r] \in {"ok", "install"} THEN DOMAIN NamesOf[r] ELSE 1..(step'[r] - 1)) = 1..step[r]
<1>1. /\ DOMAIN NamesOf[r] = 1..Len(NamesOf[r]) /\ Len(NamesOf[r]) \in Nat
      /\ step[r] \in DOMAIN NamesOf[r] /\ step[r] \in Nat \ {0}
  BY RegistrationsAssumption, LenProperties DEF Types
<1>2. /\ pc \in [Registrations -> {"idle", "add", "hook", "install", "ok", "failed"}]
      /\ step \in [Registrations -> Nat \ {0}]
      /\ \A q \in Registrations : step[q] \in DOMAIN NamesOf[q]
  BY DEF Types
<1>3. CASE step[r] = Len(NamesOf[r])
  <2>1. pc' = [pc EXCEPT ![r] = IF lang = "java" THEN "install" ELSE "ok"] /\ step' = step
    BY <1>3 DEF Advance
  <2>2. pc'[r] \in {"ok", "install"}
    BY <1>2, <2>1
  <2>3. \A q \in Registrations : q # r => pc'[q] = pc[q] /\ step'[q] = step[q]
    BY <1>2, <2>1
  <2>4. pc' \in [Registrations -> {"idle", "add", "hook", "install", "ok", "failed"}]
    BY <1>2, <2>1
  <2>5. pc'[r] # "idle" /\ pc'[r] # "add"
    BY <2>2
  <2>6. DOMAIN NamesOf[r] = 1..step[r]
    BY <1>1, <1>3
  <2>7. (IF pc'[r] \in {"ok", "install"} THEN DOMAIN NamesOf[r] ELSE 1..(step'[r] - 1)) = 1..step[r]
    BY <2>2, <2>6
  <2>8. step' \in [Registrations -> Nat \ {0}] /\ \A q \in Registrations : step'[q] \in DOMAIN NamesOf[q]
    BY <1>2, <2>1
  <2> QED BY <2>3, <2>4, <2>5, <2>7, <2>8
<1>4. CASE step[r] # Len(NamesOf[r])
  <2>1. /\ pc' = [pc EXCEPT ![r] = IF lang = "go" THEN "idle" ELSE "add"]
        /\ step' = [step EXCEPT ![r] = @ + 1]
    BY <1>4 DEF Advance
  <2>2. pc'[r] = (IF lang = "go" THEN "idle" ELSE "add") /\ step'[r] = step[r] + 1
    BY <1>2, <2>1
  <2>3. step[r] + 1 \in 1..Len(NamesOf[r]) /\ step[r] + 1 \in Nat \ {0}
    BY <1>1, <1>4
  <2>4. \A q \in Registrations : q # r => pc'[q] = pc[q] /\ step'[q] = step[q]
    BY <1>2, <2>1
  <2>5. step' \in [Registrations -> Nat \ {0}]
    BY <1>2, <2>1, <2>3
  <2>6. pc' \in [Registrations -> {"idle", "add", "hook", "install", "ok", "failed"}]
    BY <1>2, <2>1
  <2>7. \A q \in Registrations : step'[q] \in DOMAIN NamesOf[q]
    BY <1>1, <1>2, <2>2, <2>3, <2>4
  <2>8. step'[r] - 1 = step[r] /\ pc'[r] \notin {"ok", "install"}
    BY <1>1, <2>2
  <2>9. (IF pc'[r] \in {"ok", "install"} THEN DOMAIN NamesOf[r] ELSE 1..(step'[r] - 1)) = 1..step[r]
    BY <2>8
  <2>10. (pc'[r] = "idle" => lang = "go") /\ (pc'[r] = "add" => lang # "go")
    BY <2>2
  <2> QED BY <2>4, <2>5, <2>6, <2>7, <2>9, <2>10
<1> QED BY <1>3, <1>4

\* One more tool in a table: what AddGo and AddToTable do.
LEMMA OneMoreTool ==
  ASSUME Types, Served, NEW r \in Registrations, Advance(r), lang' = lang,
         tables' = [tables EXCEPT ![TableOf(r)] = Append(@, Tool(r, step[r]))]
  PROVE  /\ tables' \in [Tables -> Seq(Generated)] /\ Served' /\ TableOf(r) \in Tables
         /\ \A f \in Tables : f # TableOf(r) => tables'[f] = tables[f]
         /\ Names(tables'[TableOf(r)]) = Names(tables[TableOf(r)]) \cup {Pending(r)}
         /\ OneNameEach(tables[TableOf(r)]) /\ Pending(r) \notin Names(tables[TableOf(r)])
              => OneNameEach(tables'[TableOf(r)])
<1> DEFINE f == TableOf(r)
           tool == Tool(r, step[r])
<1>1. f \in Tables
  BY FileFacts DEF TableOf
<1>2. /\ tables \in [Tables -> Seq(Generated)]
      /\ step[r] \in Nat \ {0} /\ step[r] \in DOMAIN NamesOf[r]
  BY DEF Types
<1>3. tool \in Generated /\ NameOf(tool) = Pending(r) /\ tool.by = r /\ tool.at = step[r]
  BY <1>2, ToolFacts DEF Pending
<1>4. tables' = [tables EXCEPT ![f] = Append(@, tool)]
  OBVIOUS
<1> HIDE DEF f, tool
<1>5. tables'[f] = Append(tables[f], tool) /\ \A g \in Tables : g # f => tables'[g] = tables[g]
  BY <1>1, <1>2, <1>4
<1>6. /\ Append(tables[f], tool) \in Seq(Generated)
      /\ ToSet(Append(tables[f], tool)) = ToSet(tables[f]) \cup {tool}
      /\ Names(Append(tables[f], tool)) = Names(tables[f]) \cup {NameOf(tool)}
      /\ OneNameEach(tables[f]) /\ NameOf(tool) \notin Names(tables[f])
           => OneNameEach(Append(tables[f], tool))
  <2>1. tables[f] \in Seq(Generated)
    BY <1>1, <1>2
  <2>2. Append(tables[f], tool) \in Seq(Generated)
    BY <1>3, <2>1, AppendProperties
  <2> QED BY <1>3, <2>1, <2>2, AppendFacts
<1>7. tables' \in [Tables -> Seq(Generated)]
  BY <1>1, <1>2, <1>4, <1>6
<1>8. Served'
  <2>1. ASSUME NEW g \in Tables
        PROVE  /\ ToSet(tables[g]) \subseteq ToSet(tables'[g])
               /\ \A t \in ToSet(tables'[g]) : t \in ToSet(tables[g]) \/ t.at \in DOMAIN NamesOf[t.by]
    BY <1>2, <1>3, <1>5, <1>6
  <2>2. ASSUME NEW q \in Registrations
        PROVE  \/ step'[q] = step[q] /\ (pc'[q] \in {"ok", "install"} => pc[q] \in {"ok", "install"})
               \/ Covers(q, ToSet(tables[TableOf(q)]))'
    <3>1. CASE q = r
      <4>1. \A i \in 1..(step[r] - 1) : Tool(r, i) \in ToSet(tables[f])
        <5>1. Covers(r, ToSet(tables[f]))
          BY DEF Served, Covers, f
        <5>2. 1..(step[r] - 1) \subseteq DOMAIN NamesOf[r]
          <6>1. DOMAIN NamesOf[r] = 1..Len(NamesOf[r]) /\ Len(NamesOf[r]) \in Nat
            BY RegistrationsAssumption, LenProperties
          <6> QED BY <1>2, <6>1
        <5> QED BY <5>1, <5>2 DEF Covers
      <4>2. 1..step[r] = 1..(step[r] - 1) \cup {step[r]}
        BY <1>2
      <4>3. \A i \in 1..step[r] : Tool(r, i) \in ToSet(tables'[f])
        BY <1>5, <1>6, <4>1, <4>2 DEF tool
      <4>4. TableOf(r)' = f
        BY DEF TableOf, f
      <4> QED BY <3>1, <4>3, <4>4, AdvanceFacts DEF Covers
    <3>2. CASE q # r
      BY <3>2, AdvanceFacts
    <3> QED BY <3>1, <3>2
  <2> QED BY <2>1, <2>2, ServedGrows
<1> QED BY <1>1, <1>3, <1>5, <1>6, <1>7, <1>8 DEF f

\* Go: a name that is reserved is pending for one registration only.
LEMMA ReserveGoStep ==
  ASSUME ListsInv, NEW r \in Registrations, ReserveGo(r)
  PROVE  ListsInv'
<1> USE DEF ListsInv
<1>1. /\ lang = "go" /\ pc[r] = "idle"
      /\ UNCHANGED <<lang, foreign, tables, installed, sessions, bound, marked, step>>
  BY DEF ReserveGo
<1>2. \/ Pending(r) \in reserved /\ pc' = [pc EXCEPT ![r] = "failed"] /\ reserved' = reserved
      \/ /\ Pending(r) \notin reserved /\ pc' = [pc EXCEPT ![r] = "add"]
         /\ reserved' = reserved \cup {Pending(r)}
  BY DEF ReserveGo, Pending
<1>3. /\ pc' \in [Registrations -> {"idle", "add", "hook", "install", "ok", "failed"}]
      /\ pc'[r] \in {"failed", "add"} /\ (pc'[r] = "add" => reserved' = reserved \cup {Pending(r)})
      /\ \A q \in Registrations : q # r => pc'[q] = pc[q]
  BY <1>2 DEF Types
<1>4. Types'
  BY <1>1, <1>3 DEF Types
<1>5. Served'
  <2>1. \A q \in Registrations :
          step'[q] = step[q] /\ (pc'[q] \in {"ok", "install"} => pc[q] \in {"ok", "install"})
    BY <1>1, <1>3
  <2> QED BY <1>1, <2>1, ServedGrows
<1>6. Unique'
  <2>1. /\ Names(tables[Server]) \subseteq reserved \ foreign /\ OneNameEach(tables[Server])
        /\ \A f \in Tables : OneNameEach(tables[f])
    BY <1>1, FileFacts DEF Unique, Tables
  <2>2. \A q \in Registrations : pc[q] = "add" =>
          /\ Pending(q) \in reserved \ Names(tables[Server])
          /\ \A p \in Registrations : pc[p] = "add" /\ Pending(p) = Pending(q) => p = q
    BY <1>1 DEF Unique
  <2>3. \A q \in Registrations : Pending(q)' = Pending(q)
    BY <1>1 DEF Pending
  <2>4. Names(tables[Server]) \subseteq reserved' \ foreign
    BY <1>2, <2>1
  <2>5. ASSUME NEW q \in Registrations, pc'[q] = "add"
        PROVE  Pending(q) \in reserved' \ Names(tables[Server])
    BY <1>2, <1>3, <2>1, <2>2, <2>5
  <2>6. ASSUME NEW q \in Registrations, pc'[q] = "add",
               NEW p \in Registrations, pc'[p] = "add", Pending(p) = Pending(q)
        PROVE  p = q
    <3>1. ASSUME NEW a \in Registrations, pc'[a] = "add", a # r, pc'[r] = "add"
          PROVE  Pending(a) # Pending(r)
      <4>1. pc[a] = "add" /\ Pending(r) \notin reserved
        BY <1>2, <1>3, <3>1
      <4> QED BY <2>2, <4>1
    <3>2. CASE p = r \/ q = r
      BY <2>6, <3>1, <3>2
    <3>3. CASE p # r /\ q # r
      BY <1>3, <2>2, <2>6, <3>3
    <3> QED BY <3>2, <3>3
  <2> QED BY <1>1, <2>1, <2>3, <2>4, <2>5, <2>6 DEF Unique, OneNameEach, Names
<1>7. Chained'
  BY <1>1 DEF Chained
<1> QED BY <1>4, <1>5, <1>6, <1>7

\* Go: a pending name is not in the table, so that AddTool replaces nothing.
LEMMA AddGoStep ==
  ASSUME ListsInv, NEW r \in Registrations, AddGo(r)
  PROVE  ListsInv'
<1> USE DEF ListsInv
<1>1. /\ lang = "go" /\ pc[r] = "add" /\ TableOf(r) = Server
      /\ tables' = [tables EXCEPT ![Server] = Placed(@, Tool(r, step[r]))]
      /\ foreign' = foreign \ {Pending(r)}
      /\ Advance(r)
      /\ UNCHANGED <<lang, reserved, installed, sessions, bound, marked>>
  BY DEF AddGo, Pending, TableOf
<1>2. /\ Names(tables[Server]) \subseteq reserved \ foreign
      /\ Server \in Tables /\ \A f \in Tables : OneNameEach(tables[f])
  BY <1>1, FileFacts DEF Unique
<1>3. \A q \in Registrations : pc[q] = "add" =>
        /\ Pending(q) \in reserved \ Names(tables[Server])
        /\ \A p \in Registrations : pc[p] = "add" /\ Pending(p) = Pending(q) => p = q
  BY <1>1 DEF Unique
<1>4. Pending(r) \in reserved /\ Pending(r) \notin Names(tables[Server])
  BY <1>1, <1>3
<1>5. tables' = [tables EXCEPT ![TableOf(r)] = Append(@, Tool(r, step[r]))]
  <2>1. NameOf(Tool(r, step[r])) = Pending(r)
    BY ToolFacts DEF Types, Pending
  <2> QED BY <1>1, <1>4, <2>1 DEF Placed
<1>6. /\ tables' \in [Tables -> Seq(Generated)] /\ Served'
      /\ \A f \in Tables : f # Server => tables'[f] = tables[f]
      /\ Names(tables'[Server]) = Names(tables[Server]) \cup {Pending(r)}
      /\ OneNameEach(tables'[Server])
  BY <1>1, <1>2, <1>4, <1>5, OneMoreTool
<1>7. /\ pc' \in [Registrations -> {"idle", "add", "hook", "install", "ok", "failed"}]
      /\ step' \in [Registrations -> Nat \ {0}]
      /\ \A q \in Registrations : step'[q] \in DOMAIN NamesOf[q]
      /\ \A q \in Registrations : q # r => pc'[q] = pc[q] /\ step'[q] = step[q]
      /\ pc'[r] # "add"
  BY <1>1, AdvanceFacts
<1>8. Types'
  <2>1. foreign' \subseteq ForeignNames
    BY <1>1 DEF Types
  <2> QED BY <1>1, <1>6, <1>7, <2>1 DEF Types
<1>9. Unique'
  <2>1. Names(tables'[Server]) \subseteq reserved' \ foreign'
    BY <1>1, <1>2, <1>4, <1>6
  <2>2. ASSUME NEW q \in Registrations, pc'[q] = "add"
        PROVE  /\ q # r /\ pc[q] = "add" /\ Pending(q)' = Pending(q)
               /\ Pending(q) \in reserved' \ Names(tables'[Server])
    <3>1. q # r /\ pc[q] = "add" /\ step'[q] = step[q]
      BY <1>7, <2>2
    <3>2. Pending(q) # Pending(r)
      BY <1>1, <1>3, <3>1
    <3>3. Pending(q)' = Pending(q)
      BY <3>1 DEF Pending
    <3> QED BY <1>1, <1>3, <1>6, <3>1, <3>2, <3>3
  <2>3. ASSUME NEW q \in Registrations, pc'[q] = "add",
               NEW p \in Registrations, pc'[p] = "add", Pending(p)' = Pending(q)'
        PROVE  p = q
    BY <1>3, <2>2, <2>3
  <2>4. \A f \in Tables : OneNameEach(tables'[f])
    BY <1>2, <1>6 DEF OneNameEach
  <2> QED BY <1>1, <2>1, <2>2, <2>3, <2>4 DEF Unique, OneNameEach, Names
<1>10. Chained'
  BY <1>1 DEF Chained
<1> QED BY <1>6, <1>8, <1>9, <1>10

\* A registration that has begun has begun for good, but for Go's.
LEMMA BegunStays ==
  ASSUME \A q \in Registrations : pc[q] # "idle" => pc'[q] # "idle"
  PROVE  \A f \in Files : Begun(f) => Begun(f)'
BY DEF Begun

\* Java and Kotlin: a name the file has fails the registration, any other is added.
LEMMA AddToTableStep ==
  ASSUME ListsInv, NEW r \in Registrations, AddToTable(r)
  PROVE  ListsInv'
<1> USE DEF ListsInv
<1>1. /\ lang \in {"java", "kotlin"} /\ pc[r] \in {"idle", "add"} /\ TableOf(r) = FileOf[r]
      /\ UNCHANGED <<lang, foreign, reserved, installed, sessions, bound, marked>>
  BY DEF AddToTable, TableOf
<1>2. \/ pc' = [pc EXCEPT ![r] = "failed"] /\ UNCHANGED <<tables, step>>
      \/ /\ Pending(r) \notin Names(tables[TableOf(r)]) /\ Advance(r)
         /\ tables' = [tables EXCEPT ![TableOf(r)] = Append(@, Tool(r, step[r]))]
  BY <1>1 DEF AddToTable, Pending
<1>3. FileOf[r] \in Tables /\ \A f \in Tables : OneNameEach(tables[f])
  BY <1>1, FileFacts DEF Unique
<1>4. CASE pc' = [pc EXCEPT ![r] = "failed"] /\ UNCHANGED <<tables, step>>
  <2>1. /\ pc' \in [Registrations -> {"idle", "add", "hook", "install", "ok", "failed"}]
        /\ pc'[r] = "failed" /\ \A q \in Registrations : q # r => pc'[q] = pc[q]
    BY <1>4 DEF Types
  <2>2. Types'
    BY <1>1, <1>4, <2>1 DEF Types
  <2>3. \A q \in Registrations :
          step'[q] = step[q] /\ (pc'[q] \in {"ok", "install"} => pc[q] \in {"ok", "install"})
    BY <1>4, <2>1
  <2>4. Served'
    BY <1>1, <1>4, <2>3, ServedGrows
  <2>5. Unique'
    BY <1>1, <1>3, <1>4 DEF Unique, OneNameEach
  <2>6. \A f \in Files : Begun(f) => Begun(f)'
    BY <2>1, BegunStays
  <2>7. Chained'
    BY <1>1, <2>6 DEF Chained, Types
  <2> QED BY <2>2, <2>4, <2>5, <2>7
<1>5. CASE /\ Pending(r) \notin Names(tables[TableOf(r)]) /\ Advance(r)
           /\ tables' = [tables EXCEPT ![TableOf(r)] = Append(@, Tool(r, step[r]))]
  <2>1. /\ tables' \in [Tables -> Seq(Generated)] /\ Served'
        /\ \A f \in Tables : f # TableOf(r) => tables'[f] = tables[f]
        /\ OneNameEach(tables'[TableOf(r)])
    BY <1>1, <1>3, <1>5, OneMoreTool
  <2>2. /\ pc' \in [Registrations -> {"idle", "add", "hook", "install", "ok", "failed"}]
        /\ step' \in [Registrations -> Nat \ {0}]
        /\ \A q \in Registrations : step'[q] \in DOMAIN NamesOf[q]
        /\ \A q \in Registrations : q # r => pc'[q] = pc[q] /\ step'[q] = step[q]
        /\ pc'[r] # "idle"
    BY <1>1, <1>5, AdvanceFacts
  <2>3. Types'
    BY <1>1, <2>1, <2>2 DEF Types
  <2>4. \A f \in Tables : OneNameEach(tables'[f])
    BY <1>3, <2>1 DEF OneNameEach
  <2>5. Unique'
    BY <1>1, <2>4 DEF Unique, OneNameEach
  <2>6. \A f \in Files : Begun(f) => Begun(f)'
    BY <2>2, BegunStays
  <2>7. Chained'
    BY <1>1, <2>6 DEF Chained, Types
  <2> QED BY <2>1, <2>3, <2>5, <2>7
<1> QED BY <1>2, <1>4, <1>5

\* The tables stay as they are, and so do the names and what is added.
LEMMA TablesStay ==
  ASSUME ListsInv, UNCHANGED <<lang, foreign, tables, reserved, step>>,
         lang # "go",
         \A q \in Registrations : pc'[q] \in {"ok", "install"} => pc[q] \in {"ok", "install"}
  PROVE  Served' /\ Unique'
<1> USE DEF ListsInv
<1>1. Served'
  BY ServedGrows
<1>2. Unique'
  BY DEF Unique, OneNameEach, Names
<1> QED BY <1>1, <1>2

\* A handler set that is installed or bound is that of a file that has begun.
LEMMA ChainGrows ==
  ASSUME ListsInv, lang \in {"java", "kotlin"}, lang' = lang,
         \A q \in Registrations : pc[q] # "idle" => pc'[q] # "idle",
         installed' \in Seq(Files),
         \A f \in ToSet(installed') : f \in ToSet(installed) \/ Begun(f)',
         \A s \in Sessions : bound'[s] = bound[s] \/ (bound'[s] \in Files /\ Begun(bound[s])')
  PROVE  Chained'
<1> USE DEF ListsInv
<1>1. \A f \in Files : Begun(f) => Begun(f)'
  BY BegunStays
<1>2. \A f \in ToSet(installed) : f \in Files /\ Begun(f)
  <2>1. installed \in Seq(Files)
    BY DEF Chained
  <2>2. \A k \in DOMAIN installed : installed[k] \in Files /\ Begun(installed[k])
    BY <2>1, LenProperties DEF Chained
  <2> QED BY <2>2 DEF ToSet
<1>3. \A k \in DOMAIN installed' : Begun(installed[k])'
  <2>1. \A f \in ToSet(installed') : Begun(f)'
    BY <1>1, <1>2
  <2> QED BY <2>1 DEF ToSet
<1>4. \A s \in Sessions : bound'[s] # NoTable => Begun(bound[s])'
  BY <1>1 DEF Chained, Types
<1> QED BY <1>3, <1>4 DEF Chained

\* Java: a factory is installed by a registration that has begun.
LEMMA InstallSessionFactoryStep ==
  ASSUME ListsInv, NEW r \in Registrations, InstallSessionFactory(r)
  PROVE  ListsInv'
<1> USE DEF ListsInv
<1>1. /\ lang = "java" /\ pc[r] = "install" /\ installed' = Install(FileOf[r])
      /\ pc' = [pc EXCEPT ![r] = "ok"]
      /\ UNCHANGED <<lang, foreign, tables, reserved, sessions, bound, marked, step>>
  BY DEF InstallSessionFactory
<1>2. /\ pc' \in [Registrations -> {"idle", "add", "hook", "install", "ok", "failed"}]
      /\ pc'[r] = "ok" /\ \A q \in Registrations : q # r => pc'[q] = pc[q]
  BY <1>1 DEF Types
<1>3. installed \in Seq(Files) /\ FileOf[r] \in Files
  BY <1>1, FileFacts DEF Chained
<1>4. installed' \in Seq(Files) /\ ToSet(installed') = ToSet(installed) \cup {FileOf[r]}
  <2>1. Install(FileOf[r]) \in Seq(Files)
        /\ ToSet(Install(FileOf[r])) = ToSet(installed) \cup {FileOf[r]}
    BY <1>3, InstallFacts
  <2> QED BY <1>1, <2>1
<1>5. Types'
  <2>1. installed' \in Seq(Tables)
    BY <1>4, SeqMonotonic DEF Tables
  <2> QED BY <1>1, <1>2, <2>1 DEF Types
<1>6. Served' /\ Unique'
  BY <1>1, <1>2, TablesStay
<1>7. Begun(FileOf[r])'
  BY <1>2 DEF Begun
<1>8. Chained'
  BY <1>1, <1>2, <1>4, <1>7, ChainGrows
<1> QED BY <1>5, <1>6, <1>8

\* Kotlin: the sessions there are get the handlers of a file that has begun.
LEMMA InstallMcpHandlersStep ==
  ASSUME ListsInv, NEW r \in Registrations, InstallMcpHandlers(r)
  PROVE  ListsInv'
<1> USE DEF ListsInv
<1> DEFINE file == FileOf[r]
<1>1. /\ lang = "kotlin" /\ pc[r] = "idle"
      /\ UNCHANGED <<lang, foreign, tables, reserved, installed, sessions, step>>
  BY DEF InstallMcpHandlers
<1>2. /\ \/ pc' = [pc EXCEPT ![r] = "add"] /\ UNCHANGED <<bound, marked>>
         \/ pc' = [pc EXCEPT ![r] = "failed"] /\ UNCHANGED <<bound, marked>>
         \/ /\ pc' = [pc EXCEPT ![r] = "hook"]
            /\ bound' = [s \in Sessions |-> IF s \in sessions \ marked[file] THEN file ELSE bound[s]]
            /\ marked' = [marked EXCEPT ![file] = @ \cup sessions]
  BY DEF InstallMcpHandlers
<1>3. /\ pc' \in [Registrations -> {"idle", "add", "hook", "install", "ok", "failed"}]
      /\ pc'[r] \in {"add", "failed", "hook"} /\ \A q \in Registrations : q # r => pc'[q] = pc[q]
  BY <1>2 DEF Types
<1>4. file \in Files
  BY FileFacts
<1>5. bound' \in [Sessions -> Files \cup {NoTable}]
      /\ \A s \in Sessions : bound'[s] = bound[s] \/ bound'[s] = file
  BY <1>2, <1>4 DEF Types
<1>6. marked' \in [Files -> SUBSET Sessions]
  <2>1. marked \in [Files -> SUBSET Sessions] /\ sessions \subseteq Sessions
    BY DEF Types
  <2>2. marked[file] \cup sessions \in SUBSET Sessions
    BY <1>4, <2>1
  <2> QED BY <1>2, <2>1, <2>2
<1>7. Types'
  BY <1>1, <1>3, <1>5, <1>6 DEF Types
<1>8. Served' /\ Unique'
  BY <1>1, <1>3, TablesStay
<1>9. Begun(file)'
  BY <1>3 DEF Begun
<1>10. Chained'
  <2>1. installed' \in Seq(Files) /\ ToSet(installed') = ToSet(installed)
    BY <1>1 DEF Chained
  <2>2. \A s \in Sessions : bound'[s] = bound[s] \/ (bound'[s] \in Files /\ Begun(bound[s])')
    BY <1>4, <1>5, <1>9
  <2> QED BY <1>1, <1>3, <2>1, <2>2, ChainGrows
<1> QED BY <1>7, <1>8, <1>10

\* Kotlin: the hook for later sessions.
LEMMA OnConnectStep ==
  ASSUME ListsInv, NEW r \in Registrations, OnConnect(r)
  PROVE  ListsInv'
<1> USE DEF ListsInv
<1>1. /\ lang = "kotlin" /\ pc[r] = "hook" /\ installed' = Append(installed, FileOf[r])
      /\ pc' = [pc EXCEPT ![r] = "add"]
      /\ UNCHANGED <<lang, foreign, tables, reserved, sessions, bound, marked, step>>
  BY DEF OnConnect
<1>2. /\ pc' \in [Registrations -> {"idle", "add", "hook", "install", "ok", "failed"}]
      /\ pc'[r] = "add" /\ \A q \in Registrations : q # r => pc'[q] = pc[q]
  BY <1>1 DEF Types
<1>3. installed \in Seq(Files) /\ FileOf[r] \in Files
  BY <1>1, FileFacts DEF Chained
<1>4. installed' \in Seq(Files)
  BY <1>1, <1>3, AppendProperties
<1>5. \A f \in ToSet(installed') : f \in ToSet(installed) \/ f = FileOf[r]
  <2>1. /\ Len(installed) \in Nat /\ DOMAIN installed = 1..Len(installed)
        /\ DOMAIN installed' = 1..(Len(installed) + 1)
        /\ \A i \in 1..Len(installed) : installed'[i] = installed[i]
        /\ installed'[Len(installed) + 1] = FileOf[r]
    BY <1>1, <1>3, LenProperties
  <2>2. 1..(Len(installed) + 1) = 1..Len(installed) \cup {Len(installed) + 1}
    BY <2>1
  <2> QED BY <2>1, <2>2 DEF ToSet
<1>6. Types'
  <2>1. installed' \in Seq(Tables)
    BY <1>4, SeqMonotonic DEF Tables
  <2> QED BY <1>1, <1>2, <2>1 DEF Types
<1>7. Served' /\ Unique'
  BY <1>1, <1>2, TablesStay
<1>8. Begun(FileOf[r])'
  BY <1>2 DEF Begun
<1>9. Chained'
  BY <1>1, <1>2, <1>4, <1>5, <1>8, ChainGrows
<1> QED BY <1>6, <1>7, <1>9

\* What keeps the tables, the names and the registrations keeps the names apart.
LEMMA UniqueStays ==
  ASSUME Unique, UNCHANGED <<lang, foreign, tables, reserved, pc, step>>
  PROVE  Unique'
<1>1. \A q \in Registrations : Pending(q)' = Pending(q) /\ pc'[q] = pc[q]
  BY DEF Pending
<1>2. lang' # "typescript" => \A f \in Tables : OneNameEach(tables'[f])
  BY DEF Unique
<1>3. lang' = "python" =>
        \A f \in Tables :
          /\ Names(tables'[f]) \subseteq reserved'
          /\ \A g \in Tables : f # g => Names(tables'[f]) \cap Names(tables'[g]) = {}
  BY DEF Unique
<1>4. lang' = "go" => Names(tables'[Server]) \subseteq reserved' \ foreign'
  BY DEF Unique
<1>5. lang' = "go" =>
        \A r \in Registrations : pc'[r] = "add" =>
          /\ Pending(r)' \in reserved' \ Names(tables'[Server])
          /\ \A q \in Registrations : pc'[q] = "add" /\ Pending(q)' = Pending(r)' => q = r
  <2>1. lang = "go" =>
          \A r \in Registrations : pc[r] = "add" =>
            /\ Pending(r) \in reserved \ Names(tables[Server])
            /\ \A q \in Registrations : pc[q] = "add" /\ Pending(q) = Pending(r) => q = r
    BY DEF Unique
  <2> QED BY <1>1, <2>1
<1> QED BY <1>2, <1>3, <1>4, <1>5 DEF Unique

\* A new session gets the last factory's handlers, or those of the last hook that is new to it.
LEMMA ConnectStep ==
  ASSUME ListsInv, NEW s \in Sessions, Connect(s)
  PROVE  ListsInv'
<1> USE DEF ListsInv
<1> DEFINE open == sessions \cup {s}
           hooks(t) == {i \in DOMAIN installed : t \notin marked[installed[i]]}
<1>1. /\ sessions' = open
      /\ UNCHANGED <<lang, foreign, tables, reserved, installed, pc, step>>
  BY DEF Connect, registering
<1>2. /\ lang = "java" =>
           /\ bound' = [bound EXCEPT ![s] = IF installed = <<>> THEN NoTable ELSE Last(installed)]
           /\ marked' = marked
      /\ lang = "kotlin" =>
           /\ bound' = [t \in Sessions |->
                          IF t \in open /\ hooks(t) # {}
                            THEN installed[CHOOSE i \in hooks(t) : \A j \in hooks(t) : j <= i]
                            ELSE bound[t]]
           /\ marked' = [f \in Files |-> IF IsInstalled(f) THEN open ELSE marked[f]]
      /\ lang \notin {"java", "kotlin"} => bound' = bound /\ marked' = marked
  BY DEF Connect
<1>3. open \subseteq Sessions
  BY DEF Types
<1>4. /\ Len(installed) \in Nat /\ DOMAIN installed = 1..Len(installed)
      /\ lang # "typescript" => installed \in Seq(Files)
      /\ (installed = <<>>) = (Len(installed) = 0)
  BY LenProperties, EmptySeq DEF Types, Chained
\* A session is bound to what it was bound to, or to a table that is installed.
<1>5. bound' \in [Sessions -> Files \cup {NoTable}]
      /\ \A t \in Sessions :
           \/ bound'[t] = bound[t] \/ bound'[t] = NoTable
           \/ \E k \in DOMAIN installed : bound'[t] = installed[k]
  <2>1. bound \in [Sessions -> Files \cup {NoTable}]
    BY DEF Types
  <2>2. CASE lang = "java"
    <3> DEFINE new == IF installed = <<>> THEN NoTable ELSE Last(installed)
    <3>1. new = NoTable \/ (\E k \in DOMAIN installed : new = installed[k])
      BY <1>4 DEF Last
    <3>2. new \in Files \cup {NoTable}
      BY <1>4, <2>2, <3>1
    <3>3. bound' = [bound EXCEPT ![s] = new]
      BY <1>2, <2>2
    <3> HIDE DEF new
    <3> QED BY <2>1, <3>1, <3>2, <3>3
  <2>3. CASE lang = "kotlin"
    <3> DEFINE last(t) == CHOOSE i \in hooks(t) : \A j \in hooks(t) : j <= i
    <3>1. ASSUME NEW t \in Sessions, hooks(t) # {} PROVE last(t) \in DOMAIN installed
      <4>1. hooks(t) \in SUBSET (0..Len(installed)) /\ hooks(t) \subseteq DOMAIN installed
        BY <1>4
      <4> HIDE DEF hooks
      <4>2. \E i \in hooks(t) : \A j \in hooks(t) : j <= i
        BY <1>4, <3>1, <4>1, GreatestNatural
      <4>3. last(t) \in hooks(t)
        BY <4>2
      <4> HIDE DEF last
      <4> QED BY <4>1, <4>3
    <3>2. bound' = [t \in Sessions |-> IF t \in open /\ hooks(t) # {} THEN installed[last(t)] ELSE bound[t]]
      BY <1>2, <2>3
    <3> HIDE DEF last, hooks
    <3>3. \A t \in Sessions :
            bound'[t] = bound[t] \/ \E k \in DOMAIN installed : bound'[t] = installed[k]
      BY <3>1, <3>2
    <3>4. \A k \in DOMAIN installed : installed[k] \in Files
      BY <1>4, <2>3
    <3>5. \A t \in Sessions : bound'[t] \in Files \cup {NoTable}
      BY <2>1, <3>3, <3>4
    <3> QED BY <3>2, <3>3, <3>5
  <2>4. CASE lang \notin {"java", "kotlin"}
    BY <1>2, <2>1, <2>4
  <2> QED BY <2>2, <2>3, <2>4
<1>6. marked' \in [Files -> SUBSET Sessions]
  BY <1>2, <1>3 DEF Types
<1>7. Types'
  <2>1. sessions' \subseteq Sessions
    BY <1>1, <1>3
  <2>2. \A q \in Registrations : step'[q] \in DOMAIN NamesOf[q]
    BY <1>1 DEF Types
  <2>3. /\ lang' \in Languages /\ tables' \in [Tables -> Seq(Generated)] /\ installed' \in Seq(Tables)
        /\ pc' \in [Registrations -> {"idle", "add", "hook", "install", "ok", "failed"}]
        /\ step' \in [Registrations -> Nat \ {0}]
        /\ foreign' \subseteq ForeignNames
    BY <1>1 DEF Types
  <2> QED BY <1>5, <1>6, <2>1, <2>2, <2>3 DEF Types
<1>8. Served'
  BY <1>1, ServedGrows
<1>9. Unique'
  BY <1>1, UniqueStays
<1>10. Chained'
  <2>1. ASSUME lang \in {"java", "kotlin"}, NEW t \in Sessions, bound'[t] # NoTable
        PROVE  Begun(bound[t])'
    <3>1. \A q \in Registrations : pc'[q] = pc[q]
      BY <1>1
    <3>2. CASE bound'[t] = bound[t]
      <4>1. Begun(bound[t])
        BY <2>1, <3>2 DEF Chained
      <4> QED BY <3>1, <3>2, <4>1 DEF Begun
    <3>3. ASSUME NEW k \in DOMAIN installed, bound'[t] = installed[k] PROVE Begun(bound[t])'
      <4>1. Begun(installed[k])
        BY <2>1 DEF Chained
      <4> QED BY <3>1, <3>3, <4>1 DEF Begun
    <3> QED BY <1>5, <2>1, <3>2, <3>3
  <2>2. lang \in {"java", "kotlin"} => \A k \in DOMAIN installed' : Begun(installed[k])'
    BY <1>1 DEF Chained, Begun
  <2>3. /\ lang' # "typescript" => installed' \in Seq(Files)
        /\ lang' = "python" =>
             IsInjective(installed') /\ \A f \in Files : tables'[f] # <<>> => f \in ToSet(installed')
        /\ lang' = "typescript" => \A r \in Registrations : pc'[r] = "ok" => installed' # <<>>
    BY <1>1 DEF Chained
  <2> QED BY <1>1, <2>1, <2>2, <2>3 DEF Chained
<1> QED BY <1>7, <1>8, <1>9, <1>10

\* Calls and prompts touch none of it.
LEMMA ListsStay == ASSUME ListsInv, UNCHANGED <<chain, registering>> PROVE ListsInv'
<1>1. UNCHANGED <<lang, foreign, tables, reserved, installed, pc, step, sessions, bound, marked>>
  BY DEF chain, registering
<1>2. Types' /\ Unique'
  BY <1>1, UniqueStays DEF ListsInv, Types
<1>3. Served'
  BY <1>1, ServedGrows DEF ListsInv
<1>4. Chained'
  BY <1>1 DEF ListsInv, Chained, Begun
<1> QED BY <1>2, <1>3, <1>4 DEF ListsInv

\* Every step keeps the invariant.
LEMMA ListsStep == ListsInv /\ [Next]_vars => ListsInv'
<1> SUFFICES ASSUME ListsInv, [Next]_vars PROVE ListsInv'
  OBVIOUS
<1>1. ASSUME NEW r \in Registrations, Register(r) PROVE ListsInv'
  BY <1>1, RegisterPythonStep, RegisterTypeScriptStep, ReserveGoStep, AddGoStep, AddToTableStep,
     InstallSessionFactoryStep, InstallMcpHandlersStep, OnConnectStep DEF Register
<1>2. ASSUME NEW s \in Sessions, Connect(s) PROVE ListsInv'
  BY <1>2, ConnectStep
<1>3. ASSUME NEW s \in Sessions, NEW name \in AllNames, NEW fault \in DOMAIN Dispatch \cup {"none"},
             Receive(s, name, fault)
      PROVE  ListsInv'
  BY <1>3, ListsStay DEF Receive
<1>4. ASSUME AnswerUnknown \/ RunStage PROVE ListsInv'
  BY <1>4, ListsStay DEF AnswerUnknown, RunStage
<1>5. ASSUME NEW file \in PromptFiles, RegisterPrompts(file) PROVE ListsInv'
  BY <1>5, ListsStay DEF RegisterPrompts
<1>6. ASSUME UNCHANGED vars PROVE ListsInv'
  BY <1>6, ListsStay DEF vars
<1> QED BY <1>1, <1>2, <1>3, <1>4, <1>5, <1>6 DEF Next

\* The tables, the reserved names and the chain of handlers, in every language.
THEOREM ListsHold == Spec => []ListsInv
BY ListsInit, ListsStep, PTL DEF Spec

-----------------------------------------------------------------------------
(* The chain of Python handlers *)

\* The chain of list handlers, one link at a time.
FirstListed == IF paged THEN Failed ELSE HandTools
Clashing(tools) == \E i, j \in DOMAIN tools : i < j /\ AnyName(tools[i]) = AnyName(tools[j])
Extended(listed, k) ==
  IF listed = Failed \/ Clashing(listed \o tables[installed[k]]) THEN Failed
                                                                ELSE listed \o tables[installed[k]]

\* There are finitely many generated files.
LEMMA FilesFinite == IsFiniteSet(Files) /\ Cardinality(Files) \in Nat
<1> DEFINE g == [r \in Registrations |-> FileOf[r]]
<1>1. g \in Surjection(Registrations, Files)
  BY DEF Surjection, Files
<1>2. IsFiniteSet(Registrations)
  BY RegistrationsAssumption
<1>3. IsFiniteSet(Files)
  BY <1>1, <1>2, FS_Surjection
<1> QED BY <1>3, FS_CardinalityType

\* The recursive definition of PythonListed has a solution: PythonListed is one.
LEMMA PythonUnfolds ==
  /\ PythonListed[0] = FirstListed
  /\ \A k \in 1..Cardinality(Files) : PythonListed[k] = Extended(PythonListed[k - 1], k)
<1> DEFINE N == Cardinality(Files)
           UpTo(f, n) == /\ f = [i \in 0..n |-> f[i]]
                         /\ f[0] = FirstListed
                         /\ \A i \in 1..n : f[i] = Extended(f[i - 1], i)
           Body(f) == [k \in 0..N |-> IF k = 0 THEN FirstListed ELSE Extended(f[k - 1], k)]
<1>1. N \in Nat
  BY FilesFinite
<1> HIDE DEF N
<1>2. \A n \in 0..N : \E f : UpTo(f, n)
  <2> DEFINE T == {n \in 0..N : ~\E f : UpTo(f, n)}
  <2>1. SUFFICES T = {}
    OBVIOUS
  <2>2. SUFFICES ASSUME T # {} PROVE FALSE
    OBVIOUS
  <2>3. T \in SUBSET Nat
    BY <1>1
  <2>4. PICK n \in T : \A y \in T : n <= y
    <3> HIDE DEF T
    <3> QED BY <2>2, <2>3, LeastNatural
  <2>5. UpTo([i \in 0..0 |-> FirstListed], 0)
    <3>1. 0 \in 0..0 /\ 1..0 = {}
      OBVIOUS
    <3> QED BY <3>1
  <2>6. n \in 1..N
    <3>1. n \in 0..N /\ ~\E f : UpTo(f, n)
      BY <2>4
    <3>2. n # 0
      <4> HIDE DEF UpTo
      <4> QED BY <3>1, <2>5
    <3> QED BY <3>1, <3>2, <1>1
  <2>7. n - 1 \in 0..N /\ n - 1 \notin T
    <3> HIDE DEF UpTo
    <3>1. n - 1 \in 0..N /\ ~(n <= n - 1)
      BY <2>6, <1>1
    <3> QED BY <3>1, <2>4
  <2>8. PICK f : UpTo(f, n - 1)
    <3> HIDE DEF UpTo
    <3> QED BY <2>7
  <2> DEFINE g == [i \in 0..n |-> IF i = n THEN Extended(f[n - 1], n) ELSE f[i]]
  <2>9. g = [i \in 0..n |-> g[i]]
    OBVIOUS
  <2>10. g[0] = FirstListed
    BY <2>6, <2>8
  <2>11. ASSUME NEW i \in 1..n PROVE g[i] = Extended(g[i - 1], i)
    <3>1. g[i - 1] = f[i - 1]
      BY <2>6
    <3>2. CASE i = n
      BY <3>1, <3>2, <2>6
    <3>3. CASE i # n
      <4>1. i \in 1..(n - 1) /\ g[i] = f[i]
        BY <2>6, <3>3
      <4> QED BY <3>1, <4>1, <2>8
    <3> QED BY <3>2, <3>3
  <2>12. UpTo(g, n)
    BY <2>9, <2>10, <2>11
  <2> QED BY <2>12, <2>4
<1>3. PICK g : UpTo(g, N)
  <2>1. N \in 0..N
    BY <1>1
  <2> HIDE DEF UpTo
  <2> QED BY <1>2, <2>1
<1>4. g = Body(g)
  <2>1. ASSUME NEW i \in 0..N PROVE g[i] = Body(g)[i]
    <3>1. CASE i = 0
      BY <1>3, <3>1
    <3>2. CASE i # 0
      <4>1. i \in 1..N
        BY <3>2, <1>1
      <4>2. g[i] = Extended(g[i - 1], i)
        BY <1>3, <4>1
      <4> QED BY <3>2, <4>2
    <3> QED BY <3>1, <3>2
  <2>2. g = [i \in 0..N |-> g[i]]
    BY <1>3
  <2> QED BY <2>1, <2>2
<1>5. PythonListed = CHOOSE f : f = Body(f)
  BY DEF PythonListed, FirstListed, Extended, Clashing, N
<1>6. PythonListed = Body(PythonListed)
  <2> HIDE DEF Body
  <2> QED BY <1>4, <1>5
<1>7. \A k \in 0..N : PythonListed[k] = IF k = 0 THEN FirstListed ELSE Extended(PythonListed[k - 1], k)
  <2>1. \A f : f = Body(f) => \A k \in 0..N : f[k] = IF k = 0 THEN FirstListed ELSE Extended(f[k - 1], k)
    OBVIOUS
  <2> HIDE DEF Body
  <2> QED BY <1>6, <2>1
<1>8. 0 \in 0..N /\ \A k \in 1..N : k \in 0..N /\ k # 0
  BY <1>1
<1> QED BY <1>7, <1>8 DEF N

\* What one module adds to the list it found: no clash means no name twice.
LEMMA ConcatDistinct ==
  ASSUME NEW s \in Seq(Listable), NEW u \in Seq(Listable)
  PROVE  /\ s \o u \in Seq(Listable) /\ ToSet(s \o u) = ToSet(s) \cup ToSet(u)
         /\ Distinct(s) /\ Distinct(u)
            /\ (\A i \in DOMAIN s, j \in DOMAIN u : AnyName(s[i]) # AnyName(u[j]))
              => Distinct(s \o u)
         /\ Distinct(s \o u) <=> ~Clashing(s \o u)
<1>1. /\ Len(s) \in Nat /\ DOMAIN s = 1..Len(s) /\ Len(u) \in Nat /\ DOMAIN u = 1..Len(u)
      /\ s \o u \in Seq(Listable) /\ DOMAIN (s \o u) = 1..(Len(s) + Len(u))
      /\ \A i \in 1..(Len(s) + Len(u)) :
           (s \o u)[i] = IF i <= Len(s) THEN s[i] ELSE u[i - Len(s)]
  BY LenProperties, ConcatProperties
<1>2. /\ \A i \in 1..Len(s) : i \in 1..(Len(s) + Len(u)) /\ (s \o u)[i] = s[i]
      /\ \A i \in 1..Len(u) : i + Len(s) \in 1..(Len(s) + Len(u)) /\ (s \o u)[i + Len(s)] = u[i]
  BY <1>1
<1>3. \A i \in 1..(Len(s) + Len(u)) :
        \/ i \in 1..Len(s) /\ (s \o u)[i] = s[i]
        \/ i - Len(s) \in 1..Len(u) /\ (s \o u)[i] = u[i - Len(s)]
  BY <1>1
<1>4. ToSet(s \o u) = ToSet(s) \cup ToSet(u)
  BY <1>1, <1>2, <1>3 DEF ToSet
<1>5. ASSUME Distinct(s), Distinct(u),
             \A i \in DOMAIN s, j \in DOMAIN u : AnyName(s[i]) # AnyName(u[j])
      PROVE  Distinct(s \o u)
  <2> SUFFICES ASSUME NEW i \in 1..(Len(s) + Len(u)), NEW j \in 1..(Len(s) + Len(u)),
                      AnyName((s \o u)[i]) = AnyName((s \o u)[j])
               PROVE  i = j
    BY <1>1 DEF Distinct
  <2>1. CASE i \in 1..Len(s) /\ j \in 1..Len(s)
    BY <1>1, <1>2, <1>5, <2>1 DEF Distinct
  <2>2. CASE i - Len(s) \in 1..Len(u) /\ j - Len(s) \in 1..Len(u)
    <3>1. (s \o u)[i] = u[i - Len(s)] /\ (s \o u)[j] = u[j - Len(s)]
      BY <1>1, <2>2
    <3>2. i - Len(s) = j - Len(s)
      BY <1>1, <1>5, <2>2, <3>1 DEF Distinct
    <3> QED BY <1>1, <3>2
  <2>3. CASE i \in 1..Len(s) /\ j - Len(s) \in 1..Len(u)
    <3>1. (s \o u)[i] = s[i] /\ (s \o u)[j] = u[j - Len(s)]
      BY <1>1, <2>3
    <3> QED BY <1>1, <1>5, <2>3, <3>1
  <2>4. CASE i - Len(s) \in 1..Len(u) /\ j \in 1..Len(s)
    <3>1. (s \o u)[j] = s[j] /\ (s \o u)[i] = u[i - Len(s)]
      BY <1>1, <2>4
    <3> QED BY <1>1, <1>5, <2>4, <3>1
  <2> QED BY <1>3, <2>1, <2>2, <2>3, <2>4
<1>6. Distinct(s \o u) <=> ~Clashing(s \o u)
  <2>1. \A i, j \in DOMAIN (s \o u) : (i < j \/ j < i \/ i = j) /\ (i < j => i # j)
    BY <1>1
  <2> QED BY <2>1 DEF Distinct, Clashing
<1> QED BY <1>1, <1>4, <1>5, <1>6

\* A table of the chain: its tools are listable, and distinct where names are looked up.
LEMMA TableFacts ==
  ASSUME ListsInv, NEW f \in Tables
  PROVE  /\ tables[f] \in Seq(Listable) /\ tables[f] \in Seq(Generated)
         /\ lang # "typescript" => Distinct(tables[f])
         /\ \A i \in DOMAIN tables[f] :
              /\ AnyName(tables[f][i]) = NameOf(tables[f][i])
              /\ AnyName(tables[f][i]) \in Names(tables[f])
         /\ \A name \in Names(tables[f]) : \E i \in DOMAIN tables[f] : AnyName(tables[f][i]) = name
<1>1. tables[f] \in Seq(Generated)
  BY DEF ListsInv, Types
<1>2. \A i \in DOMAIN tables[f] : tables[f][i] \in Generated
  BY <1>1, LenProperties
<1>3. tables[f] \in Seq(Listable)
  <2>1. Generated \subseteq Listable
    BY GeneratedFacts
  <2> QED BY <1>1, <2>1, SeqMonotonic
<1>4. \A i \in DOMAIN tables[f] : AnyName(tables[f][i]) = NameOf(tables[f][i])
  BY <1>2, GeneratedFacts
<1>5. lang # "typescript" => Distinct(tables[f])
  <2>1. lang # "typescript" => OneNameEach(tables[f])
    BY DEF ListsInv, Unique
  <2> QED BY <1>4, <2>1 DEF OneNameEach, Distinct
<1>6. /\ \A i \in DOMAIN tables[f] : NameOf(tables[f][i]) \in Names(tables[f])
      /\ \A name \in Names(tables[f]) : \E i \in DOMAIN tables[f] : NameOf(tables[f][i]) = name
  BY DEF Names
<1> QED BY <1>1, <1>3, <1>4, <1>5, <1>6

\* What the first n modules of the chain have, and the tools they found.
Contents(n) == ToSet(HandTools) \cup UNION {ToSet(tables[installed[k]]) : k \in 1..n}

\* No file is in the chain twice: it is no longer than there are files.
LEMMA ChainLength ==
  ASSUME ListsInv, lang = "python"
  PROVE  /\ Len(installed) \in 0..Cardinality(Files) /\ DOMAIN installed = 1..Len(installed)
         /\ \A k \in 1..Len(installed) : installed[k] \in Files /\ installed[k] \in Tables
<1>1. installed \in Seq(Files) /\ IsInjective(installed)
  BY DEF ListsInv, Chained
<1>2. /\ Len(installed) \in Nat /\ DOMAIN installed = 1..Len(installed)
      /\ \A k \in 1..Len(installed) : installed[k] \in Files
      /\ installed \in [1..Len(installed) -> Files]
  BY <1>1, LenProperties
<1>3. installed \in Injection(1..Len(installed), Files)
  BY <1>1, <1>2 DEF Injection, IsInjective
<1>4. Cardinality(1..Len(installed)) <= Cardinality(Files)
  BY <1>3, FilesFinite, FS_Injection
<1>5. Cardinality(1..Len(installed)) = Len(installed)
  <2>1. Cardinality(1..Len(installed)) = IF 1 > Len(installed) THEN 0 ELSE Len(installed) - 1 + 1
    BY <1>2, FS_Interval
  <2> QED BY <1>2, <2>1
<1> QED BY <1>2, <1>4, <1>5, FilesFinite DEF Tables

\* What a list that did not fail contains.
Whole(n) ==
  /\ ~paged /\ PythonListed[n] \in Seq(Listable) /\ Distinct(PythonListed[n])
  /\ ToSet(PythonListed[n]) = Contents(n)

\* A module's list is that of the modules before it and its own.
LEMMA ChainStep ==
  ASSUME ListsInv, lang = "python", NEW n \in 1..Len(installed), Whole(n - 1),
         PythonListed[n] # Failed
  PROVE  Whole(n)
<1> DEFINE before == PythonListed[n - 1]
           merged == before \o tables[installed[n]]
<1>1. n \in 1..Cardinality(Files) /\ installed[n] \in Tables
  BY ChainLength, FilesFinite
<1>2. PythonListed[n] = Extended(before, n)
  BY <1>1, PythonUnfolds
<1>3. ~Clashing(merged) /\ PythonListed[n] = merged
  BY <1>2 DEF Extended
<1>4. before \in Seq(Listable) /\ tables[installed[n]] \in Seq(Listable)
  BY <1>1, TableFacts DEF Whole
<1>5. /\ merged \in Seq(Listable) /\ ToSet(merged) = ToSet(before) \cup ToSet(tables[installed[n]])
      /\ Distinct(merged)
  BY <1>3, <1>4, ConcatDistinct
<1>6. Contents(n) = Contents(n - 1) \cup ToSet(tables[installed[n]])
  <2>1. 1..n = 1..(n - 1) \cup {n}
    OBVIOUS
  <2> QED BY <2>1 DEF Contents
<1> HIDE DEF before, merged
<1>7. ToSet(before) = Contents(n - 1)
  BY DEF Whole, before
<1> QED BY <1>3, <1>5, <1>6, <1>7 DEF Whole

\* The hand-written handlers, read in one page.
LEMMA ChainStart ==
  ASSUME ListsInv, PythonListed[0] # Failed
  PROVE  Whole(0)
<1>1. ~paged /\ PythonListed[0] = HandTools
  BY PythonUnfolds DEF FirstListed
<1>2. HandTools \in Seq(Listable) /\ Distinct(HandTools)
  BY HandFacts DEF ListsInv, Types
<1>3. Contents(0) = ToSet(HandTools)
  <2>1. 1..0 = {}
    OBVIOUS
  <2> QED BY <2>1 DEF Contents
<1> QED BY <1>1, <1>2, <1>3 DEF Whole

\* By the first list in the chain that is not whole.
LEMMA ChainFacts ==
  ASSUME ListsInv, lang = "python", NEW m \in 0..Len(installed), PythonListed[m] # Failed
  PROVE  Whole(m)
<1> DEFINE T == {n \in 0..Len(installed) : PythonListed[n] # Failed /\ ~Whole(n)}
<1>1. Len(installed) \in Nat
  BY ChainLength
<1>2. SUFFICES ASSUME T # {} PROVE FALSE
  BY <1>1
<1>3. T \in SUBSET Nat
  BY <1>1
<1>4. PICK n \in T : \A y \in T : n <= y
  <2> HIDE DEF T
  <2> QED BY <1>2, <1>3, LeastNatural
<1>5. n \in 0..Len(installed) /\ PythonListed[n] # Failed /\ ~Whole(n)
  BY <1>4
<1>6. n # 0
  BY <1>5, ChainStart
<1>7. n \in 1..Len(installed) /\ n - 1 \in 0..Len(installed) /\ n - 1 \notin T
  <2>1. n \in 1..Len(installed) /\ n - 1 \in 0..Len(installed) /\ ~(n <= n - 1)
    BY <1>1, <1>5, <1>6
  <2> HIDE DEF T
  <2> QED BY <1>4, <2>1
<1>8. PythonListed[n - 1] # Failed
  <2>1. PythonListed[n] = Extended(PythonListed[n - 1], n)
    BY <1>7, ChainLength, FilesFinite, PythonUnfolds
  <2> QED BY <1>5, <2>1 DEF Extended
<1>9. Whole(n - 1)
  BY <1>7, <1>8
<1> QED BY <1>5, <1>7, <1>9, ChainStep

\* Nothing in the chain fails when the handlers found come in one page and no generated
\* name is served by hand: reserved names keep the tables apart.
LEMMA ChainServes ==
  ASSUME ListsInv, lang = "python", ~paged,
         \A q \in Registrations : ToSet(NamesOf[q]) \cap foreign = {},
         NEW m \in 0..Len(installed)
  PROVE  PythonListed[m] # Failed
<1> DEFINE T == {n \in 0..Len(installed) : PythonListed[n] = Failed}
<1>1. Len(installed) \in Nat
  BY ChainLength
<1>2. SUFFICES ASSUME T # {} PROVE FALSE
  BY <1>1
<1>3. T \in SUBSET Nat
  BY <1>1
<1>4. PICK n \in T : \A y \in T : n <= y
  <2> HIDE DEF T
  <2> QED BY <1>2, <1>3, LeastNatural
<1>5. n \in 0..Len(installed) /\ PythonListed[n] = Failed
  BY <1>4
<1>6. n # 0
  <2>1. PythonListed[0] = HandTools
    BY PythonUnfolds DEF FirstListed
  <2>2. HandTools \in Seq(Listable)
    BY HandFacts DEF ListsInv, Types
  <2> QED BY <1>5, <2>1, <2>2, FailedAssumption DEF Listable
<1>7. n \in 1..Len(installed) /\ n - 1 \in 0..Len(installed) /\ n - 1 \notin T
  <2>1. n \in 1..Len(installed) /\ n - 1 \in 0..Len(installed) /\ ~(n <= n - 1)
    BY <1>1, <1>5, <1>6
  <2> HIDE DEF T
  <2> QED BY <1>4, <2>1
<1>8. PythonListed[n - 1] # Failed
  BY <1>7
<1>9. Whole(n - 1)
  BY <1>7, <1>8, ChainFacts
<1> DEFINE before == PythonListed[n - 1]
           own == tables[installed[n]]
<1>10. installed[n] \in Tables /\ before \in Seq(Listable) /\ own \in Seq(Listable)
       /\ Distinct(before) /\ Distinct(own)
  BY <1>7, <1>9, ChainLength, TableFacts DEF Whole
<1>11. \A i \in DOMAIN before, j \in DOMAIN own : AnyName(before[i]) # AnyName(own[j])
  <2> SUFFICES ASSUME NEW i \in DOMAIN before, NEW j \in DOMAIN own
               PROVE  AnyName(before[i]) # AnyName(own[j])
    OBVIOUS
  <2>1. AnyName(own[j]) \in Names(own)
    BY <1>10, TableFacts
  <2>2. AnyName(own[j]) \notin foreign
    <3>1. own[j] \in Generated /\ own[j] \in ToSet(own)
      BY <1>10, TableFacts, LenProperties DEF ToSet
    <3>2. own[j].by \in Registrations /\ own[j].at \in DOMAIN NamesOf[own[j].by]
      BY <1>10, <3>1, GeneratedFacts DEF ListsInv, Served
    <3>3. AnyName(own[j]) \in ToSet(NamesOf[own[j].by])
      BY <3>1, <3>2, GeneratedFacts DEF ToSet, NameOf
    <3> QED BY <3>2, <3>3
  <2>3. before[i] \in Contents(n - 1)
    BY <1>9 DEF Whole, ToSet
  <2>4. CASE before[i] \in ToSet(HandTools)
    <3>1. AnyName(before[i]) \in foreign
      BY <2>4, HandFacts DEF ListsInv, Types, ToSet
    <3> QED BY <2>2, <3>1
  <2>5. ASSUME NEW k \in 1..(n - 1), before[i] \in ToSet(tables[installed[k]])
        PROVE  AnyName(before[i]) # AnyName(own[j])
    <3>1. k \in 1..Len(installed) /\ k # n
      BY <1>1, <1>7
    <3>2. installed[k] \in Tables /\ installed[k] # installed[n]
      BY <1>7, <3>1, ChainLength DEF ListsInv, Chained, IsInjective
    <3>3. AnyName(before[i]) \in Names(tables[installed[k]])
      BY <2>5, <3>2, TableFacts DEF ToSet
    <3>4. Names(tables[installed[k]]) \cap Names(own) = {}
      BY <1>10, <3>2 DEF ListsInv, Unique
    <3> QED BY <2>1, <3>3, <3>4
  <2> QED BY <2>3, <2>4, <2>5 DEF Contents
<1>12. Distinct(before \o own) /\ before \o own \in Seq(Listable) /\ ~Clashing(before \o own)
  <2> HIDE DEF before, own
  <2> QED BY <1>10, <1>11, ConcatDistinct
<1>13. PythonListed[n] = before \o own
  <2>1. PythonListed[n] = Extended(before, n)
    BY <1>7, ChainLength, FilesFinite, PythonUnfolds
  <2> QED BY <1>8, <1>12, <2>1 DEF Extended
<1> QED BY <1>5, <1>12, <1>13, FailedAssumption DEF Listable

-----------------------------------------------------------------------------
(* What is listed is what is called *)

\* In Python the module a call reaches is the one whose tool is in the list.
LEMMA PythonMatches ==
  ASSUME ListsInv, lang = "python", NEW listed, listed = PythonListed[Len(installed)],
         listed # Failed
  PROVE  /\ \A i \in DOMAIN listed : PythonReached(AnyName(listed[i])) = listed[i]
         /\ \A name : PythonReached(name) # NoTable => \E i \in DOMAIN listed : AnyName(listed[i]) = name
<1> DEFINE having(name) == {k \in DOMAIN installed : name \in Names(tables[installed[k]])}
           last(name) == CHOOSE i \in having(name) : \A j \in having(name) : j <= i
<1>1. /\ Len(installed) \in Nat /\ DOMAIN installed = 1..Len(installed)
      /\ Len(installed) \in 0..Len(installed)
      /\ \A k \in 1..Len(installed) : installed[k] \in Tables
  BY ChainLength, FilesFinite
<1>2. /\ listed \in Seq(Listable) /\ Distinct(listed)
      /\ ToSet(listed) = ToSet(HandTools) \cup UNION {ToSet(tables[installed[k]]) : k \in 1..Len(installed)}
  BY <1>1, ChainFacts DEF Whole, Contents
<1>3. HandTools \in Seq(Listable) /\ Distinct(HandTools)
  BY HandFacts DEF ListsInv, Types
<1>4. ASSUME NEW name, having(name) # {}
      PROVE  last(name) \in 1..Len(installed) /\ name \in Names(tables[installed[last(name)]])
  <2>1. having(name) \in SUBSET (0..Len(installed))
    BY <1>1
  <2>2. \E i \in having(name) : \A j \in having(name) : j <= i
    <3> HIDE DEF having
    <3> QED BY <1>1, <1>4, <2>1, GreatestNatural
  <2>3. last(name) \in having(name)
    <3> HIDE DEF having
    <3> QED BY <2>2
  <2> HIDE DEF last
  <2> QED BY <1>1, <2>3
<1>5. ASSUME NEW name, having(name) = {} PROVE PythonReached(name) = Named(HandTools, name)
  BY <1>5 DEF PythonReached
<1>6. ASSUME NEW name, having(name) # {}
      PROVE  PythonReached(name) = Named(tables[installed[last(name)]], name)
  BY <1>6 DEF PythonReached
<1> HIDE DEF having, last
\* The tool of that name in the last table that has the name.
<1>7. ASSUME NEW name, having(name) # {}
      PROVE  \E i \in DOMAIN listed : AnyName(listed[i]) = name /\ PythonReached(name) = listed[i]
  <2> DEFINE own == tables[installed[last(name)]]
  <2>1. last(name) \in 1..Len(installed) /\ installed[last(name)] \in Tables
        /\ name \in Names(own)
    BY <1>1, <1>4, <1>7
  <2>2. own \in Seq(Listable) /\ Distinct(own)
    BY <2>1, TableFacts
  <2>3. PICK j \in DOMAIN own : AnyName(own[j]) = name
    BY <2>1, TableFacts
  <2>4. Named(own, name) = own[j]
    <3> HIDE DEF own
    <3> QED BY <2>2, <2>3, NamedFinds
  <2>5. own[j] \in ToSet(listed)
    <3>1. own[j] \in ToSet(own)
      BY <2>3 DEF ToSet
    <3> QED BY <1>2, <2>1, <3>1
  <2>6. PICK i \in DOMAIN listed : listed[i] = own[j]
    BY <2>5 DEF ToSet
  <2> QED BY <1>6, <1>7, <2>3, <2>4, <2>6
<1>8. ASSUME NEW i \in DOMAIN listed PROVE PythonReached(AnyName(listed[i])) = listed[i]
  <2> DEFINE name == AnyName(listed[i])
  <2>1. CASE having(name) # {}
    <3>1. PICK j \in DOMAIN listed : AnyName(listed[j]) = name /\ PythonReached(name) = listed[j]
      BY <1>7, <2>1
    <3>2. i = j
      BY <1>2, <3>1 DEF Distinct
    <3> QED BY <3>1, <3>2
  <2>2. CASE having(name) = {}
    <3>1. \A k \in 1..Len(installed) : listed[i] \notin ToSet(tables[installed[k]])
      <4> SUFFICES ASSUME NEW k \in 1..Len(installed), listed[i] \in ToSet(tables[installed[k]])
                   PROVE  FALSE
        OBVIOUS
      <4>1. name \in Names(tables[installed[k]])
        BY <1>1, TableFacts DEF ToSet
      <4> QED BY <1>1, <2>2, <4>1 DEF having
    <3>2. listed[i] \in ToSet(HandTools)
      BY <1>2, <3>1 DEF ToSet
    <3>3. PICK j \in DOMAIN HandTools : HandTools[j] = listed[i]
      BY <3>2 DEF ToSet
    <3>4. Named(HandTools, name) = listed[i]
      BY <1>3, <3>3, NamedFinds
    <3> QED BY <1>5, <2>2, <3>4
  <2> QED BY <2>1, <2>2
<1>9. ASSUME NEW name, PythonReached(name) # NoTable
      PROVE  \E i \in DOMAIN listed : AnyName(listed[i]) = name
  <2>1. CASE having(name) # {}
    BY <1>7, <2>1
  <2>2. CASE having(name) = {}
    <3>1. PICK j \in DOMAIN HandTools : AnyName(HandTools[j]) = name
      BY <1>5, <1>9, <2>2, NamedIsListed
    <3>2. HandTools[j] \in ToSet(listed)
      BY <1>2 DEF ToSet
    <3> QED BY <3>1, <3>2 DEF ToSet
  <2> QED BY <2>1, <2>2
<1> QED BY <1>8, <1>9

\* In the other languages a session's list has no name twice.
LEMMA OtherLists ==
  ASSUME ListsInv, lang # "python", NEW s \in sessions,
         lang = "typescript" => Distinct(Listed(s))
  PROVE  Listed(s) \in Seq(Listable) /\ Distinct(Listed(s))
<1>1. HandTools \in Seq(Listable) /\ Distinct(HandTools)
  BY HandFacts DEF ListsInv, Types
<1>2. \A f \in Tables : tables[f] \in Seq(Listable) /\ (lang # "typescript" => Distinct(tables[f]))
  BY TableFacts
<1>3. Server \in Tables
  BY DEF Tables
<1>4. CASE lang = "go"
  <2>1. \A i \in DOMAIN HandTools, j \in DOMAIN tables[Server] :
          AnyName(HandTools[i]) # AnyName(tables[Server][j])
    <3>1. \A i \in DOMAIN HandTools : AnyName(HandTools[i]) \in foreign
      BY HandFacts DEF ListsInv, Types
    <3>2. \A j \in DOMAIN tables[Server] : AnyName(tables[Server][j]) \in Names(tables[Server])
      BY <1>3, TableFacts
    <3>3. Names(tables[Server]) \cap foreign = {}
      BY <1>4 DEF ListsInv, Unique
    <3> QED BY <3>1, <3>2, <3>3
  <2>2. Listed(s) = HandTools \o tables[Server]
    BY <1>4 DEF Listed
  <2> QED BY <1>1, <1>2, <1>3, <1>4, <2>1, <2>2, ConcatDistinct
<1>5. CASE lang = "typescript"
  BY <1>1, <1>2, <1>3, <1>5 DEF Listed
<1>6. CASE lang \notin {"python", "go", "typescript"}
  <2>1. Listed(s) = IF bound[s] = NoTable THEN HandTools ELSE tables[bound[s]]
    BY <1>6 DEF Listed
  <2>2. bound[s] # NoTable => bound[s] \in Tables
    BY DEF ListsInv, Types, Tables
  <2> QED BY <1>1, <1>2, <1>6, <2>1, <2>2
<1> QED BY <1>4, <1>5, <1>6

\* The invariant implies that calls match lists.
LEMMA ListsMatch == ListsInv => CallsMatchLists
<1> SUFFICES ASSUME ListsInv, NEW s \in sessions, Listed(s) # Failed,
                    ~(lang = "typescript" /\ ~Distinct(Listed(s)))
             PROVE  /\ \A i \in DOMAIN Listed(s) : Reached(s, AnyName(Listed(s)[i])) = Listed(s)[i]
                    /\ \A name \in AllNames : Reached(s, name) # NoTable =>
                         \E i \in DOMAIN Listed(s) : AnyName(Listed(s)[i]) = name
  BY DEF CallsMatchLists
<1>1. CASE lang = "python"
  <2>1. Listed(s) = PythonListed[Len(installed)] /\ \A name : Reached(s, name) = PythonReached(name)
    BY <1>1 DEF Listed, Reached
  <2> QED BY <1>1, <2>1, PythonMatches
<1>2. CASE lang # "python"
  <2>1. \A name : Reached(s, name) = Named(Listed(s), name)
    BY <1>2 DEF Reached
  <2>2. Listed(s) \in Seq(Listable) /\ Distinct(Listed(s))
    BY <1>2, OtherLists
  <2> QED BY <2>1, <2>2, NamedFinds, NamedIsListed
<1> QED BY <1>1, <1>2

\* The invariant implies that what was registered stays served.
LEMMA ServedStay == ListsInv => RegisteredStaysServed
<1> SUFFICES ASSUME ListsInv, NEW r \in Registrations, NEW s \in sessions,
                    pc[r] = "ok", ComposesWithHand(r),
                    lang \in {"java", "kotlin"} =>
                      /\ bound[s] # NoTable
                      /\ \A q \in Registrations : FileOf[q] # FileOf[r] => pc[q] = "idle",
                    lang = "typescript" => Distinct(tables[Server]),
                    NEW i \in DOMAIN NamesOf[r]
             PROVE  Reached(s, NamesOf[r][i]) = Tool(r, i)
  BY DEF RegisteredStaysServed
<1> DEFINE tool == Tool(r, i)
           table == tables[TableOf(r)]
<1>1. tool \in ToSet(table)
  BY DEF ListsInv, Served
<1>2. AnyName(tool) = NamesOf[r][i]
  <2>1. i \in Nat \ {0}
    BY RegistrationsAssumption, LenProperties
  <2> QED BY <2>1, ToolFacts
<1>3. lang \in Languages
  BY DEF ListsInv, Types
<1> HIDE DEF tool
\* The tool is in the list of the session.
<1>4. ASSUME ToSet(table) \subseteq ToSet(Listed(s))
      PROVE  \E j \in DOMAIN Listed(s) : Listed(s)[j] = tool
  BY <1>1, <1>4 DEF ToSet
<1>5. CASE lang = "python"
  <2>1. ~paged /\ \A q \in Registrations : ToSet(NamesOf[q]) \cap foreign = {}
    BY <1>5 DEF ComposesWithHand
  <2>2. Len(installed) \in 0..Len(installed)
    BY <1>5, ChainLength, FilesFinite
  <2>3. PythonListed[Len(installed)] # Failed
    BY <1>5, <2>1, <2>2, ChainServes
  <2>4. Listed(s) = PythonListed[Len(installed)] /\ \A name : Reached(s, name) = PythonReached(name)
    BY <1>5 DEF Listed, Reached
  <2>5. ToSet(Listed(s)) = Contents(Len(installed))
    BY <1>5, <2>2, <2>3, <2>4, ChainFacts DEF Whole
  <2>6. FileOf[r] \in ToSet(installed) /\ TableOf(r) = FileOf[r]
    <3>1. TableOf(r) = FileOf[r] /\ FileOf[r] \in Files
      BY <1>5, FileFacts DEF TableOf
    <3>2. table # <<>>
      <4>1. ToSet(<<>>) = {}
        BY DEF ToSet
      <4> QED BY <1>1, <4>1
    <3> QED BY <1>5, <3>1, <3>2 DEF ListsInv, Chained
  <2>7. PICK k \in 1..Len(installed) : installed[k] = FileOf[r]
    BY <1>5, <2>6, ChainLength DEF ToSet
  <2>8. ToSet(table) \subseteq ToSet(Listed(s))
    BY <2>5, <2>6, <2>7 DEF Contents
  <2>9. PICK j \in DOMAIN Listed(s) : Listed(s)[j] = tool
    BY <1>4, <2>8
  <2> QED BY <1>2, <1>5, <2>3, <2>4, <2>9, PythonMatches DEF tool
<1>6. CASE lang # "python"
  <2>1. /\ ToSet(table) \subseteq ToSet(Listed(s))
        /\ lang = "typescript" => Distinct(Listed(s))
    <3>1. CASE lang = "go"
      <4>1. Listed(s) = HandTools \o tables[Server] /\ table = tables[Server]
        BY <3>1 DEF Listed, TableOf
      <4>2. HandTools \in Seq(Listable) /\ tables[Server] \in Seq(Listable)
        BY HandFacts, TableFacts, FileFacts DEF ListsInv, Types
      <4>3. ToSet(Listed(s)) = ToSet(HandTools) \cup ToSet(tables[Server])
        BY <4>1, <4>2, ConcatDistinct
      <4> QED BY <3>1, <4>1, <4>3
    <3>2. CASE lang = "typescript"
      <4>1. installed # <<>>
        BY <3>2 DEF ListsInv, Chained
      <4>2. Listed(s) = tables[Server] /\ table = tables[Server]
        BY <3>2, <4>1 DEF Listed, TableOf
      <4> QED BY <3>2, <4>2
    <3>3. CASE lang \in {"java", "kotlin"}
      <4>1. s \in Sessions /\ bound[s] # NoTable
        BY <3>3 DEF ListsInv, Types
      <4>2. PICK q \in Registrations : FileOf[q] = bound[s] /\ pc[q] # "idle"
        BY <3>3, <4>1 DEF ListsInv, Chained, Begun
      <4>3. bound[s] = FileOf[r]
        BY <3>3, <4>2
      <4>4. Listed(s) = table
        BY <3>3, <4>1, <4>3 DEF Listed, TableOf
      <4> QED BY <3>3, <4>4
    <3> QED BY <1>3, <1>6, <3>1, <3>2, <3>3, LanguagesAssumption
  <2>2. Listed(s) \in Seq(Listable) /\ Distinct(Listed(s))
    BY <1>6, <2>1, OtherLists
  <2>3. PICK j \in DOMAIN Listed(s) : Listed(s)[j] = tool
    BY <1>4, <2>1
  <2>4. Reached(s, NamesOf[r][i]) = Named(Listed(s), AnyName(Listed(s)[j]))
    BY <1>2, <1>6, <2>3 DEF Reached
  <2> QED BY <2>2, <2>3, <2>4, NamedFinds DEF tool
<1> QED BY <1>5, <1>6

\* In every language, whatever is registered by whom and whenever sessions connect,
\* tools/list shows exactly what tools/call serves.
THEOREM CallsFollowLists == Spec => []CallsMatchLists
BY ListsHold, ListsMatch, PTL

\* A tool whose Register function returned without an error stays served under its name.
THEOREM RegistrationsLast == Spec => []RegisteredStaysServed
BY ListsHold, ServedStay, PTL
=============================================================================
