------------------------------ MODULE Generator ------------------------------
(***************************************************************************)
(* One run of protoc-gen-mcp: the options of the plugin, the models of the *)
(* files to generate, the files it writes.  Python, Kotlin, Java and       *)
(* TypeScript collect every file before they write the first; Go goes file *)
(* by file.  A failure ends the run, and its response has no files.        *)
(*                                                                         *)
(* What came out of a run is then used: PythonCalls and PromptServing.      *)
(***************************************************************************)
EXTENDS TypeCollector, PromptsResources, ToolNames

CONSTANT Projects   \* projects to choose from

VARIABLES
  project,   \* the files, their methods, the plugin's parameters
  params,    \* parameters that are still to be read
  opts,      \* what the options parser has read
  stage,     \* "options", "collect", "types", "augment", "extra", "render", "done" or "failed"
  next,      \* position in project.files
  models,    \* models of the files collected so far
  extraRefs, \* extraRefs[f]: types of f that other files of the run refer to
  outputs    \* modules written so far, by file and suffix

run == <<fields, project, params, opts, stage, next, models, extraRefs, outputs, collector>>

ProtoTypes == Types \cup WellKnown \cup {Scalar, Unsupported}
IsSequence(s) == s \in Seq(Range(s))

\* What protoc hands over: messages with fields of types that it knows, files that are
\* there once, the files to generate among them, and methods on messages.  And what the
\* application lists: a value for each parameter of a resource.
ASSUME ProjectsAssumption ==
  \A p \in Projects :
    /\ \A t \in Types : IsSequence(p.fields[t]) /\ \A i \in DOMAIN p.fields[t] : p.fields[t][i].type \in ProtoTypes
    /\ p.files \in Seq(DOMAIN p.methods) /\ IsInjective(p.files) /\ p.generate \subseteq Range(p.files)
    /\ DOMAIN p.methods \subseteq DOMAIN TypesOf
    /\ \A f \in DOMAIN p.methods :
         /\ IsSequence(p.methods[f])
         /\ \A m \in Range(p.methods[f]) :
              {m.input, m.output} \subseteq ProtoTypes \ {Scalar} /\ {m.namespace, m.option, m.name} \subseteq Text
    /\ IsSequence(p.resources)
    /\ \A r \in Range(p.resources) :
         /\ IsSequence(r.uri) /\ IsSequence(r.template) /\ IsSequence(r.instances)
         /\ \A values \in Range(r.instances) \cup r.unlisted :
              /\ IsSequence(values) /\ Len(values) = Len(Only(r.template, Params))
              /\ \A text \in Range(values) : IsSequence(text)

NoFiles == [f \in {} |-> f]
Set(map, key, value) == [k \in {key} \cup DOMAIN map |-> IF k = key THEN value ELSE map[k]]

NewOptionsParser ==
  [lang |-> "go", runtime |-> "", handlers |-> <<>>, sawRuntime |-> FALSE, sawHandler |-> FALSE,
   continuation |-> FALSE]

Init ==
  /\ project \in Projects
  /\ fields = project.fields
  /\ params = project.params
  /\ opts = NewOptionsParser
  /\ stage = "options"
  /\ next = 1
  /\ models = NoFiles
  /\ extraRefs = NoFiles
  /\ outputs = NoFiles
  /\ graph = NoGraph /\ frames = <<>> /\ roots = <<>>

Fail ==
  /\ stage' = "failed"
  /\ UNCHANGED <<fields, project, params, opts, next, models, extraRefs, outputs, collector>>

----------------------------------------------------------------------------
\* Options.  A parameter is [name, values]; "python_handler=a+b" has two values, and a
\* bare name after it is one more handler, for protoc splits parameters at commas.
addPythonHandler(o, handlers) ==
  [o EXCEPT !.handlers = FoldLeft(LAMBDA hs, h : IF h \in Range(hs) THEN hs ELSE Append(hs, h), @, handlers)]

Param == Head(params)

Known(o, param) ==
  \/ param.name \in {"lang", "python_runtime", "python_handler"}
  \/ param.values = <<>> /\ o.continuation

SetOption(o, param) ==
  CASE param.name = "lang" -> [o EXCEPT !.lang = param.values[1], !.continuation = FALSE]
    [] param.name = "python_runtime" ->
         [o EXCEPT !.runtime = param.values[1], !.sawRuntime = TRUE, !.continuation = FALSE]
    [] param.name = "python_handler" ->
         [addPythonHandler(o, param.values) EXCEPT !.sawHandler = TRUE, !.continuation = TRUE]
    [] OTHER -> addPythonHandler(o, <<param.name>>)

ReadParam ==
  /\ stage = "options" /\ params # <<>> /\ Known(opts, Param)
  /\ opts' = SetOption(opts, Param)
  /\ params' = Tail(params)
  /\ UNCHANGED <<fields, project, stage, next, models, extraRefs, outputs, collector>>

RejectParam ==
  /\ stage = "options" /\ params # <<>> /\ ~Known(opts, Param)
  /\ Fail

\* The options of a Python run, with the defaults that were not given.
WithDefaults(o) ==
  [o EXCEPT !.runtime = IF o.sawRuntime THEN @ ELSE "google.protobuf",
            !.handlers = IF o.sawHandler THEN @ ELSE <<"dataclass">>]

ValidOptions(o) ==
  IF o.lang = "python"
    THEN /\ WithDefaults(o).runtime = "google.protobuf"
         /\ Range(WithDefaults(o).handlers) \subseteq {"dataclass", "protobuf"}
         /\ WithDefaults(o).handlers # <<>>
    ELSE /\ o.lang \in {"go", "kotlin", "java", "typescript"}
         /\ ~o.sawRuntime /\ ~o.sawHandler

\* Files without a go_package: protogen refuses them, also for the other languages,
\* unless the plugin has put one in.
PrepareRequestForProtogen(o) ==
  IF o.lang \in {"python", "kotlin", "java", "typescript"} THEN {} ELSE project.unpackaged

Options ==
  /\ stage = "options" /\ params = <<>>
  /\ IF ValidOptions(opts) /\ PrepareRequestForProtogen(opts) = {}
       THEN /\ opts' = IF opts.lang = "python" THEN WithDefaults(opts) ELSE opts
            /\ stage' = "collect"
            /\ UNCHANGED <<fields, project, params, next, models, extraRefs, outputs, collector>>
       ELSE Fail

----------------------------------------------------------------------------
\* Models.
Files == project.files
File == Files[next]
Generated(f) == f \in project.generate
AtEnd == next > Len(Files)

\* A streaming method fails the run even when it is hidden.
selectToolMethod(method) == ~method.hidden
Tools(f) == Only(project.methods[f], {m \in Range(project.methods[f]) : selectToolMethod(m)})

\* The types that generateSchema gets to from a method's messages.
Mentioned(m) == LET own == {m.input, m.output} IN own \cup UNION {Below(t) : t \in Reachable(own)}

Flawed(f) ==
  \/ f \in project.proto2
  \/ \E m \in Range(project.methods[f]) : m.streaming
  \/ \E m \in Range(Tools(f)) :
       \/ ~validateToolNameLength(Namespace(m), MethodName(m))
       \/ Unsupported \in Mentioned(m)
  \/ \E t \in Range(Prompts(f, project.prompts)) : \E i \in DOMAIN fields[t] : UnfitArgument(fields[t][i])
  \/ \E r \in Range(Resources(f, project.resources)) : UnfitResource(r)

\* The types that a file's model has all types below of.
TypeRoots(f) ==
  CASE opts.lang = "python" -> collectTypeGraph(f, Tools(f))
    [] opts.lang \in {"kotlin", "java"} -> collectJVMTypeGraph(f, Tools(f))
    [] OTHER -> <<>>

\* Icon themes other than light and dark; both languages look at the tools that are kept.
validateJavaMetadata(f) == \A m \in Range(Tools(f)) : ~m.badTheme
validateKotlinMetadata(f) == validateJavaMetadata(f)

\* What a language refuses that the others take.
Refused(f) ==
  CASE opts.lang = "python" -> graph.failed
    [] opts.lang = "kotlin" -> graph.failed \/ ~validateKotlinMetadata(f)
    [] opts.lang = "java" -> graph.failed \/ ~validateJavaMetadata(f)
    [] opts.lang = "typescript" -> typescriptCollision(Tools(f))
    [] OTHER -> FALSE

Model(f) ==
  [tools |-> Tools(f), prompts |-> Prompts(f, project.prompts),
   resources |-> Resources(f, project.resources), graph |-> graph]

Callable(model) == model.tools # <<>> \/ model.prompts # <<>> \/ model.resources # <<>>

\* The second pass looks at files that others need something of.
ToCollect(f) == Generated(f) /\ (stage = "augment" => extraRefs[f] # {})

SkipFile ==
  /\ stage \in {"collect", "augment"} /\ ~AtEnd /\ ~ToCollect(File)
  /\ next' = next + 1
  /\ UNCHANGED <<fields, project, params, opts, stage, models, extraRefs, outputs, collector>>

RefuseFile ==
  /\ stage = "collect" /\ ~AtEnd /\ ToCollect(File) /\ Flawed(File)
  /\ Fail

CollectFile ==
  /\ stage = "collect" /\ ~AtEnd /\ ToCollect(File) /\ ~Flawed(File)
  /\ stage' = "types" /\ Start(TypeRoots(File))
  /\ UNCHANGED <<fields, project, params, opts, next, models, extraRefs, outputs>>

CollectTypes ==
  /\ stage \in {"types", "extra"} /\ Collect(File)
  /\ UNCHANGED <<fields, project, params, opts, stage, next, models, extraRefs, outputs>>

CollectedFile ==
  /\ stage = "types" /\ Collected
  /\ IF Refused(File)
       THEN Fail
       ELSE /\ models' = Set(models, File, Model(File))
            /\ outputs' = IF opts.lang = "go" /\ Callable(Model(File))
                            THEN Set(outputs, <<File, "mcp">>, [defines |-> {}, uses |-> {}])
                            ELSE outputs
            /\ stage' = "collect" /\ next' = next + 1
            /\ UNCHANGED <<fields, project, params, opts, extraRefs, collector>>

\* After the last file Go is done; Python looks at what its files need of each other.
CollectedAll ==
  /\ stage = "collect" /\ AtEnd
  /\ stage' = CASE opts.lang = "go" -> "done" [] opts.lang = "python" -> "augment" [] OTHER -> "render"
  /\ next' = 1
  /\ extraRefs' = [f \in DOMAIN models |->
                     {t \in Types : FileOf[t] = f /\ \E g \in DOMAIN models : t \in Foreign(g, models[g].graph)}]
  /\ UNCHANGED <<fields, project, params, opts, models, outputs, collector>>

AugmentFile ==
  /\ stage = "augment" /\ ~AtEnd /\ ToCollect(File)
  /\ stage' = "extra" /\ Start(collectPythonTypeGraphFromRefs(extraRefs[File]))
  /\ UNCHANGED <<fields, project, params, opts, next, models, extraRefs, outputs>>

augmentPythonModelWithCurrentTypeRefs(f, model) ==
  [model EXCEPT !.graph = mergePythonTypeGraphs(f, @, graph)]

AugmentedFile ==
  /\ stage = "extra" /\ Collected
  /\ LET model == augmentPythonModelWithCurrentTypeRefs(File, models[File])
     IN IF model.graph.failed
          THEN Fail
          ELSE /\ models' = [models EXCEPT ![File] = model]
               /\ stage' = "augment" /\ next' = next + 1
               /\ UNCHANGED <<fields, project, params, opts, extraRefs, outputs, collector>>

Augmented ==
  /\ stage = "augment" /\ AtEnd
  /\ stage' = "render" /\ next' = 1
  /\ UNCHANGED <<fields, project, params, opts, models, extraRefs, outputs, collector>>

----------------------------------------------------------------------------
\* Files.
\* What would be written if only files with tools or prompts were.
pythonModelRequiresOutputForTools(f, handler) == Callable(models[f])

pythonModelRequiresOutput(f, handler) ==
  \/ Callable(models[f])
  \/ handler = "dataclass" /\ Current(f, models[f].graph) # {}

pythonHandlers == IF opts.lang = "python" THEN Range(opts.handlers) ELSE {"protobuf"}

\* Two handlers write two modules; one writes f_mcp.py, whichever it is.
pythonOutputPath(f, handler) ==
  <<f, IF handler = "protobuf" /\ Cardinality(pythonHandlers) > 1 THEN "mcp_pb" ELSE "mcp">>

\* A tool on a google.protobuf message has no dataclass, and a message must not
\* have the name of a mapper that every module has.
Unrenderable(f, handler) ==
  /\ handler = "dataclass"
  /\ \/ \E m \in Range(models[f].tools) : {m.input, m.output} \cap WellKnown # {}
     \/ \E t \in Current(f, models[f].graph) \ Enums : pythonPublicTypeName(t) \in {<<w>> : w \in WellKnown}

PythonModule(f, handler) ==
  IF handler = "dataclass"
    THEN [defines |-> {TypeName(t) : t \in Current(f, models[f].graph)}, uses |-> Foreign(f, models[f].graph)]
    ELSE [defines |-> {}, uses |-> {}]

RenderPython ==
  /\ stage = "render" /\ ~AtEnd /\ opts.lang = "python"
  /\ LET needed == {h \in pythonHandlers : Generated(File) /\ pythonModelRequiresOutput(File, h)}
         paths == {pythonOutputPath(File, h) : h \in needed}
         at(p) == CHOOSE h \in needed : pythonOutputPath(File, h) = p
     IN IF \E h \in needed : Unrenderable(File, h)
          THEN Fail
          ELSE /\ outputs' = [p \in paths \cup DOMAIN outputs |->
                                IF p \in paths THEN PythonModule(File, at(p)) ELSE outputs[p]]
               /\ next' = next + 1
               /\ UNCHANGED <<fields, project, params, opts, stage, models, extraRefs, collector>>

Render ==
  /\ stage = "render" /\ ~AtEnd /\ opts.lang # "python"
  /\ outputs' = IF Generated(File) /\ Callable(models[File])
                  THEN Set(outputs, <<File, "mcp">>, [defines |-> {}, uses |-> {}])
                  ELSE outputs
  /\ next' = next + 1
  /\ UNCHANGED <<fields, project, params, opts, stage, models, extraRefs, collector>>

Rendered ==
  /\ stage = "render" /\ AtEnd
  /\ stage' = "done"
  /\ UNCHANGED <<fields, project, params, opts, next, models, extraRefs, outputs, collector>>

Generate ==
  \/ ReadParam \/ RejectParam \/ Options
  \/ SkipFile \/ RefuseFile \/ CollectFile \/ CollectTypes \/ CollectedFile \/ CollectedAll
  \/ AugmentFile \/ AugmentedFile \/ Augmented
  \/ RenderPython \/ Render \/ Rendered

Next == Generate

Spec == Init /\ [][Next]_run

----------------------------------------------------------------------------
\* A walk that does not fail lists the types below those it starts from, all of them
\* and no other, once each, though messages refer to each other and to themselves.
CollectsReachable ==
  stage = "types" /\ Collected /\ ~graph.failed =>
    LET types == TypeRoots(File)
    IN Range(graph.types) = Reachable(Range(types)) /\ IsInjective(graph.types)

\* A Python module refers to classes of another module of the run only if that
\* module was written and has them: also when the other file has no tools, when
\* its tools are hidden, and when its tools do not use these types.
PublicTypesDefined ==
  stage = "done" =>
    \A p \in DOMAIN outputs : \A t \in outputs[p].uses :
      Generated(FileOf[t]) =>
        /\ <<FileOf[t], "mcp">> \in DOMAIN outputs
        /\ TypeName(t) \in outputs[<<FileOf[t], "mcp">>].defines

\* No module gives one name to two messages or enums, whichever of the file's tools,
\* its own types and the other files' needs brought them in: the second class would
\* replace the first without a word.
TypeNamesDistinct ==
  \A p \in DOMAIN outputs : \A a, b \in outputs[p].defines : a.name = b.name => a = b

\* The tools of a finished run have names within the limit under their services' own
\* namespaces, the same in the five languages as long as no blank is inside a name: the
\* plugin measures names that the runtimes put together later, each with its own code.
ToolNamesFit ==
  stage = "done" =>
    \A f \in DOMAIN models : \A m \in Range(models[f].tools) :
      LET nameIn(lang) == ToolNameIn(lang, Namespace(m), MethodName(m))
          languages == {"go", "python", "java", "kotlin", "typescript"}
      IN /\ \A lang \in languages : Len(nameIn(lang)) <= maxToolNameLength
         /\ Blank \notin Range(Namespace(m)) \cup Range(MethodName(m)) =>
              \A lang \in languages : nameIn(lang) = nameIn("go")
=============================================================================
