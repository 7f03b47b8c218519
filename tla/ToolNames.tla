------------------------------ MODULE ToolNames ------------------------------
(***************************************************************************)
(* The name of a tool: the service's namespace and the method's name, each *)
(* with its dots and underscores brought into one form, joined.  The       *)
(* plugin checks the length of a name; the runtime of each language makes  *)
(* the name again, in its own way, when the tool is registered.            *)
(*                                                                         *)
(* A name is a sequence of characters.                                     *)
(***************************************************************************)
EXTENDS Integers, Sequences, SequencesExt, Sublists

CONSTANTS maxToolNameLength, Characters

Dot == "."
Underscore == "_"
Separators == {Dot, Underscore}
Blank == " "

ASSUME NamesAssumption == maxToolNameLength \in Nat /\ {Dot, Underscore, Blank} \subseteq Characters

Text == Seq(Characters)
NonEmpty == Text \ {<<>>}
NonBlank == Text \ Seq({Blank})

TrimSpace(text) ==
  LET kept == {i \in DOMAIN text : text[i] # Blank}
  IN IF kept = {} THEN <<>> ELSE SubSeq(text, Min(kept), Max(kept))

\* The words between separators, empty ones included.
Split(text) ==
  LET upTo[n \in 0..Len(text)] ==
        IF n = 0
          THEN << <<>> >>
          ELSE LET words == upTo[n - 1]
               IN IF text[n] \in Separators
                    THEN Append(words, <<>>)
                    ELSE [words EXCEPT ![Len(words)] = Append(@, text[n])]
  IN upTo[Len(text)]

Joined(namespace, name) ==
  IF namespace = <<>> THEN name ELSE IF name = <<>> THEN namespace ELSE namespace \o <<Underscore>> \o name

Join(words) ==
  LET upTo[n \in 0..Len(words)] == IF n = 0 THEN <<>> ELSE Joined(upTo[n - 1], words[n])
  IN upTo[Len(words)]

----------------------------------------------------------------------------
\* The plugin.
Namespace(method) == TrimSpace(method.namespace)

MethodName(method) ==
  IF TrimSpace(method.option) # <<>> THEN TrimSpace(method.option) ELSE method.name

normalizeSegment(segment) ==
  LET trimmed == TrimSpace(segment)
  IN [i \in DOMAIN trimmed |-> IF trimmed[i] = Dot THEN Underscore ELSE trimmed[i]]

\* Unlike the runtimes this keeps the separator of an empty method name.
validateToolNameLength(namespace, name) ==
  LET full == IF normalizeSegment(namespace) = <<>>
                THEN normalizeSegment(name)
                ELSE normalizeSegment(namespace) \o <<Underscore>> \o normalizeSegment(name)
  IN Len(full) <= maxToolNameLength

----------------------------------------------------------------------------
\* The runtimes.  Go and Python join the words that are not empty, Java and Kotlin those
\* that are not blank; TypeScript shortens runs of separators and takes them off the ends.
normalizeToolSegment(segment) == Join(Only(Split(TrimSpace(segment)), NonEmpty))

normalizeToolSegmentJVM(segment) == Join(Only(Split(TrimSpace(segment)), NonBlank))

\* TypeScript without the step that shortens runs.
Underscores(text) == [i \in DOMAIN text |-> IF text[i] \in Separators THEN Underscore ELSE text[i]]
ShortenDotsOnly(text) == Underscores(text)

ShortenRuns(text) ==
  LET plain == Underscores(text)
      upTo[n \in 0..Len(text)] ==
        IF n = 0
          THEN <<>>
          ELSE LET done == upTo[n - 1]
               IN IF plain[n] = Underscore /\ done # <<>> /\ Last(done) = Underscore THEN done ELSE Append(done, plain[n])
  IN upTo[Len(text)]

normalizeToolSegmentTypeScript(segment) ==
  LET short == ShortenRuns(TrimSpace(segment))
      kept == {i \in DOMAIN short : short[i] # Underscore}
  IN IF kept = {} THEN <<>> ELSE SubSeq(short, Min(kept), Max(kept))

ToolNameIn(lang, namespace, name) ==
  CASE lang \in {"go", "python"} -> Joined(normalizeToolSegment(namespace), normalizeToolSegment(name))
    [] lang \in {"java", "kotlin"} -> Joined(normalizeToolSegmentJVM(namespace), normalizeToolSegmentJVM(name))
    [] lang = "typescript" -> Joined(normalizeToolSegmentTypeScript(namespace), normalizeToolSegmentTypeScript(name))
=============================================================================
