----------------------------- MODULE StdioProofs -----------------------------
(***************************************************************************)
(* What TLAPS proves of Stdio, for any number of lines.                    *)
(***************************************************************************)
EXTENDS Stdio, SequenceTheorems, TLAPS

Types ==
  /\ sent \in Seq(Lines)
  /\ stdin \in {"open", "eof", "broken"}
  /\ cancelled \in BOOLEAN
  /\ pc \in {"check", "scan", "handle", "write", "returned"}
  /\ read \in 0..Len(sent)
  /\ out \in Seq(Nat)
  /\ result \in {"none", "nil", "error"}

\* Where the loop is, what it has at hand, and that it returns once.
Place ==
  /\ pc \in {"handle", "write"} => read > 0
  /\ pc = "write" => sent[read] = "request"
  /\ pc = "returned" <=> result # "none"

\* The number of lines that the loop is done with.
Settled == IF pc \in {"handle", "write"} THEN read - 1 ELSE read

Written == {out[i] : i \in DOMAIN out}

Increasing(s) == \A i, j \in DOMAIN s : i < j => s[i] < s[j]

Answered ==
  /\ Increasing(out)
  /\ result # "error" => Written = Requests(Settled)

\* A quiet end is the end of the input.
EndSeen == result = "nil" /\ cancelled = FALSE => stdin = "eof" /\ read = Len(sent)

Inv == Types /\ Place /\ Answered /\ EndSeen

LEMMA StdioInit == Init => Inv
<1> SUFFICES ASSUME Init PROVE Inv
  OBVIOUS
<1>1. Types
  <2>1. sent \in Seq(Lines) /\ out \in Seq(Nat) /\ read \in 0..Len(sent)
    BY EmptySeq DEF Init
  <2>2. cancelled \in BOOLEAN
    BY DEF Init
  <2>3. /\ stdin \in {"open", "eof", "broken"} /\ result \in {"none", "nil", "error"}
        /\ pc \in {"check", "scan", "handle", "write", "returned"}
    BY DEF Init
  <2> QED BY <2>1, <2>2, <2>3 DEF Types
<1>2. Place
  BY DEF Init, Place
<1>3. Written = {} /\ Increasing(out)
  <2>1. out = <<>> /\ DOMAIN <<>> = {}
    BY DEF Init
  <2> QED BY <2>1 DEF Written, Increasing
<1>4. Requests(0) = {}
  <2>1. 1..0 = {}
    OBVIOUS
  <2> QED BY <2>1 DEF Requests
<1>5. Answered
  BY <1>3, <1>4 DEF Init, Answered, Settled
<1>6. EndSeen
  BY DEF Init, EndSeen
<1> QED BY <1>1, <1>2, <1>5, <1>6 DEF Inv

\* A line sent later is none of the first n.
LEMMA SentKeepsRequests ==
  ASSUME sent \in Seq(Lines), NEW l \in Lines, sent' = Append(sent, l), NEW n \in 0..Len(sent)
  PROVE  Requests(n)' = Requests(n)
<1>1. \A i \in 1..n : sent'[i] = sent[i]
  BY LenProperties
<1> QED BY <1>1 DEF Requests

LEMMA SendStep ==
  ASSUME Inv, NEW l \in Lines, Send(l)
  PROVE  Inv'
<1> USE DEF Inv
<1>1. Len(sent) \in Nat /\ Len(sent') = Len(sent) + 1 /\ sent' \in Seq(Lines)
      /\ \A i \in 1..Len(sent) : sent'[i] = sent[i]
  BY LenProperties DEF Send, Types
<1>2. Types'
  BY <1>1 DEF Send, Types
<1>3. read \in 0..Len(sent) /\ (pc \in {"handle", "write"} => read \in 1..Len(sent))
  BY <1>1 DEF Types, Place
<1>4. Place'
  BY <1>1, <1>3 DEF Send, Place
<1>5. Requests(Settled)' = Requests(Settled)
  <2>1. Settled \in 0..Len(sent) /\ Settled' = Settled
    BY <1>1, <1>3 DEF Send, Settled
  <2> QED BY <2>1, SentKeepsRequests DEF Send, Types, Requests
<1>6. Answered'
  BY <1>5 DEF Send, Answered, Written, Increasing
<1>7. EndSeen'
  BY DEF Send, EndSeen
<1> QED BY <1>2, <1>4, <1>6, <1>7

\* Closing stdin and cancelling the context take nothing back.
LEMMA ClientStep ==
  ASSUME Inv, CloseStdin \/ Cancel
  PROVE  Inv'
<1> USE DEF Inv
<1>1. Types'
  BY DEF CloseStdin, Cancel, Types
<1>2. Place'
  BY DEF CloseStdin, Cancel, Place
<1>3. Answered'
  <2>1. UNCHANGED <<sent, pc, read, out, result>>
    BY DEF CloseStdin, Cancel
  <2> QED BY <2>1 DEF Answered, Settled, Written, Requests, Increasing
<1>4. EndSeen'
  BY DEF CloseStdin, Cancel, EndSeen, Types
<1> QED BY <1>1, <1>2, <1>3, <1>4

\* Line n + 1, answered or not in need of an answer.
LEMMA RequestsGrow ==
  ASSUME NEW n \in Nat
  PROVE  Requests(n + 1) = IF sent[n + 1] = "request" THEN Requests(n) \cup {n + 1} ELSE Requests(n)
<1>1. 1..(n + 1) = 1..n \cup {n + 1}
  OBVIOUS
<1> QED BY <1>1 DEF Requests

LEMMA CheckContextStep ==
  ASSUME Inv, CheckContext
  PROVE  Inv'
<1> USE DEF Inv
<1>1. Types' /\ Place'
  BY DEF CheckContext, Return, client, Types, Place
<1>2. Answered'
  <2>1. UNCHANGED <<sent, read, out>> /\ pc = "check" /\ pc' \in {"scan", "returned"}
    BY DEF CheckContext, Return, client
  <2>2. result # "error"
    BY <2>1 DEF Place
  <2> QED BY <2>1, <2>2 DEF Answered, Settled, Written, Requests, Increasing
<1>3. EndSeen'
  BY DEF CheckContext, Return, client, EndSeen, Types
<1> QED BY <1>1, <1>2, <1>3

LEMMA ScanStep ==
  ASSUME Inv, Scan
  PROVE  Inv'
<1> USE DEF Inv
<1>1. /\ pc = "scan" /\ result = "none" /\ read \in Nat /\ read + 1 \in 1..Len(sent)
      /\ UNCHANGED <<sent, stdin, cancelled, out>>
      /\ Written = Requests(read) /\ Increasing(out)
  BY LenProperties DEF Scan, client, Types, Place, Answered, Settled
<1>2. CASE sent[read + 1] = "tooLong"
  <2>1. pc' = "returned" /\ result' = "error" /\ read' = read
    BY <1>2 DEF Scan, Return
  <2> QED BY <1>1, <2>1 DEF Types, Place, Answered, EndSeen, Increasing
<1>3. CASE sent[read + 1] # "tooLong"
  <2>1. /\ read' = read + 1 /\ result' = result
        /\ pc' = IF sent[read + 1] = "blank" THEN "check" ELSE "handle"
    BY <1>3 DEF Scan
  <2>2. Types' /\ Place'
    BY <1>1, <2>1 DEF Types, Place
  <2>3. Settled' = IF sent[read + 1] = "blank" THEN read + 1 ELSE read
    BY <1>1, <2>1 DEF Settled
  <2>4. Requests(Settled') = Requests(read)
    BY <1>1, <2>3, RequestsGrow
  <2>5. Answered'
    BY <1>1, <2>4 DEF Answered, Written, Increasing, Requests
  <2>6. EndSeen'
    BY <1>1, <2>1 DEF EndSeen
  <2> QED BY <2>2, <2>5, <2>6
<1> QED BY <1>2, <1>3

LEMMA ScanEndStep ==
  ASSUME Inv, ScanEnd
  PROVE  Inv'
<1> USE DEF Inv
<1>1. /\ pc = "scan" /\ result = "none" /\ read = Len(sent) /\ stdin \in {"eof", "broken"}
      /\ UNCHANGED <<sent, stdin, cancelled, read, out>>
      /\ pc' = "returned" /\ result' = IF stdin = "broken" THEN "error" ELSE "nil"
  BY DEF ScanEnd, Return, client, Types, Place
<1>2. Types' /\ Place'
  BY <1>1 DEF Types, Place
<1>3. Answered'
  BY <1>1 DEF Answered, Settled, Written, Requests, Increasing
<1>4. EndSeen'
  BY <1>1 DEF EndSeen
<1> QED BY <1>2, <1>3, <1>4

LEMMA HandleStep ==
  ASSUME Inv, Handle
  PROVE  Inv'
<1> USE DEF Inv
<1>1. /\ pc = "handle" /\ result = "none" /\ read \in 1..Len(sent) /\ Len(sent) \in Nat
      /\ UNCHANGED <<sent, stdin, cancelled, read, out, result>>
      /\ pc' = IF sent[read] = "request" THEN "write" ELSE "check"
      /\ Written = Requests(read - 1) /\ Increasing(out)
  BY LenProperties DEF Handle, client, Types, Place, Answered, Settled
<1>2. Types' /\ Place'
  BY <1>1 DEF Types, Place
<1>3. Settled' = IF sent[read] = "request" THEN read - 1 ELSE read
  BY <1>1 DEF Settled
<1>4. Requests(Settled') = Requests(read - 1)
  <2>1. read - 1 \in Nat /\ (read - 1) + 1 = read
    BY <1>1
  <2> QED BY <1>3, <2>1, RequestsGrow
<1>5. Answered'
  BY <1>1, <1>4 DEF Answered, Written, Requests, Increasing
<1>6. EndSeen'
  BY <1>1 DEF EndSeen
<1> QED BY <1>2, <1>5, <1>6

LEMMA WriteResponseStep ==
  ASSUME Inv, WriteResponse
  PROVE  Inv'
<1> USE DEF Inv
<1>1. /\ pc = "write" /\ result = "none" /\ read \in 1..Len(sent) /\ Len(sent) \in Nat
      /\ UNCHANGED <<sent, stdin, cancelled, read>> /\ sent[read] = "request"
      /\ Written = Requests(read - 1) /\ Increasing(out)
      /\ out \in Seq(Nat)
  BY LenProperties DEF WriteResponse, client, Types, Place, Answered, Settled
<1>2. CASE out' = Append(out, read) /\ pc' = "check" /\ UNCHANGED result
  <2>1. /\ Append(out, read) \in Seq(Nat)
        /\ DOMAIN out = 1..Len(out) /\ Len(out) \in Nat
        /\ DOMAIN Append(out, read) = 1..(Len(out) + 1)
        /\ \A i \in 1..Len(out) : Append(out, read)[i] = out[i]
        /\ Append(out, read)[Len(out) + 1] = read
    BY <1>1, LenProperties
  <2>2. Types' /\ Place'
    BY <1>1, <1>2, <2>1 DEF Types, Place
  <2>3. \A i \in 1..Len(out) : out[i] < read
    <3>1. \A i \in 1..Len(out) : out[i] \in Requests(read - 1)
      BY <1>1, <2>1 DEF Written
    <3> QED BY <1>1, <3>1 DEF Requests
  <2>4. Increasing(Append(out, read))
    <3> SUFFICES ASSUME NEW i \in 1..(Len(out) + 1), NEW j \in 1..(Len(out) + 1), i < j
                 PROVE  Append(out, read)[i] < Append(out, read)[j]
      BY <2>1 DEF Increasing
    <3>1. i \in 1..Len(out)
      BY <2>1
    <3>2. CASE j = Len(out) + 1
      BY <2>1, <2>3, <3>1, <3>2
    <3>3. CASE j # Len(out) + 1
      <4>1. j \in 1..Len(out)
        BY <2>1, <3>3
      <4> QED BY <1>1, <2>1, <3>1, <4>1 DEF Increasing
    <3> QED BY <3>2, <3>3
  <2>5. Written' = Written \cup {read}
    <3>1. Written' = {Append(out, read)[i] : i \in 1..(Len(out) + 1)}
      BY <1>2, <2>1 DEF Written
    <3>2. 1..(Len(out) + 1) = 1..Len(out) \cup {Len(out) + 1}
      BY <2>1
    <3>3. Written = {out[i] : i \in 1..Len(out)}
      BY <2>1 DEF Written
    <3> QED BY <2>1, <3>1, <3>2, <3>3
  <2>6. Requests(read) = Requests(read - 1) \cup {read}
    <3>1. read - 1 \in Nat /\ (read - 1) + 1 = read
      BY <1>1
    <3> QED BY <1>1, <3>1, RequestsGrow
  <2>7. Settled' = read
    BY <1>1, <1>2 DEF Settled
  <2>8. Written' = Requests(Settled)'
    BY <1>1, <2>5, <2>6, <2>7 DEF Requests
  <2>9. Answered'
    BY <1>2, <2>4, <2>8 DEF Answered
  <2>10. EndSeen'
    BY <1>1, <1>2 DEF EndSeen
  <2> QED BY <2>2, <2>9, <2>10
<1>3. CASE Return("error") /\ UNCHANGED out
  BY <1>1, <1>3 DEF Return, Types, Place, Answered, EndSeen, Increasing
<1> QED BY <1>2, <1>3 DEF WriteResponse

LEMMA StdioStep == Inv /\ [Next]_vars => Inv'
<1> SUFFICES ASSUME Inv, [Next]_vars PROVE Inv'
  OBVIOUS
<1>1. CASE UNCHANGED vars
  <2>1. UNCHANGED <<sent, stdin, cancelled, pc, read, out, result>>
    BY <1>1 DEF vars, client
  <2> QED BY <2>1 DEF Inv, Types, Place, Answered, Settled, Written, Requests, Increasing, EndSeen
<1> QED BY <1>1, SendStep, ClientStep, CheckContextStep, ScanStep, ScanEndStep, HandleStep,
          WriteResponseStep DEF Next, Loop

\* AnsweredInOrder: the responses written are those of the requests read, in their order.
THEOREM RequestsAnsweredInOrder == Spec => []AnsweredInOrder
<1>1. Inv => AnsweredInOrder
  BY DEF Inv, Answered, Increasing, Written, Settled, AnsweredInOrder
<1> QED BY <1>1, StdioInit, StdioStep, PTL DEF Spec

\* NothingLeftUnanswered: ServeIO ends quietly only with every request answered.
THEOREM QuietEndAnswersAll == Spec => []NothingLeftUnanswered
<1>1. Inv => NothingLeftUnanswered
  <2> SUFFICES ASSUME Inv, result = "nil", cancelled = FALSE
               PROVE  stdin = "eof" /\ {out[i] : i \in DOMAIN out} = Requests(Len(sent))
    BY DEF NothingLeftUnanswered, Inv, Types
  <2>1. pc = "returned" /\ stdin = "eof" /\ read = Len(sent)
    BY DEF Inv, Place, EndSeen
  <2> QED BY <2>1 DEF Inv, Answered, Written, Settled
<1> QED BY <1>1, StdioInit, StdioStep, PTL DEF Spec
=============================================================================
