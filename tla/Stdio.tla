-------------------------------- MODULE Stdio --------------------------------
(***************************************************************************)
(* ServeIO of mcpruntime: one goroutine reads newline-delimited messages,  *)
(* hands each to HandleRaw and writes its response before it reads on.     *)
(*                                                                         *)
(* A line is what the loop tells apart; HandleRaw (see RpcServer) gives a  *)
(* response to a request and nil to a notification.  The client sends      *)
(* ahead without waiting, closes its end or breaks the pipe; the context   *)
(* may be cancelled at any time.                                           *)
(***************************************************************************)
EXTENDS Naturals, Sequences

CONSTANT MaxLines   \* bound: lines the client sends

ASSUME MaxLinesAssumption == MaxLines \in Nat

Lines == {"request", "notification", "blank", "tooLong"}

VARIABLES
  sent,       \* the lines the client has sent, in order
  stdin,      \* "open", "eof" or "broken" (a read error)
  cancelled,  \* ctx is done
  pc,         \* where the loop is
  read,       \* lines scanned so far
  out,        \* the lines whose responses have been written, in order
  result      \* what ServeIO has returned: "nil", "error", or "none" yet

client == <<sent, stdin, cancelled>>
vars == <<client, pc, read, out, result>>

-----------------------------------------------------------------------------
(* The client and the owner of the context *)

Send(l) ==
  /\ stdin = "open" /\ Len(sent) < MaxLines
  /\ sent' = Append(sent, l)
  /\ UNCHANGED <<stdin, cancelled, pc, read, out, result>>

CloseStdin ==
  /\ stdin = "open"
  /\ stdin' \in {"eof", "broken"}
  /\ UNCHANGED <<sent, cancelled, pc, read, out, result>>

Cancel ==
  /\ ~cancelled
  /\ cancelled' = TRUE
  /\ UNCHANGED <<sent, stdin, pc, read, out, result>>

-----------------------------------------------------------------------------
(* The loop *)

Return(r) ==
  /\ pc' = "returned"
  /\ result' = r

CheckContext ==
  /\ pc = "check"
  /\ IF cancelled THEN Return("nil") ELSE pc' = "scan" /\ UNCHANGED result
  /\ UNCHANGED <<client, read, out>>

\* scanner.Scan has a line; it blocks while there is none and stdin stays open.
Scan ==
  /\ pc = "scan" /\ read < Len(sent)
  /\ IF sent[read + 1] = "tooLong"
       THEN Return("error") /\ UNCHANGED read
       ELSE /\ read' = read + 1
            /\ pc' = IF sent[read + 1] = "blank" THEN "check" ELSE "handle"
            /\ UNCHANGED result
  /\ UNCHANGED <<client, out>>

\* MUTANT: at the end of the input the loop tries again.
ScanEndAgain ==
  /\ pc = "scan" /\ read = Len(sent) /\ stdin # "open"
  /\ IF stdin = "broken" THEN Return("error") ELSE pc' = "check" /\ UNCHANGED result
  /\ UNCHANGED <<client, read, out>>

\* scanner.Scan is false: scanner.Err tells the end of the input from an error.
ScanEnd ==
  /\ pc = "scan" /\ read = Len(sent) /\ stdin # "open"
  /\ Return(IF stdin = "broken" THEN "error" ELSE "nil")
  /\ UNCHANGED <<client, read, out>>

\* MUTANT: a notification ends the loop.
HandleAndStop ==
  /\ pc = "handle"
  /\ IF sent[read] = "request" THEN pc' = "write" /\ UNCHANGED result ELSE Return("nil")
  /\ UNCHANGED <<client, read, out>>

\* MUTANT: the test of the response against nil is inverted.
HandleInverted ==
  /\ pc = "handle"
  /\ pc' = IF sent[read] = "request" THEN "check" ELSE "write"
  /\ UNCHANGED <<client, read, out, result>>

\* HandleRaw returns a response, or nil for a notification.
Handle ==
  /\ pc = "handle"
  /\ pc' = IF sent[read] = "request" THEN "write" ELSE "check"
  /\ UNCHANGED <<client, read, out, result>>

WriteResponse ==
  /\ pc = "write"
  /\ \/ out' = Append(out, read) /\ pc' = "check" /\ UNCHANGED result
     \/ Return("error") /\ UNCHANGED out
  /\ UNCHANGED <<client, read>>

-----------------------------------------------------------------------------
Init ==
  /\ sent = <<>> /\ stdin = "open" /\ cancelled = FALSE
  /\ pc = "check" /\ read = 0 /\ out = <<>> /\ result = "none"

Loop == CheckContext \/ Scan \/ ScanEnd \/ Handle \/ WriteResponse

Next ==
  \/ \E l \in Lines : Send(l)
  \/ CloseStdin \/ Cancel
  \/ Loop

Spec == Init /\ [][Next]_vars

\* The goroutine runs, and whoever reads stdout goes on reading it.
FairSpec == Spec /\ WF_vars(Loop)

-----------------------------------------------------------------------------
Requests(n) == {i \in 1..n : sent[i] = "request"}

\* Responses are written in the order of their requests, one each, none skipped:
\* a client that pipelines requests can match responses by order alone.
AnsweredInOrder ==
  /\ \A i, j \in DOMAIN out : i < j => out[i] < out[j]
  /\ {out[i] : i \in DOMAIN out} =
       Requests(IF pc \in {"handle", "write"} THEN read - 1 ELSE read)
     \/ result = "error"

\* ServeIO returns nil without having been cancelled only after every request
\* that the client has sent has been answered.
NothingLeftUnanswered ==
  result = "nil" /\ ~cancelled =>
    stdin = "eof" /\ {out[i] : i \in DOMAIN out} = Requests(Len(sent))

\* ServeIO returns once stdin is closed.
EndOfInputReturns == (stdin # "open") ~> (pc = "returned")
=============================================================================
