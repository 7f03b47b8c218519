--------------------------- MODULE OrderedDelivery ---------------------------
(***************************************************************************)
(* What the listen stream of a session promises its clients, with no       *)
(* buffer, channel, goroutine or connection in sight: events are numbered  *)
(* in publication order, and each client is handed a strictly increasing   *)
(* sequence of published numbers.  An event may never arrive (delivery is  *)
(* at most once), but none arrives twice, out of order, or before it was   *)
(* published.                                                              *)
(***************************************************************************)
EXTENDS Naturals

CONSTANT Clients

VARIABLES
  published,  \* number of the newest event
  cursor      \* cursor[k]: newest event client k has received, 0 for none

vars == <<published, cursor>>

Init ==
  /\ published = 0
  /\ cursor = [k \in Clients |-> 0]

Publish ==
  /\ published' = published + 1
  /\ UNCHANGED cursor

Deliver(k) ==
  /\ \E e \in (cursor[k] + 1)..published : cursor' = [cursor EXCEPT ![k] = e]
  /\ UNCHANGED published

Next == Publish \/ \E k \in Clients : Deliver(k)

Spec == Init /\ [][Next]_vars
=============================================================================
