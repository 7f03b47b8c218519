--------------------------- MODULE SessionLifecycle ---------------------------
(***************************************************************************)
(* What the session manager promises, with no map, lock, stream or         *)
(* goroutine in sight: a session id is used for one session only, which    *)
(* negotiates a protocol version at most once and, once ended, never comes *)
(* back.                                                                   *)
(***************************************************************************)
CONSTANTS Sessions, Versions, NoVersion

VARIABLES
  phase,      \* phase[s]: "unused", "live" or "ended"
  negotiated  \* negotiated[s]: the version agreed by initialize, or NoVersion

vars == <<phase, negotiated>>

Init ==
  /\ phase = [s \in Sessions |-> "unused"]
  /\ negotiated = [s \in Sessions |-> NoVersion]

Start(s) ==
  /\ phase[s] = "unused"
  /\ phase' = [phase EXCEPT ![s] = "live"]
  /\ UNCHANGED negotiated

\* An initialize that was under way when its session ended may still succeed.
Negotiate(s, v) ==
  /\ phase[s] # "unused" /\ negotiated[s] = NoVersion
  /\ negotiated' = [negotiated EXCEPT ![s] = v]
  /\ UNCHANGED phase

\* Sessions end one at a time (DELETE) or together (expiry, shutdown).
End(S) ==
  /\ S # {} /\ \A s \in S : phase[s] = "live"
  /\ phase' = [s \in Sessions |-> IF s \in S THEN "ended" ELSE phase[s]]
  /\ UNCHANGED negotiated

Next ==
  \/ \E s \in Sessions : Start(s)
  \/ \E s \in Sessions, v \in Versions : Negotiate(s, v)
  \/ \E S \in SUBSET Sessions : End(S)

Spec == Init /\ [][Next]_vars
=============================================================================
