----------------------------- MODULE ToolContract -----------------------------
(***************************************************************************)
(* What a generated server promises for one tools/call, in every language: *)
(* a name nobody serves and arguments that do not validate or decode are   *)
(* refused as invalid params before any user code runs; user code runs at  *)
(* most once; what it returns is answered once, as a result only when it   *)
(* was encoded and agrees with the output schema.                          *)
(***************************************************************************)
CONSTANTS InvalidParams, ToolError, Internal, Success, NoAnswer

VARIABLES phase, sound, answer

vars == <<phase, sound, answer>>

Init == phase = "idle" /\ sound = FALSE /\ answer = NoAnswer

Ask(ok) == phase = "idle" /\ phase' = "asked" /\ sound' = ok /\ answer' = NoAnswer

Refuse ==
  /\ phase = "asked" /\ ~sound
  /\ phase' = "idle" /\ sound' = FALSE /\ answer' = InvalidParams

\* User code starts: sound becomes what it will return.
Invoke(ok) == phase = "asked" /\ sound /\ phase' = "invoked" /\ sound' = ok /\ UNCHANGED answer

Finish ==
  /\ phase = "invoked"
  /\ phase' = "idle" /\ sound' = FALSE
  /\ answer' \in (IF sound THEN {Success} ELSE {ToolError, Internal})

Next == (\E ok \in BOOLEAN : Ask(ok) \/ Invoke(ok)) \/ Refuse \/ Finish

Spec == Init /\ [][Next]_vars
=============================================================================
