-------------------------- MODULE MCGeneratedServer --------------------------
(***************************************************************************)
(* Two generated files: A with two services, B with one whose names clash  *)
(* with both of them; a server that may have been set up by hand before.   *)
(***************************************************************************)
EXTENDS GeneratedServer

MCFileOf == [r1 |-> "A", r2 |-> "A", r3 |-> "B"]
MCNamesOf == [r1 |-> <<"x", "y">>, r2 |-> <<"z">>, r3 |-> <<"w", "z">>]
=============================================================================
