---------------------------- MODULE GeneratedCode ----------------------------
(***************************************************************************)
(* A run of the plugin and what becomes of its output: the mappers of a    *)
(* Python module convert the messages of calls, and a server has the       *)
(* prompts and resources that Register functions of the other languages    *)
(* add.  Each step is one of the run, of a call or of the server.          *)
(***************************************************************************)
EXTENDS PythonCalls, PromptServing

GeneratedInit == Init /\ CallsInit /\ ServingInit

GeneratedNext ==
  \/ Next /\ UNCHANGED <<call, serving>>
  \/ Call /\ UNCHANGED serving
  \/ Serve /\ UNCHANGED call

GeneratedSpec == GeneratedInit /\ [][GeneratedNext]_<<run, call, serving>>
=============================================================================
