---------------------------- MODULE MCListenStream ----------------------------
(* Small instances of ListenStream for TLC. *)
EXTENDS ListenStream, TLC

CONSTANTS k1, k2, h1, h2, h3
=============================================================================
