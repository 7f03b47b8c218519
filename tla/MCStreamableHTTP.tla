--------------------------- MODULE MCStreamableHTTP ---------------------------
(* Small instances of StreamableHTTP for TLC. *)
EXTENDS StreamableHTTP, TLC

CONSTANTS s1, s2, h1, h2, h3

MCSymmetry == Permutations(Sessions) \cup Permutations(Handlers)
=============================================================================
