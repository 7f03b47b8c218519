------------------------------ MODULE Sublists ------------------------------
(***************************************************************************)
(* SelectSeq with a set in place of its operator, so that what it returns  *)
(* can be stated once, for every set.                                      *)
(***************************************************************************)
EXTENDS Integers, Sequences

\* The elements of a sequence that are in a set, in their order.
Only(s, S) ==
  LET upTo[n \in 0..Len(s)] ==
        IF n = 0 THEN <<>> ELSE IF s[n] \in S THEN Append(upTo[n - 1], s[n]) ELSE upTo[n - 1]
  IN upTo[Len(s)]
=============================================================================
