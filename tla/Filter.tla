------------------------------- MODULE Filter -------------------------------
(***************************************************************************)
(* [x for x in t if x in S]: what the code's list comprehensions keep of a *)
(* list. It is SelectSeq with a set for the test, written as a recursive   *)
(* function, which FilterProofs proves about.                              *)
(***************************************************************************)
EXTENDS Naturals, Sequences

Kept(t, S) ==
  LET K[n \in 0..Len(t)] ==
        IF n = 0 THEN <<>>
        ELSE IF t[n] \in S THEN Append(K[n - 1], t[n]) ELSE K[n - 1]
  IN  K[Len(t)]
=============================================================================
