------------------------------- MODULE Walks -------------------------------
(***************************************************************************)
(* Walks along a sequence, as recursive functions of how far the walk has  *)
(* come: what SelectSeq does, in a form that can be reasoned about.        *)
(***************************************************************************)
EXTENDS Naturals, Sequences

\* The elements of s that are in S, in their order.
Picked(s, S) ==
  LET picked[i \in 0 .. Len(s)] ==
        IF i = 0 THEN <<>>
        ELSE IF s[i] \in S THEN Append(picked[i - 1], s[i]) ELSE picked[i - 1]
  IN  picked[Len(s)]
=============================================================================
