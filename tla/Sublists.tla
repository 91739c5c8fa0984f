------------------------------- MODULE Sublists -------------------------------
(***************************************************************************)
(* The loop that keeps some elements of a slice, in their order.  It is a  *)
(* function of the elements to keep, not of a test, and its steps have     *)
(* names, so that theorems can be stated about it (SublistProofs).         *)
(***************************************************************************)
EXTENDS Naturals, Sequences

\* Of the first n elements of list, those in S.
KeptOfFirst(list, S) ==
  LET kept[n \in 0 .. Len(list)] ==
        IF n = 0 THEN <<>>
        ELSE IF list[n] \in S THEN Append(kept[n - 1], list[n]) ELSE kept[n - 1]
  IN kept

Kept(list, S) == KeptOfFirst(list, S)[Len(list)]

=============================================================================
