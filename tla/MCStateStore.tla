---------------------------- MODULE MCStateStore ----------------------------
(***************************************************************************)
(* Small instances of StateStore for TLC.                                  *)
(***************************************************************************)
EXTENDS StateStore, TLC

CONSTANTS t1, t2, v, uuid1

Number(n) == [number |-> TRUE, key |-> n]
Name(k) == [number |-> FALSE, key |-> k]
Fields(x) == [g \in Field |-> x]

\* Objects with an id of each kind, and without one; one leaves its field out,
\* which tells a merge from a replacement.
IdBodies ==
  {[id |-> NoId, fields |-> Fields(v)], [id |-> Number(2), fields |-> Fields(Unset)],
   [id |-> Name(1), fields |-> Fields(v)]}

\* An object without an id, and one with the largest int there is.
EdgeBodies ==
  {[id |-> NoId, fields |-> Fields(v)], [id |-> Number(MaxInt), fields |-> Fields(v)]}

\* A seed that is accepted and one whose second object collides with the id
\* generated for the first.
Seeds ==
  {<<[id |-> NoId, fields |-> Fields(v)]>>,
   <<[id |-> NoId, fields |-> Fields(v)], [id |-> Number(1), fields |-> Fields(v)]>>}

ThreadSymmetry == Permutations({t1, t2})
=============================================================================
