--------------------------- MODULE MCRecordReplay ---------------------------
(***************************************************************************)
(* A small instance of RecordReplay for TLC: two handlers and three        *)
(* requests, so that two identical ones are recorded at once and a third   *)
(* one comes afterwards.                                                   *)
(***************************************************************************)
EXTENDS RecordReplay

CONSTANTS t1, t2, k, byId, byName

\* /users/me/{id} and /users/{name}/7 fit the request equally well; the other contract
\* has only the second one.
MCContracts == {[x \in Key |-> {byId, byName}], [x \in Key |-> {byName}]}
=============================================================================
