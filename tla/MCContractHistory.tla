-------------------------- MODULE MCContractHistory --------------------------
(***************************************************************************)
(* Small instances of ContractHistory for TLC: an original contract and an *)
(* extension of it.  Adding to a contract is compatible, going back to the *)
(* original breaks the extension.                                          *)
(***************************************************************************)
EXTENDS ContractHistory, TLC

CONSTANTS t1, t2, original, extended

GoingBackBreaks == {<<extended, original>>}

ThreadSymmetry == Permutations({t1, t2})
=============================================================================
