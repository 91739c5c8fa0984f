---------------------------- MODULE MCDriftCheck ----------------------------
(***************************************************************************)
(* Small instances of DriftCheck for TLC: fewer slots than requests, and a *)
(* window that two projects' reports overflow.                             *)
(***************************************************************************)
EXTENDS DriftCheck
=============================================================================
