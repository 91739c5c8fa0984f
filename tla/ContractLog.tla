----------------------------- MODULE ContractLog -----------------------------
(***************************************************************************)
(* What a contract's history promises ("History stays linear and complete; *)
(* nothing is rewritten", contract_service.go): one log of versions per    *)
(* project, to which whole publications and whole rollbacks are appended,  *)
(* and a file that holds what memory has, or had when it was last saved.   *)
(*                                                                         *)
(* There are no threads here, and nothing is read in one step and used in  *)
(* another one.                                                            *)
(***************************************************************************)
EXTENDS Naturals, Sequences

CONSTANTS Project, Doc

VARIABLES
  projects, contracts,  \* the projects, and the log of each
  saved,                \* the file
  deleted               \* the projects a deletion has ever been asked for

vars == <<projects, contracts, saved, deleted>>

Init ==
  /\ projects = Project
  /\ contracts = [p \in Project |-> <<>>]
  /\ saved = [projects |-> projects, contracts |-> contracts]
  /\ deleted = {}

\* The next version, under the next number.
AppendNext(p, doc, source) ==
  /\ contracts' = [contracts EXCEPT ![p] =
       Append(@, [doc |-> doc, version |-> Len(@) + 1, source |-> source])]
  /\ UNCHANGED <<projects, deleted>>

Publish(p) == \E d \in Doc : AppendNext(p, d, 0)

\* The contract of a version the log has now.
Rollback(p) == \E k \in DOMAIN contracts[p] : AppendNext(p, contracts[p][k].doc, k)

\* A rollback that was under way when its project was deleted: the version it
\* goes back to is gone, and it still appends its own.
LateRollback(p) ==
  LET new == contracts'[p][Len(contracts'[p])]
  IN /\ p \in deleted
     /\ contracts'[p] # <<>>
     /\ new.doc \in Doc /\ new.source \in Nat
     /\ AppendNext(p, new.doc, new.source)

Delete(p) ==
  /\ p \in projects
  /\ projects' = projects \ {p}
  /\ contracts' = [contracts EXCEPT ![p] = <<>>]
  /\ deleted' = deleted \cup {p}

\* Whatever changes memory, the file follows or stays as it was.
Saves == saved' = [projects |-> projects', contracts |-> contracts']
MaySave == Saves \/ UNCHANGED saved

Change == \E p \in Project : (Publish(p) \/ Rollback(p) \/ LateRollback(p) \/ Delete(p)) /\ MaySave

Save == Saves /\ UNCHANGED <<projects, contracts, deleted>>

Restart ==
  /\ projects' = saved.projects
  /\ contracts' = saved.contracts
  /\ UNCHANGED <<saved, deleted>>

Next == Change \/ Save \/ Restart

Spec == Init /\ [][Next]_vars

=============================================================================
