--------------------------- MODULE ContractHistory ---------------------------
(***************************************************************************)
(* The version history of a project's contract: publishing, rolling back   *)
(* and the alert on breaking changes (internal/usecase/contract_service.go *)
(* and contract_alerts.go) over the file-backed repository                 *)
(* (internal/adapter/repository/jsonstore/store.go).                       *)
(*                                                                         *)
(* A repository method holds the store's mutex from its first read to the  *)
(* end of its save, so each is one action here; a use case makes several   *)
(* such calls with nothing locked in between.  save writes the whole       *)
(* database to db.json.tmp and renames it, so it either replaces the file  *)
(* or fails and leaves it; the file is what a restarted process loads.     *)
(*                                                                         *)
(* A contract is a member of Doc: what matters of two contracts is whether *)
(* the detector finds that the second breaks the first.                    *)
(***************************************************************************)
EXTENDS Naturals, Sequences, FiniteSets

CONSTANTS
  Project, Thread,
  Doc,          \* valid contracts
  Breaks,       \* pairs <<a, b>>: b has at least one breaking change of a
  MaxRequests,  \* bound: publications and rollbacks begun
  NoVersion     \* marks a project without a contract

ASSUME BreaksAssumption == Breaks \subseteq Doc \X Doc
ASSUME ProjectAssumption == Project # {} /\ Doc # {}

\* domain.Contract; source is 0 for a publication, k for rollback-to-vk.
Version == [doc : Doc, version : Nat \ {0}, source : Nat]

ASSUME NoVersionAssumption == NoVersion \notin Version

VARIABLES
  projects, contracts,   \* Store.d: the projects, and each one's history
  saved,                 \* db.json
  begun,                 \* requests begun so far
  pc, req, prev, added,  \* per thread: step, request, GetActive's answer, new version
  alerts,                \* alerts handed to the notifier
  told,                  \* history: publications answered with 201
  alone,                 \* history: alone[t], nobody else was publishing meanwhile
  fate,                  \* history: fate[p], what Delete did, and told its client
  saveFailed             \* history: some save has failed

db == <<projects, contracts, saved>>
threads == <<pc, req, prev, added, alone>>
vars == <<db, begun, threads, alerts, told, fate, saveFailed>>

Database == [projects : SUBSET Project, contracts : [Project -> Seq(Version)]]
Request == [project : Project, doc : Doc, source : Nat]

NoRequest ==
  [project |-> CHOOSE p \in Project : TRUE, doc |-> CHOOSE d \in Doc : TRUE, source |-> 0]
NoAddition == [new |-> NoVersion, follows |-> NoVersion]

Busy(t) == pc[t] # "idle"

\* A thread's state once it has answered, or before its first request.
Idle(t) ==
  /\ pc' = [pc EXCEPT ![t] = "idle"]
  /\ req' = [req EXCEPT ![t] = NoRequest]
  /\ prev' = [prev EXCEPT ![t] = NoVersion]
  /\ added' = [added EXCEPT ![t] = NoAddition]
  /\ alone' = [alone EXCEPT ![t] = FALSE]

-----------------------------------------------------------------------------
(***************************************************************************)
(* The repository.                                                         *)
(***************************************************************************)

\* GetActive
Active(p) ==
  IF contracts[p] = <<>> THEN NoVersion ELSE contracts[p][Len(contracts[p])]

\* GetVersion: the first entry with that number.
NumberedByIndex(p, n) == {contracts[p][i] : i \in {n + 1} \cap DOMAIN contracts[p]}
Numbered(p, n) ==
  {contracts[p][i] : i \in {j \in DOMAIN contracts[p] :
     /\ contracts[p][j].version = n
     /\ \A k \in DOMAIN contracts[p] : k < j => contracts[p][k].version # n}}

\* save, once the database has changed; an error leaves the file alone.
SaveBefore ==
  /\ saved' = [projects |-> projects, contracts |-> contracts]
  /\ UNCHANGED saveFailed
Save ==
  /\ saved' = [projects |-> projects', contracts |-> contracts']
  /\ UNCHANGED saveFailed
SaveFails == saveFailed' = TRUE /\ UNCHANGED saved

\* AddVersion: the number and the position are those of the history as it is
\* now, whatever the caller has read before.
NextNumberOfRead(t) == IF prev[t] = NoVersion THEN 1 ELSE prev[t].version + 1
NextNumber(t) == Len(contracts[req[t].project]) + 1

AppendedToRead(t, v) ==
  Append(SelectSeq(contracts[req[t].project],
                   LAMBDA c : prev[t] # NoVersion /\ c.version <= prev[t].version), v)
Appended(t, v) == Append(contracts[req[t].project], v)

-----------------------------------------------------------------------------
(***************************************************************************)
(* Publish and Rollback.                                                   *)
(***************************************************************************)

\* The request comes in.  While it is served, it and the other requests that
\* publish to the same project are not alone.
Begin(t, r) ==
  LET others == {s \in Thread \ {t} : Busy(s) /\ req[s].project = r.project}
  IN /\ pc[t] = "idle"
     /\ begun < MaxRequests
     /\ begun' = begun + 1
     /\ pc' = [pc EXCEPT ![t] = "reading"]
     /\ req' = [req EXCEPT ![t] = r]
     /\ alone' = [s \in Thread |->
                    IF s = t THEN others = {} ELSE alone[s] /\ s \notin others]
     /\ UNCHANGED <<db, prev, added, alerts, told, fate, saveFailed>>

\* Publish, for a contract that validates.  Nobody asks whether the project exists.
Publish(t) ==
  \E p \in Project, d \in Doc : Begin(t, [project |-> p, doc |-> d, source |-> 0])

\* Rollback, for a version that exists.
Rollback(t) ==
  \E p \in Project : \E n \in 1 .. Len(contracts[p]) : \E old \in Numbered(p, n) :
    Begin(t, [project |-> p, doc |-> old.doc, source |-> n])

\* What the new version is compared with.
PreviousOrTarget(t) ==
  IF req[t].source = 0 THEN Active(req[t].project)
  ELSE IF req[t].source \in DOMAIN contracts[req[t].project]
       THEN contracts[req[t].project][req[t].source] ELSE NoVersion
Previous(t) == Active(req[t].project)

ReadActive(t) ==
  /\ pc[t] = "reading"
  /\ prev' = [prev EXCEPT ![t] = Previous(t)]
  /\ pc' = [pc EXCEPT ![t] = "adding"]
  /\ UNCHANGED <<db, begun, req, added, alone, alerts, told, fate, saveFailed>>

\* AddVersion ignores the error of its save.  added remembers, beside the new
\* version, the one it really follows.
Add(t) ==
  LET p == req[t].project
      v == [doc |-> req[t].doc, version |-> NextNumber(t), source |-> req[t].source]
  IN /\ pc[t] = "adding"
     /\ contracts' = [contracts EXCEPT ![p] = Appended(t, v)]
     /\ UNCHANGED projects
     /\ Save \/ SaveFails
     /\ added' = [added EXCEPT ![t] = [new |-> v, follows |-> Active(p)]]
     /\ pc' = [pc EXCEPT ![t] = "alerting"]
     /\ UNCHANGED <<begun, req, prev, alone, alerts, told, fate>>

\* CountBreaking(changes(prev, added)) > 0
BreakingBackwards(from, to) == from # NoVersion /\ <<to.doc, from.doc>> \in Breaks
Breaking(from, to) == from # NoVersion /\ <<from.doc, to.doc>> \in Breaks

\* alertOnBreaking, and the answer.
Alert(t) ==
  LET p == req[t].project
      new == added[t].new
  IN /\ pc[t] = "alerting"
     /\ alerts' = IF Breaking(prev[t], new)
                  THEN alerts \cup {[project |-> p, from |-> prev[t], to |-> new]}
                  ELSE alerts
     /\ told' = told \cup {[project |-> p, new |-> new, follows |-> added[t].follows,
                            alone |-> alone[t]]}
     /\ Idle(t)
     /\ UNCHANGED <<db, begun, fate, saveFailed>>

-----------------------------------------------------------------------------
(***************************************************************************)
(* Deleting a project, and the death of the process.                       *)
(***************************************************************************)

\* Delete returns the error of its save.
DeleteUnchecked(p) ==
  /\ p \in projects
  /\ projects' = projects \ {p}
  /\ contracts' = [contracts EXCEPT ![p] = <<>>]
  /\ Save \/ SaveFails
  /\ fate' = [fate EXCEPT ![p] = "told"]
  /\ UNCHANGED <<begun, threads, alerts, told>>
Delete(p) ==
  /\ p \in projects
  /\ projects' = projects \ {p}
  /\ contracts' = [contracts EXCEPT ![p] = <<>>]
  /\ \/ Save /\ fate' = [fate EXCEPT ![p] = "told"]
     \/ SaveFails /\ fate' = [fate EXCEPT ![p] = "tried"]
  /\ UNCHANGED <<begun, threads, alerts, told>>

\* Any other change of the store, the log of a request for one, saves the
\* whole database.
AddLog ==
  /\ UNCHANGED <<projects, contracts, begun, threads, alerts, told, fate>>
  /\ Save \/ SaveFails

\* The process dies at any point, and New loads the file.
Restart ==
  /\ projects' = saved.projects
  /\ contracts' = saved.contracts
  /\ pc' = [t \in Thread |-> "idle"]
  /\ req' = [t \in Thread |-> NoRequest]
  /\ prev' = [t \in Thread |-> NoVersion]
  /\ added' = [t \in Thread |-> NoAddition]
  /\ alone' = [t \in Thread |-> FALSE]
  /\ UNCHANGED <<saved, begun, alerts, told, fate, saveFailed>>

Init ==
  /\ projects = Project
  /\ contracts = [p \in Project |-> <<>>]
  /\ saved = [projects |-> projects, contracts |-> contracts]
  /\ begun = 0
  /\ pc = [t \in Thread |-> "idle"]
  /\ req = [t \in Thread |-> NoRequest]
  /\ prev = [t \in Thread |-> NoVersion]
  /\ added = [t \in Thread |-> NoAddition]
  /\ alone = [t \in Thread |-> FALSE]
  /\ alerts = {} /\ told = {}
  /\ fate = [p \in Project |-> "kept"]
  /\ saveFailed = FALSE

Next ==
  \/ \E t \in Thread : Publish(t) \/ Rollback(t) \/ ReadActive(t) \/ Add(t) \/ Alert(t)
  \/ \E p \in Project : Delete(p)
  \/ AddLog
  \/ Restart

Spec == Init /\ [][Next]_vars

-----------------------------------------------------------------------------
(***************************************************************************)
(* What the history must guarantee.                                        *)
(***************************************************************************)

Alarm == [project : Project, from : Version, to : Version]

Publication ==
  [project : Project, new : Version, follows : Version \cup {NoVersion}, alone : BOOLEAN]

\* Every variable has its type.
TypeOK ==
  /\ projects \subseteq Project
  /\ contracts \in [Project -> Seq(Version)]
  /\ saved \in Database
  /\ begun \in Nat
  /\ pc \in [Thread -> {"idle", "reading", "adding", "alerting"}]
  /\ req \in [Thread -> Request]
  /\ prev \in [Thread -> Version \cup {NoVersion}]
  /\ added \in [Thread -> [new : Version \cup {NoVersion}, follows : Version \cup {NoVersion}]]
  /\ alone \in [Thread -> BOOLEAN]
  /\ alerts \subseteq Alarm /\ told \subseteq Publication
  /\ fate \in [Project -> {"kept", "tried", "told"}]
  /\ saveFailed \in BOOLEAN

\* The number of a version is its position, in memory and in the file: no
\* number twice and none left out, however publications interleave.
VersionIsPosition ==
  \A h \in {contracts, saved.contracts} :
    \A p \in Project : \A i \in DOMAIN h[p] : h[p][i].version = i

\* A rollback's version is the contract of the version it names, as long as
\* the project exists.
RollbackRestores ==
  \A p \in projects : fate[p] = "kept" =>
    \A i \in DOMAIN contracts[p] :
      LET k == contracts[p][i].source
      IN k # 0 => k < i /\ contracts[p][k].doc = contracts[p][i].doc

Prefix(s, r) == Len(s) <= Len(r) /\ \A i \in DOMAIN s : s[i] = r[i]

\* What db.json has of a project's history stays there, across publications,
\* rollbacks, failing saves and restarts, until the project is deleted.
HistoryKept ==
  [][\A p \in saved'.projects : Prefix(saved.contracts[p], saved'.contracts[p])]_vars

\* An alert tells of a version that does break the one before it in time.
AlertsSound ==
  \A a \in alerts :
    /\ <<a.from.doc, a.to.doc>> \in Breaks
    /\ fate[a.project] = "kept" => a.from.version < a.to.version

Alerted(p, v) == \E a \in alerts : a.project = p /\ a.to = v

\* A publication or rollback nobody else's overlapped, of a version that
\* breaks the one it follows, has sent an alert.
LoneBreakAlerted ==
  \A a \in told : a.alone /\ Breaking(a.follows, a.new) => Alerted(a.project, a.new)

\* "publishing or rolling back to a version that breaks the previous one sends
\* an alert" (contract_service.go:58), for every publication.
EveryBreakAlerted ==
  \A a \in told : Breaking(a.follows, a.new) => Alerted(a.project, a.new)

\* A version a client was told the number of is still the version of that number.
Stands(a) ==
  /\ a.new.version \in DOMAIN contracts[a.project]
  /\ contracts[a.project][a.new.version] = a.new

\* "History stays linear and complete; nothing is rewritten"
\* (contract_service.go:178), for every version a client was told of, across
\* restarts too, as long as no save has failed.
SavedVersionsStand ==
  ~saveFailed => \A a \in told : fate[a.project] = "kept" => Stands(a)

\* A project whose deletion was confirmed never comes back.
DeletedStaysDeleted ==
  \A p \in Project : fate[p] = "told" => p \notin projects \cup saved.projects

Log == INSTANCE ContractLog WITH deleted <- {p \in Project : fate[p] # "kept"}

\* Publishing and rolling back, each of them two calls of the repository with
\* nothing locked in between, are single steps of a log that is only appended to:
\* see ContractLog.
ImplementsLog == Log!Spec

=============================================================================
