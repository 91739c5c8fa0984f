------------------------ MODULE ContractHistoryProofs ------------------------
(***************************************************************************)
(* Theorems about ContractHistory, for every number of projects and        *)
(* threads, every set of contracts and every relation of breaking changes. *)
(***************************************************************************)
EXTENDS ContractHistory, TLAPS

LEMMA NoneTypes ==
  /\ NoRequest \in Request
  /\ NoAddition \in [new : Version \cup {NoVersion}, follows : Version \cup {NoVersion}]
BY ProjectAssumption DEF NoRequest, Request, NoAddition

LEMMA ActiveType ==
  ASSUME TypeOK, NEW p \in Project
  PROVE  Active(p) \in Version \cup {NoVersion}
<1>1. contracts[p] \in Seq(Version)
  BY DEF TypeOK
<1> QED
  BY <1>1 DEF Active

\* What Add appends, and what stays.
LEMMA AddExtends ==
  ASSUME TypeOK, NEW t \in Thread, Add(t)
  PROVE  LET p == req[t].project IN
         /\ p \in Project
         /\ added'[t].new \in Version
         /\ added'[t].new =
              [doc |-> req[t].doc, version |-> Len(contracts[p]) + 1, source |-> req[t].source]
         /\ added'[t].new.version = Len(contracts[p]) + 1
         /\ added'[t].follows = Active(p)
         /\ contracts'[p] = Append(contracts[p], added'[t].new)
         /\ \A q \in Project \ {p} : contracts'[q] = contracts[q]
         /\ contracts' \in [Project -> Seq(Version)]
<1> DEFINE p == req[t].project
           v == [doc |-> req[t].doc, version |-> Len(contracts[p]) + 1, source |-> req[t].source]
<1>1. req[t] \in Request /\ p \in Project /\ contracts[p] \in Seq(Version)
  BY DEF TypeOK, Request
<1>2. v \in Version
  BY <1>1 DEF Version, Request
<1>3. Append(contracts[p], v) \in Seq(Version)
  BY <1>1, <1>2
<1>4. contracts' = [contracts EXCEPT ![p] = Append(contracts[p], v)]
  BY DEF Add, NextNumber, Appended
<1>5. added' = [added EXCEPT ![t] = [new |-> v, follows |-> Active(p)]]
  BY DEF Add, NextNumber
<1> QED
  BY <1>1, <1>2, <1>3, <1>4, <1>5 DEF TypeOK

LEMMA SaveType ==
  ASSUME Save \/ SaveFails, TypeOK, projects' \subseteq Project,
         contracts' \in [Project -> Seq(Version)]
  PROVE  saved' \in Database /\ saveFailed' \in BOOLEAN
<1>1. CASE Save
  BY <1>1 DEF Save, TypeOK, Database
<1>2. CASE SaveFails
  BY <1>2 DEF SaveFails, TypeOK
<1> QED
  BY <1>1, <1>2

LEMMA BeginType ==
  ASSUME TypeOK, NEW t \in Thread, NEW r \in Request, Begin(t, r)
  PROVE  TypeOK'
<1> DEFINE others == {s \in Thread \ {t} : Busy(s) /\ req[s].project = r.project}
           A(s) == IF s = t THEN others = {} ELSE alone[s] /\ s \notin others
<1>1. alone' \in [Thread -> BOOLEAN] /\ begun' \in Nat
  <2>1. alone' = [s \in Thread |-> A(s)] /\ begun' \in Nat
    BY DEF Begin, TypeOK
  <2>2. \A s \in Thread : A(s) \in BOOLEAN
    BY DEF TypeOK
  <2> HIDE DEF A
  <2> QED
    BY <2>1, <2>2
<1>2. /\ pc' \in [Thread -> {"idle", "reading", "adding", "alerting"}]
      /\ req' \in [Thread -> Request]
  BY DEF Begin, TypeOK
<1> QED
  BY <1>1, <1>2 DEF Begin, TypeOK, db

\* A thread that is about to alert has its version.
AlertingHasVersion == \A t \in Thread : pc[t] = "alerting" => added[t].new # NoVersion

Core == TypeOK /\ AlertingHasVersion

LEMMA InitType == Init => Core
<1> SUFFICES ASSUME Init PROVE Core
  OBVIOUS
<1>1. <<>> \in Seq(Version)
  OBVIOUS
<1>2. saved \in Database
  BY <1>1 DEF Init, Database
<1> QED
  BY <1>1, <1>2, NoneTypes DEF Init, TypeOK, Core, AlertingHasVersion

LEMMA NextType == Core /\ [Next]_vars => TypeOK'
<1> SUFFICES ASSUME Core, [Next]_vars PROVE TypeOK'
  OBVIOUS
<1> USE DEF Core
<1>1. ASSUME NEW t \in Thread, Publish(t) PROVE TypeOK'
  BY <1>1, BeginType DEF Publish, Request
<1>2. ASSUME NEW t \in Thread, Rollback(t) PROVE TypeOK'
  <2>1. PICK p \in Project :
          \E n \in 1 .. Len(contracts[p]) : \E old \in Numbered(p, n) :
            Begin(t, [project |-> p, doc |-> old.doc, source |-> n])
    BY <1>2 DEF Rollback
  <2> PICK n \in 1 .. Len(contracts[p]), old \in Version :
          /\ \E i \in DOMAIN contracts[p] : old = contracts[p][i] /\ old.version = n
          /\ Begin(t, [project |-> p, doc |-> old.doc, source |-> n])
    BY <2>1 DEF Numbered, TypeOK
  <2>2. contracts[p] \in Seq(Version)
    BY DEF TypeOK
  <2>3. [project |-> p, doc |-> old.doc, source |-> n] \in Request
    BY <2>2 DEF Request, Version
  <2> QED
    BY <2>3, BeginType
<1>3. ASSUME NEW t \in Thread, ReadActive(t) PROVE TypeOK'
  <2>1. Previous(t) \in Version \cup {NoVersion}
    BY ActiveType DEF Previous, TypeOK, Request
  <2> QED
    BY <1>3, <2>1 DEF ReadActive, TypeOK, db
<1>4. ASSUME NEW t \in Thread, Add(t) PROVE TypeOK'
  <2> DEFINE p == req[t].project
  <2>1. /\ p \in Project /\ added'[t].new \in Version /\ added'[t].follows = Active(p)
        /\ contracts' \in [Project -> Seq(Version)]
    BY <1>4, AddExtends
  <2>2. saved' \in Database /\ saveFailed' \in BOOLEAN
    BY <1>4, <2>1, SaveType DEF Add, TypeOK
  <2>3. added' \in [Thread -> [new : Version \cup {NoVersion}, follows : Version \cup {NoVersion}]]
    BY <1>4, <2>1, ActiveType DEF Add, TypeOK
  <2> QED
    BY <1>4, <2>1, <2>2, <2>3 DEF Add, TypeOK
<1>5. ASSUME NEW t \in Thread, Alert(t) PROVE TypeOK'
  <2> DEFINE p == req[t].project
             new == added[t].new
  <2>1. p \in Project /\ prev[t] \in Version \cup {NoVersion} /\ alone[t] \in BOOLEAN
    BY DEF TypeOK, Request
  <2>2. new \in Version \cup {NoVersion} /\ added[t].follows \in Version \cup {NoVersion}
    BY DEF TypeOK
  <2>3. new \in Version
    BY <1>5, <2>2 DEF Alert, AlertingHasVersion
  <2>4. alerts' \subseteq Alarm
    BY <1>5, <2>1, <2>3 DEF Alert, Breaking, Alarm, TypeOK
  <2>5. told' \subseteq Publication
    BY <1>5, <2>1, <2>2, <2>3 DEF Alert, Publication, TypeOK
  <2> QED
    BY <1>5, <2>4, <2>5, NoneTypes DEF Alert, Idle, TypeOK, db
<1>6. ASSUME NEW p \in Project, Delete(p) PROVE TypeOK'
  <2>1. /\ projects' \subseteq Project /\ contracts' \in [Project -> Seq(Version)]
        /\ fate' \in [Project -> {"kept", "tried", "told"}]
    <3>1. <<>> \in Seq(Version)
      OBVIOUS
    <3>2. fate' = [fate EXCEPT ![p] = "told"] \/ fate' = [fate EXCEPT ![p] = "tried"]
      BY <1>6 DEF Delete
    <3>3. fate' \in [Project -> {"kept", "tried", "told"}]
      BY <3>2 DEF TypeOK
    <3>4. contracts' = [contracts EXCEPT ![p] = <<>>] /\ projects' \subseteq projects
      BY <1>6 DEF Delete
    <3>5. contracts' \in [Project -> Seq(Version)]
      BY <3>1, <3>4 DEF TypeOK
    <3> QED
      BY <3>3, <3>4, <3>5 DEF TypeOK
  <2>2. saved' \in Database /\ saveFailed' \in BOOLEAN
    BY <1>6, <2>1, SaveType DEF Delete
  <2> QED
    BY <1>6, <2>1, <2>2 DEF Delete, TypeOK, threads
<1>7. ASSUME AddLog PROVE TypeOK'
  <2>1. projects' \subseteq Project /\ contracts' \in [Project -> Seq(Version)]
    BY <1>7 DEF AddLog, TypeOK
  <2>2. saved' \in Database /\ saveFailed' \in BOOLEAN
    BY <1>7, <2>1, SaveType DEF AddLog
  <2> QED
    BY <1>7, <2>1, <2>2 DEF AddLog, TypeOK, threads
<1>8. ASSUME Restart PROVE TypeOK'
  BY <1>8, NoneTypes DEF Restart, TypeOK, Database
<1>9. CASE UNCHANGED vars
  BY <1>9 DEF TypeOK, vars, db, threads
<1> QED
  BY <1>1, <1>2, <1>3, <1>4, <1>5, <1>6, <1>7, <1>8, <1>9 DEF Next

LEMMA NextCore == Core /\ [Next]_vars => Core'
<1> SUFFICES ASSUME Core, [Next]_vars PROVE AlertingHasVersion'
  BY NextType DEF Core
<1> USE DEF Core
<1>1. ASSUME NEW t \in Thread, Add(t) PROVE AlertingHasVersion'
  <2>1. added'[t].new \in Version
    BY <1>1, AddExtends
  <2> QED
    BY <1>1, <2>1, NoVersionAssumption DEF Add, AlertingHasVersion, TypeOK
<1>2. ASSUME NEW t \in Thread, NEW r, Begin(t, r) PROVE AlertingHasVersion'
  BY <1>2 DEF Begin, AlertingHasVersion, TypeOK
<1>3. ASSUME NEW t \in Thread, ReadActive(t) PROVE AlertingHasVersion'
  BY <1>3 DEF ReadActive, AlertingHasVersion, TypeOK
<1>4. ASSUME NEW t \in Thread, Alert(t) PROVE AlertingHasVersion'
  BY <1>4 DEF Alert, Idle, AlertingHasVersion, TypeOK
<1>5. CASE UNCHANGED threads
  BY <1>5 DEF threads, AlertingHasVersion
<1>6. CASE Restart
  BY <1>6 DEF Restart, AlertingHasVersion
<1> QED
  BY <1>1, <1>2, <1>3, <1>4, <1>5, <1>6
     DEF Next, vars, Publish, Rollback, Delete, AddLog

\* Every variable of the history has its type.
THEOREM TypeCorrect == Spec => []TypeOK
<1>1. Spec => []Core
  BY InitType, NextCore, PTL DEF Spec
<1> QED
  BY <1>1, PTL DEF Core

-----------------------------------------------------------------------------
(***************************************************************************)
(* The history in memory and in the file.                                  *)
(***************************************************************************)

\* A project nobody deleted is there, in memory and in the file.
KeptIsLive == \A p \in Project : fate[p] = "kept" => p \in projects \cap saved.projects

\* The file has the beginning of what memory has.
SavedIsPrefix == \A p \in projects : Prefix(saved.contracts[p], contracts[p])

HistoryInv == VersionIsPosition /\ KeptIsLive /\ SavedIsPrefix /\ DeletedStaysDeleted

LEMMA PrefixOfItself == ASSUME NEW s \in Seq(Version) PROVE Prefix(s, s)
BY DEF Prefix

LEMMA PrefixTransitive ==
  ASSUME NEW r \in Seq(Version), NEW s \in Seq(Version), NEW u \in Seq(Version),
         Prefix(r, s), Prefix(s, u)
  PROVE  Prefix(r, u)
BY DEF Prefix

LEMMA PrefixOfAppend ==
  ASSUME NEW s \in Seq(Version), NEW v \in Version
  PROVE  Prefix(s, Append(s, v))
BY DEF Prefix

\* Whatever changes the database is one of these.
LEMMA DatabaseSteps ==
  ASSUME [Next]_vars
  PROVE  \/ \E t \in Thread : Add(t)
         \/ \E p \in Project : Delete(p)
         \/ AddLog
         \/ Restart
         \/ UNCHANGED <<db, fate, saveFailed>>
BY DEF Next, vars, db, Publish, Rollback, Begin, ReadActive, Alert

\* Nothing but a deletion shortens a history.
LEMMA HistoriesGrow ==
  ASSUME Core, (\E t \in Thread : Add(t)) \/ AddLog, NEW p \in Project
  PROVE  Prefix(contracts[p], contracts'[p]) /\ contracts'[p] \in Seq(Version)
<1>1. contracts[p] \in Seq(Version)
  BY DEF Core, TypeOK
<1>2. ASSUME NEW t \in Thread, Add(t)
      PROVE  Prefix(contracts[p], contracts'[p]) /\ contracts'[p] \in Seq(Version)
  <2>1. /\ contracts'[p] \in Seq(Version) /\ added'[t].new \in Version
        /\ \/ contracts'[p] = contracts[p]
           \/ contracts'[p] = Append(contracts[p], added'[t].new)
    BY <1>2, AddExtends DEF Core
  <2> QED
    BY <1>1, <2>1, PrefixOfItself, PrefixOfAppend
<1>3. CASE AddLog
  BY <1>1, <1>3, PrefixOfItself DEF AddLog
<1> QED
  BY <1>2, <1>3

LEMMA SavedTypes ==
  ASSUME Core
  PROVE  /\ \A p \in Project : contracts[p] \in Seq(Version)
         /\ \A p \in Project : saved.contracts[p] \in Seq(Version)
         /\ saved.projects \subseteq Project
BY DEF Core, TypeOK, Database

LEMMA InitHistory == Init => HistoryInv
<1> SUFFICES ASSUME Init PROVE HistoryInv
  OBVIOUS
<1>1. VersionIsPosition
  BY DEF Init, VersionIsPosition
<1>2. KeptIsLive /\ DeletedStaysDeleted
  BY DEF Init, KeptIsLive, DeletedStaysDeleted
<1>3. SavedIsPrefix
  BY DEF Init, SavedIsPrefix, Prefix
<1> QED
  BY <1>1, <1>2, <1>3 DEF HistoryInv

\* A step that saves, or fails to, and changes memory to something right.
LEMMA SaveKeepsHistory ==
  ASSUME Core, HistoryInv, Save \/ SaveFails,
         projects' = projects, fate' = fate,
         \A p \in Project : contracts'[p] \in Seq(Version) /\ Prefix(contracts[p], contracts'[p]),
         \A p \in Project : \A i \in DOMAIN contracts'[p] : contracts'[p][i].version = i
  PROVE  HistoryInv'
<1>1. VersionIsPosition'
  BY DEF Save, SaveFails, VersionIsPosition, HistoryInv
<1>2. KeptIsLive' /\ DeletedStaysDeleted'
  BY DEF Save, SaveFails, KeptIsLive, DeletedStaysDeleted, HistoryInv
<1>3. SavedIsPrefix'
  <2> SUFFICES ASSUME NEW p \in projects' PROVE Prefix(saved'.contracts[p], contracts'[p])
    BY DEF SavedIsPrefix
  <2>1. p \in Project /\ contracts'[p] \in Seq(Version)
    BY DEF Core, TypeOK
  <2>2. CASE Save
    BY <2>1, <2>2, PrefixOfItself DEF Save
  <2>3. CASE SaveFails
    BY <2>1, <2>3, PrefixTransitive, SavedTypes DEF SaveFails, HistoryInv, SavedIsPrefix
  <2> QED
    BY <2>2, <2>3
<1> QED
  BY <1>1, <1>2, <1>3 DEF HistoryInv

LEMMA NextHistory == Core /\ HistoryInv /\ [Next]_vars => HistoryInv'
<1> SUFFICES ASSUME Core, HistoryInv, [Next]_vars PROVE HistoryInv'
  OBVIOUS
<1>1. ASSUME NEW t \in Thread, Add(t) PROVE HistoryInv'
  <2> DEFINE p == req[t].project
             v == added'[t].new
  <2>1. TypeOK
    BY DEF Core
  <2>2. LET pp == req[t].project IN
        /\ pp \in Project /\ added'[t].new \in Version
        /\ added'[t].new.version = Len(contracts[pp]) + 1
        /\ contracts'[pp] = Append(contracts[pp], added'[t].new)
        /\ \A q \in Project \ {pp} : contracts'[q] = contracts[q]
    BY <1>1, <2>1, AddExtends
  <2>3. /\ p \in Project /\ v \in Version /\ v.version = Len(contracts[p]) + 1
        /\ contracts'[p] = Append(contracts[p], v)
        /\ \A q \in Project \ {p} : contracts'[q] = contracts[q]
    BY <2>2
  <2>4. contracts[p] \in Seq(Version)
    BY <2>3, SavedTypes
  <2> HIDE DEF p, v
  <2>5. \A i \in DOMAIN contracts'[p] : contracts'[p][i].version = i
    BY <2>3, <2>4 DEF HistoryInv, VersionIsPosition
  <2>6. \A q \in Project : \A i \in DOMAIN contracts'[q] : contracts'[q][i].version = i
    BY <2>3, <2>5 DEF HistoryInv, VersionIsPosition
  <2> QED
    BY <1>1, <2>6, HistoriesGrow, SaveKeepsHistory DEF Add
<1>2. ASSUME NEW p \in Project, Delete(p) PROVE HistoryInv'
  <2>1. /\ contracts'[p] = <<>> /\ projects' = projects \ {p}
        /\ \A q \in Project \ {p} : contracts'[q] = contracts[q]
    BY <1>2 DEF Delete, Core, TypeOK
  <2>2. \A q \in Project \ {p} : fate'[q] = fate[q]
    BY <1>2 DEF Delete, Core, TypeOK
  <2>3. \/ Save /\ fate'[p] = "told"
        \/ SaveFails /\ fate'[p] = "tried"
    BY <1>2 DEF Delete, Core, TypeOK
  <2>4. VersionIsPosition'
    BY <2>1, <2>3 DEF Save, SaveFails, VersionIsPosition, HistoryInv
  <2>5. KeptIsLive' /\ DeletedStaysDeleted'
    BY <2>1, <2>2, <2>3 DEF Save, SaveFails, KeptIsLive, DeletedStaysDeleted, HistoryInv
  <2>6. SavedIsPrefix'
    <3> SUFFICES ASSUME NEW q \in projects' PROVE Prefix(saved'.contracts[q], contracts'[q])
      BY DEF SavedIsPrefix
    <3>1. q \in projects /\ q \in Project /\ contracts'[q] = contracts[q]
      BY <2>1 DEF Core, TypeOK
    <3> QED
      BY <2>3, <3>1, SavedTypes, PrefixOfItself DEF Save, SaveFails, HistoryInv, SavedIsPrefix
  <2> QED
    BY <2>4, <2>5, <2>6 DEF HistoryInv
<1>3. ASSUME AddLog PROVE HistoryInv'
  BY <1>3, HistoriesGrow, SaveKeepsHistory DEF AddLog, HistoryInv, VersionIsPosition
<1>4. ASSUME Restart PROVE HistoryInv'
  <2>1. VersionIsPosition' /\ KeptIsLive' /\ DeletedStaysDeleted'
    BY <1>4 DEF Restart, VersionIsPosition, KeptIsLive, DeletedStaysDeleted, HistoryInv
  <2>2. SavedIsPrefix'
    BY <1>4, SavedTypes, PrefixOfItself DEF Restart, SavedIsPrefix
  <2> QED
    BY <2>1, <2>2 DEF HistoryInv
<1>5. CASE UNCHANGED <<db, fate, saveFailed>>
  BY <1>5 DEF db, HistoryInv, VersionIsPosition, KeptIsLive, SavedIsPrefix, DeletedStaysDeleted
<1> QED
  BY <1>1, <1>2, <1>3, <1>4, <1>5, DatabaseSteps

LEMMA HistoryInvariant == Spec => [](Core /\ HistoryInv)
BY InitType, NextCore, InitHistory, NextHistory, PTL DEF Spec

\* However publications interleave, fail to be saved and are cut off, numbers
\* and positions agree, in memory and in the file.
THEOREM NumbersArePositions == Spec => []VersionIsPosition
BY HistoryInvariant, PTL DEF HistoryInv

\* A confirmed deletion survives every later save and restart.
THEOREM DeletionStands == Spec => []DeletedStaysDeleted
BY HistoryInvariant, PTL DEF HistoryInv

LEMMA StepKeepsHistory ==
  ASSUME Core, HistoryInv, [Next]_vars, NEW p \in saved'.projects
  PROVE  Prefix(saved.contracts[p], saved'.contracts[p])
<1>1. CASE saved' = saved
  BY <1>1, SavedTypes, PrefixOfItself
<1>2. ASSUME Save, (\E t \in Thread : Add(t)) \/ AddLog
      PROVE  Prefix(saved.contracts[p], saved'.contracts[p])
  <2>1. p \in projects /\ p \in Project /\ saved'.contracts[p] = contracts'[p]
    BY <1>2 DEF Save, Add, AddLog, Core, TypeOK
  <2> QED
    BY <1>2, <2>1, HistoriesGrow, PrefixTransitive, SavedTypes DEF HistoryInv, SavedIsPrefix
<1>3. ASSUME Save, NEW q \in Project, Delete(q)
      PROVE  Prefix(saved.contracts[p], saved'.contracts[p])
  <2>1. p \in projects \ {q} /\ p \in Project /\ saved'.contracts[p] = contracts[p]
    BY <1>3 DEF Save, Delete, Core, TypeOK
  <2> QED
    BY <2>1 DEF HistoryInv, SavedIsPrefix
<1>4. CASE (\E t \in Thread : Add(t)) \/ AddLog
  <2>1. Save \/ saved' = saved
    BY <1>4 DEF Add, AddLog, SaveFails
  <2> QED
    BY <1>1, <1>2, <1>4, <2>1
<1>5. ASSUME NEW q \in Project, Delete(q)
      PROVE  Prefix(saved.contracts[p], saved'.contracts[p])
  <2>1. Save \/ saved' = saved
    BY <1>5 DEF Delete, SaveFails
  <2> QED
    BY <1>1, <1>3, <1>5, <2>1
<1>6. CASE Restart \/ UNCHANGED <<db, fate, saveFailed>>
  <2>1. saved' = saved
    BY <1>6 DEF Restart, db
  <2> QED
    BY <1>1, <2>1
<1> QED
  BY <1>4, <1>5, <1>6, DatabaseSteps

\* What the file has of a project's history is never taken out of it.
THEOREM HistoryStays == Spec => HistoryKept
<1>1. Core /\ HistoryInv /\ [Next]_vars
      => [\A p \in saved'.projects : Prefix(saved.contracts[p], saved'.contracts[p])]_vars
  BY StepKeepsHistory
<1> QED
  BY <1>1, HistoryInvariant, PTL DEF Spec, HistoryKept

-----------------------------------------------------------------------------
(***************************************************************************)
(* Rollbacks and alerts.  A thread holds what it has read in an earlier    *)
(* step; what follows says what of that is still true when it goes on.     *)
(***************************************************************************)

StandsIn(p, v) == v.version \in DOMAIN contracts[p] /\ contracts[p][v.version] = v

\* The version a rollback under way goes back to is in the history, with the
\* contract the rollback has taken from it.
TargetInHistory ==
  \A t \in Thread :
    /\ pc[t] \in {"reading", "adding"} /\ req[t].source # 0
    /\ fate[req[t].project] = "kept"
    => /\ req[t].source \in DOMAIN contracts[req[t].project]
       /\ contracts[req[t].project][req[t].source].doc = req[t].doc

\* The version a thread compares with is older than the one it adds.
ReadIsOlder ==
  \A t \in Thread :
    prev[t] # NoVersion /\ fate[req[t].project] = "kept" =>
      /\ pc[t] = "adding" => prev[t].version <= Len(contracts[req[t].project])
      /\ pc[t] = "alerting" => prev[t].version < added[t].new.version

\* A thread that counts as alone is the only one busy with its project, and
\* what it compares with is what its version follows, unless the project has
\* been deleted meanwhile.
AloneIsAlone ==
  \A t \in Thread : Busy(t) /\ alone[t] =>
    \A s \in Thread \ {t} : Busy(s) => req[s].project # req[t].project
AloneReadLast ==
  \A t \in Thread : alone[t] =>
    /\ pc[t] = "adding" => Active(req[t].project) \in {prev[t], NoVersion}
    /\ pc[t] = "alerting" => added[t].follows \in {prev[t], NoVersion}

\* While no save fails, the file has what memory has, and a version that was
\* added stays at its number.
FileIsMemory == ~saveFailed => saved = [projects |-> projects, contracts |-> contracts]
AddedStands ==
  ~saveFailed => \A t \in Thread :
    pc[t] = "alerting" /\ fate[req[t].project] = "kept" =>
      StandsIn(req[t].project, added[t].new)

LEMMA BeginEffect ==
  ASSUME Core, NEW t \in Thread, NEW r \in Request, Begin(t, r)
  PROVE  /\ pc'[t] = "reading" /\ req'[t] = r
         /\ \A u \in Thread \ {t} : pc'[u] = pc[u] /\ req'[u] = req[u]
         /\ alone'[t] => \A s \in Thread \ {t} : Busy(s) => req[s].project # r.project
         /\ \A u \in Thread \ {t} :
              alone'[u] => alone[u] /\ (Busy(u) => req[u].project # r.project)
         /\ UNCHANGED <<contracts, saved, prev, added, alerts, told, fate, saveFailed>>
<1> DEFINE others == {s \in Thread \ {t} : Busy(s) /\ req[s].project = r.project}
<1>1. alone' = [s \in Thread |-> IF s = t THEN others = {} ELSE alone[s] /\ s \notin others]
  BY DEF Begin
<1>2. alone'[t] => others = {}
  BY <1>1
<1>3. \A u \in Thread \ {t} : alone'[u] => alone[u] /\ u \notin others
  BY <1>1
<1> QED
  BY <1>2, <1>3 DEF Begin, Core, TypeOK, db

\* Both requests begin with a thread that was idle.
LEMMA RequestsBegin ==
  ASSUME Core, VersionIsPosition, NEW t \in Thread, Publish(t) \/ Rollback(t)
  PROVE  \E r \in Request :
           /\ Begin(t, r)
           /\ r.source # 0 =>
                /\ r.source \in DOMAIN contracts[r.project]
                /\ contracts[r.project][r.source].doc = r.doc
<1>1. CASE Publish(t)
  <2>1. PICK p \in Project, d \in Doc : Begin(t, [project |-> p, doc |-> d, source |-> 0])
    BY <1>1 DEF Publish
  <2>2. [project |-> p, doc |-> d, source |-> 0] \in Request
    BY DEF Request
  <2> QED
    BY <2>1, <2>2
<1>2. CASE Rollback(t)
  <2>1. PICK p \in Project :
          \E n \in 1 .. Len(contracts[p]) : \E old \in Numbered(p, n) :
            Begin(t, [project |-> p, doc |-> old.doc, source |-> n])
    BY <1>2 DEF Rollback
  <2>2. PICK n \in 1 .. Len(contracts[p]) :
          \E old \in Numbered(p, n) : Begin(t, [project |-> p, doc |-> old.doc, source |-> n])
    BY <2>1
  <2>3. PICK i \in DOMAIN contracts[p] :
          /\ contracts[p][i].version = n
          /\ Begin(t, [project |-> p, doc |-> contracts[p][i].doc, source |-> n])
    BY <2>2 DEF Numbered
  <2>4. contracts[p] \in Seq(Version)
    BY DEF Core, TypeOK
  <2>5. i = n
    BY <2>3 DEF VersionIsPosition
  <2>6. [project |-> p, doc |-> contracts[p][i].doc, source |-> n] \in Request
    <3>1. contracts[p][i] \in Version /\ n \in Nat
      BY <2>4
    <3> QED
      BY <3>1 DEF Request, Version
  <2> QED
    BY <2>3, <2>4, <2>5, <2>6
<1> QED
  BY <1>1, <1>2

LEMMA AddEffect ==
  ASSUME Core, NEW t \in Thread, Add(t)
  PROVE  /\ pc[t] = "adding" /\ pc'[t] = "alerting"
         /\ \A u \in Thread \ {t} : pc'[u] = pc[u] /\ added'[u] = added[u]
         /\ UNCHANGED <<req, prev, alone, alerts, told, fate>>
         /\ Save \/ SaveFails
BY DEF Add, Core, TypeOK

LEMMA AlertEffect ==
  ASSUME Core, NEW t \in Thread, Alert(t)
  PROVE  /\ pc[t] = "alerting" /\ pc'[t] = "idle" /\ prev'[t] = NoVersion /\ ~alone'[t]
         /\ \A u \in Thread \ {t} :
              /\ pc'[u] = pc[u] /\ req'[u] = req[u] /\ prev'[u] = prev[u]
              /\ added'[u] = added[u] /\ alone'[u] = alone[u]
         /\ UNCHANGED <<projects, contracts, saved, fate, saveFailed>>
BY DEF Alert, Idle, Core, TypeOK, db

LEMMA ReadEffect ==
  ASSUME Core, NEW t \in Thread, ReadActive(t)
  PROVE  /\ pc[t] = "reading" /\ pc'[t] = "adding" /\ prev'[t] = Active(req[t].project)
         /\ \A u \in Thread \ {t} : pc'[u] = pc[u] /\ prev'[u] = prev[u]
         /\ UNCHANGED <<projects, contracts, saved, req, added, alone, alerts, told, fate, saveFailed>>
BY DEF ReadActive, Previous, Core, TypeOK, db

LEMMA DeleteEffect ==
  ASSUME Core, NEW p \in Project, Delete(p)
  PROVE  /\ contracts'[p] = <<>> /\ \A q \in Project \ {p} : contracts'[q] = contracts[q]
         /\ fate'[p] # "kept" /\ \A q \in Project \ {p} : fate'[q] = fate[q]
         /\ projects' = projects \ {p}
         /\ UNCHANGED <<pc, req, prev, added, alone, alerts, told>>
         /\ Save \/ SaveFails
BY DEF Delete, Core, TypeOK, threads

LEMMA RequestType ==
  ASSUME Core, NEW t \in Thread
  PROVE  /\ req[t].project \in Project /\ req[t].source \in Nat
         /\ contracts[req[t].project] \in Seq(Version)
BY DEF Core, TypeOK, Request

\* A history that only grows keeps what a version names.
LEMMA GrowthKeepsEntries ==
  ASSUME Core, (\E t \in Thread : Add(t)) \/ AddLog, NEW p \in Project, NEW i \in DOMAIN contracts[p]
  PROVE  i \in DOMAIN contracts'[p] /\ contracts'[p][i] = contracts[p][i]
<1>1. /\ Prefix(contracts[p], contracts'[p])
      /\ contracts[p] \in Seq(Version) /\ contracts'[p] \in Seq(Version)
  BY HistoriesGrow, SavedTypes
<1>2. i \in 1 .. Len(contracts[p]) /\ Len(contracts[p]) <= Len(contracts'[p])
  BY <1>1 DEF Prefix
<1>3. i \in 1 .. Len(contracts'[p])
  BY <1>1, <1>2
<1> QED
  BY <1>1, <1>3 DEF Prefix

-----------------------------------------------------------------------------
(***************************************************************************)
(* Rollbacks.                                                              *)
(***************************************************************************)

RollbackInv == TargetInHistory /\ RollbackRestores

LEMMA InitRollback == Init => RollbackInv
BY DEF Init, RollbackInv, TargetInHistory, RollbackRestores

LEMMA NextTarget == Core /\ HistoryInv /\ TargetInHistory /\ [Next]_vars => TargetInHistory'
<1> SUFFICES ASSUME Core, HistoryInv, TargetInHistory, [Next]_vars PROVE TargetInHistory'
  OBVIOUS
<1>1. ASSUME NEW t \in Thread, Publish(t) \/ Rollback(t) PROVE TargetInHistory'
  <2>1. PICK r \in Request :
          /\ Begin(t, r)
          /\ r.source # 0 =>
               /\ r.source \in DOMAIN contracts[r.project]
               /\ contracts[r.project][r.source].doc = r.doc
    BY <1>1, RequestsBegin DEF HistoryInv
  <2> QED
    BY <2>1, BeginEffect DEF TargetInHistory
<1>2. ASSUME NEW t \in Thread, ReadActive(t) PROVE TargetInHistory'
  BY <1>2, ReadEffect DEF TargetInHistory
<1>3. ASSUME NEW t \in Thread, Add(t) PROVE TargetInHistory'
  BY <1>3, AddEffect, GrowthKeepsEntries, RequestType DEF TargetInHistory
<1>4. ASSUME NEW t \in Thread, Alert(t) PROVE TargetInHistory'
  BY <1>4, AlertEffect DEF TargetInHistory
<1>5. ASSUME NEW p \in Project, Delete(p) PROVE TargetInHistory'
  BY <1>5, DeleteEffect, RequestType DEF TargetInHistory
<1>6. CASE AddLog
  BY <1>6 DEF AddLog, threads, TargetInHistory
<1>7. CASE Restart
  BY <1>7 DEF Restart, TargetInHistory
<1>8. CASE UNCHANGED vars
  BY <1>8 DEF vars, db, threads, TargetInHistory
<1> QED
  BY <1>1, <1>2, <1>3, <1>4, <1>5, <1>6, <1>7, <1>8 DEF Next

LEMMA NextRollback == Core /\ HistoryInv /\ RollbackInv /\ [Next]_vars => RollbackInv'
<1> SUFFICES ASSUME Core, HistoryInv, RollbackInv, [Next]_vars PROVE RollbackRestores'
  BY NextTarget DEF RollbackInv
<1>1. ASSUME NEW t \in Thread, Add(t) PROVE RollbackRestores'
  <2> DEFINE p == req[t].project
             v == added'[t].new
  <2>1. /\ p \in Project /\ v \in Version /\ v.doc = req[t].doc /\ v.source = req[t].source
        /\ contracts'[p] = Append(contracts[p], v)
        /\ \A q \in Project \ {p} : contracts'[q] = contracts[q]
    <3>1. LET pp == req[t].project IN
          /\ pp \in Project /\ added'[t].new \in Version
          /\ added'[t].new =
               [doc |-> req[t].doc, version |-> Len(contracts[pp]) + 1, source |-> req[t].source]
          /\ contracts'[pp] = Append(contracts[pp], added'[t].new)
          /\ \A q \in Project \ {pp} : contracts'[q] = contracts[q]
      BY <1>1, AddExtends DEF Core
    <3> QED
      BY <3>1
  <2>2. /\ contracts[p] \in Seq(Version) /\ projects' = projects /\ fate' = fate
        /\ pc[t] = "adding" /\ projects \subseteq Project
    BY <1>1, RequestType, AddEffect DEF Add, Core, TypeOK
  <2>3. fate[p] = "kept" /\ v.source # 0 =>
          v.source \in DOMAIN contracts[p] /\ contracts[p][v.source].doc = v.doc
    BY <2>1, <2>2 DEF RollbackInv, TargetInHistory
  <2> HIDE DEF p, v
  <2>4. ASSUME p \in projects, fate[p] = "kept", NEW i \in DOMAIN contracts'[p],
               contracts'[p][i].source # 0
        PROVE  LET k == contracts'[p][i].source
               IN k < i /\ contracts'[p][k].doc = contracts'[p][i].doc
    <3>1. CASE i \in DOMAIN contracts[p]
      <4>1. contracts'[p][i] = contracts[p][i] /\ contracts[p][i] \in Version
        BY <2>1, <2>2, <3>1
      <4>2. /\ contracts[p][i].source < i /\ contracts[p][i].source \in Nat \ {0}
            /\ contracts[p][contracts[p][i].source].doc = contracts[p][i].doc
        BY <2>4, <3>1, <4>1 DEF RollbackInv, RollbackRestores, Version
      <4>3. contracts[p][i].source \in DOMAIN contracts[p]
        BY <2>2, <3>1, <4>2
      <4>4. contracts'[p][contracts[p][i].source] = contracts[p][contracts[p][i].source]
        BY <2>1, <2>2, <4>3
      <4> QED
        BY <4>1, <4>2, <4>4
    <3>2. CASE i \notin DOMAIN contracts[p]
      <4>1. i = Len(contracts[p]) + 1 /\ contracts'[p][i] = v
        BY <2>1, <2>2, <2>4, <3>2
      <4>2. v.source \in 1 .. Len(contracts[p]) /\ contracts[p][v.source].doc = v.doc
        BY <2>2, <2>3, <2>4, <4>1
      <4> QED
        BY <2>1, <2>2, <4>1, <4>2
    <3> QED
      BY <3>1, <3>2
  <2>5. ASSUME NEW q \in projects', fate'[q] = "kept", q # p, NEW i \in DOMAIN contracts'[q],
               contracts'[q][i].source # 0
        PROVE  LET k == contracts'[q][i].source
               IN k < i /\ contracts'[q][k].doc = contracts'[q][i].doc
    BY <2>1, <2>2, <2>5 DEF RollbackInv, RollbackRestores
  <2> QED
    BY <2>2, <2>4, <2>5 DEF RollbackRestores
<1>2. ASSUME NEW p \in Project, Delete(p) PROVE RollbackRestores'
  BY <1>2, DeleteEffect DEF RollbackInv, RollbackRestores, Core, TypeOK
<1>3. CASE AddLog
  BY <1>3 DEF AddLog, RollbackInv, RollbackRestores
<1>4. CASE Restart
  <2> SUFFICES ASSUME NEW p \in projects', fate[p] = "kept", NEW i \in DOMAIN saved.contracts[p],
                      saved.contracts[p][i].source # 0
               PROVE  LET k == saved.contracts[p][i].source
                      IN k < i /\ saved.contracts[p][k].doc = saved.contracts[p][i].doc
    BY <1>4 DEF Restart, RollbackRestores
  <2>1. p \in Project /\ p \in projects
    BY <1>4, SavedTypes DEF Restart, HistoryInv, KeptIsLive
  <2>2. /\ contracts[p] \in Seq(Version) /\ saved.contracts[p] \in Seq(Version)
        /\ Prefix(saved.contracts[p], contracts[p])
    BY <2>1, SavedTypes DEF HistoryInv, SavedIsPrefix
  <2>3. i \in DOMAIN contracts[p] /\ saved.contracts[p][i] = contracts[p][i]
    BY <2>2 DEF Prefix
  <2>4. saved.contracts[p][i] \in Version
    BY <2>2
  <2> DEFINE k == saved.contracts[p][i].source
  <2>5. k < i /\ k \in Nat \ {0} /\ contracts[p][k].doc = contracts[p][i].doc
    BY <2>1, <2>3, <2>4 DEF RollbackInv, RollbackRestores, Version
  <2> HIDE DEF k
  <2>6. saved.contracts[p][k] = contracts[p][k]
    <3>1. k \in DOMAIN saved.contracts[p]
      BY <2>2, <2>5
    <3> QED
      BY <2>2, <3>1 DEF Prefix
  <2> QED
    BY <2>3, <2>5, <2>6 DEF k
<1>5. CASE UNCHANGED <<db, fate, saveFailed>>
  BY <1>5 DEF db, RollbackInv, RollbackRestores
<1> QED
  BY <1>1, <1>2, <1>3, <1>4, <1>5, DatabaseSteps

LEMMA RollbackInvariant == Spec => [](Core /\ HistoryInv /\ RollbackInv)
BY InitType, NextCore, InitHistory, NextHistory, InitRollback, NextRollback, PTL DEF Spec

\* Whoever publishes, rolls back, deletes or restarts between the reading and
\* the adding of a rollback, its version has the contract of the one it names.
THEOREM RollbacksRestore == Spec => []RollbackRestores
BY RollbackInvariant, PTL DEF RollbackInv

-----------------------------------------------------------------------------
(***************************************************************************)
(* Alerts: what a thread compares with is older than what it adds.         *)
(***************************************************************************)

AlertsInv == ReadIsOlder /\ AlertsSound

LEMMA InitAlerts == Init => AlertsInv
BY DEF Init, AlertsInv, ReadIsOlder, AlertsSound

LEMMA NextOlder == Core /\ HistoryInv /\ ReadIsOlder /\ [Next]_vars => ReadIsOlder'
<1> SUFFICES ASSUME Core, HistoryInv, ReadIsOlder, [Next]_vars PROVE ReadIsOlder'
  OBVIOUS
<1>1. ASSUME NEW t \in Thread, Publish(t) \/ Rollback(t) PROVE ReadIsOlder'
  <2>1. PICK r \in Request : Begin(t, r)
    BY <1>1, RequestsBegin DEF HistoryInv
  <2> QED
    BY <2>1, BeginEffect DEF ReadIsOlder
<1>2. ASSUME NEW t \in Thread, ReadActive(t) PROVE ReadIsOlder'
  <2> DEFINE h == contracts[req[t].project]
  <2>1. Active(req[t].project) # NoVersion => Active(req[t].project).version = Len(h)
    BY RequestType DEF Active, HistoryInv, VersionIsPosition
  <2>2. Len(h) \in Nat
    BY RequestType
  <2> QED
    BY <1>2, <2>1, <2>2, ReadEffect DEF ReadIsOlder
<1>3. ASSUME NEW t \in Thread, Add(t) PROVE ReadIsOlder'
  <2>1. /\ added'[t].new.version = Len(contracts[req[t].project]) + 1
        /\ prev[t] \in Version \cup {NoVersion}
    BY <1>3, AddExtends DEF Core, TypeOK
  <2>2. ASSUME NEW u \in Thread
        PROVE  Len(contracts[req[u].project]) <= Len(contracts'[req[u].project])
    BY <1>3, HistoriesGrow, RequestType DEF Prefix
  <2>3. ASSUME NEW u \in Thread \ {t}, prev[u] # NoVersion, fate[req[u].project] = "kept",
               pc[u] = "adding"
        PROVE  prev[u].version <= Len(contracts'[req[u].project])
    <3>1. prev[u] \in Version /\ Len(contracts[req[u].project]) \in Nat
      BY <2>3, RequestType DEF Core, TypeOK
    <3>2. Len(contracts'[req[u].project]) \in Nat
      BY <1>3, HistoriesGrow, RequestType
    <3> QED
      BY <2>2, <2>3, <3>1, <3>2 DEF ReadIsOlder, Version
  <2>4. prev[t] # NoVersion /\ fate[req[t].project] = "kept"
          => prev[t].version < added'[t].new.version
    BY <1>3, <2>1, AddEffect, RequestType DEF ReadIsOlder, Version
  <2> QED
    BY <1>3, <2>3, <2>4, AddEffect DEF ReadIsOlder
<1>4. ASSUME NEW t \in Thread, Alert(t) PROVE ReadIsOlder'
  BY <1>4, AlertEffect DEF ReadIsOlder
<1>5. ASSUME NEW p \in Project, Delete(p) PROVE ReadIsOlder'
  BY <1>5, DeleteEffect, RequestType DEF ReadIsOlder
<1>6. CASE AddLog
  BY <1>6 DEF AddLog, threads, ReadIsOlder
<1>7. CASE Restart
  BY <1>7 DEF Restart, ReadIsOlder
<1>8. CASE UNCHANGED vars
  BY <1>8 DEF vars, db, threads, ReadIsOlder
<1> QED
  BY <1>1, <1>2, <1>3, <1>4, <1>5, <1>6, <1>7, <1>8 DEF Next

\* Only Alert sends alerts and answers, and nothing makes a deleted project
\* one that was never deleted.
LEMMA SentSteps ==
  ASSUME Core, [Next]_vars
  PROVE  \/ \E t \in Thread : Alert(t)
         \/ UNCHANGED <<alerts, told>> /\ \A p \in Project : fate'[p] = "kept" => fate[p] = "kept"
<1>1. ASSUME NEW p \in Project, Delete(p)
      PROVE  UNCHANGED <<alerts, told>> /\ \A q \in Project : fate'[q] = "kept" => fate[q] = "kept"
  BY <1>1, DeleteEffect
<1>2. CASE AddLog \/ Restart \/ UNCHANGED vars
  BY <1>2 DEF AddLog, Restart, vars
<1>3. ASSUME NEW t \in Thread, Publish(t) \/ Rollback(t) \/ ReadActive(t) \/ Add(t)
      PROVE  UNCHANGED <<alerts, told, fate>>
  BY <1>3 DEF Publish, Rollback, Begin, ReadActive, Add
<1> QED
  BY <1>1, <1>2, <1>3 DEF Next

LEMMA NextAlerts == Core /\ HistoryInv /\ AlertsInv /\ [Next]_vars => AlertsInv'
<1> SUFFICES ASSUME Core, HistoryInv, AlertsInv, [Next]_vars PROVE AlertsSound'
  BY NextOlder DEF AlertsInv
<1>1. ASSUME NEW t \in Thread, Alert(t) PROVE AlertsSound'
  <2> SUFFICES ASSUME NEW a \in alerts'
               PROVE  /\ <<a.from.doc, a.to.doc>> \in Breaks
                      /\ fate'[a.project] = "kept" => a.from.version < a.to.version
    BY DEF AlertsSound
  <2>1. fate' = fate
    BY <1>1, AlertEffect
  <2>2. CASE a \in alerts
    BY <2>1, <2>2 DEF AlertsInv, AlertsSound
  <2>3. CASE a \notin alerts
    <3>1. /\ a = [project |-> req[t].project, from |-> prev[t], to |-> added[t].new]
          /\ Breaking(prev[t], added[t].new)
      BY <1>1, <2>3 DEF Alert
    <3>2. /\ prev[t] # NoVersion /\ <<prev[t].doc, added[t].new.doc>> \in Breaks
          /\ pc[t] = "alerting"
      BY <1>1, <3>1, AlertEffect DEF Breaking
    <3> QED
      BY <2>1, <3>1, <3>2 DEF AlertsInv, ReadIsOlder
  <2> QED
    BY <2>2, <2>3
<1>2. CASE /\ UNCHANGED <<alerts, told>>
           /\ \A p \in Project : fate'[p] = "kept" => fate[p] = "kept"
  BY <1>2 DEF AlertsInv, AlertsSound, Core, TypeOK, Alarm
<1> QED
  BY <1>1, <1>2, SentSteps

LEMMA AlertsInvariant == Spec => [](Core /\ HistoryInv /\ AlertsInv)
BY InitType, NextCore, InitHistory, NextHistory, InitAlerts, NextAlerts, PTL DEF Spec

\* Whatever was published between the reading and the adding, an alert tells
\* of a version that breaks an earlier one.
THEOREM AlertsAreSound == Spec => []AlertsSound
BY AlertsInvariant, PTL DEF AlertsInv

-----------------------------------------------------------------------------
(***************************************************************************)
(* A publication nobody's overlaps.                                        *)
(***************************************************************************)

LoneInv == AloneIsAlone /\ AloneReadLast /\ LoneBreakAlerted

LEMMA InitLone == Init => LoneInv
BY DEF Init, LoneInv, AloneIsAlone, AloneReadLast, LoneBreakAlerted, Busy

LEMMA NextAlone == Core /\ HistoryInv /\ AloneIsAlone /\ [Next]_vars => AloneIsAlone'
<1> SUFFICES ASSUME Core, HistoryInv, AloneIsAlone, [Next]_vars PROVE AloneIsAlone'
  OBVIOUS
<1>1. ASSUME NEW t \in Thread, Publish(t) \/ Rollback(t) PROVE AloneIsAlone'
  <2>1. PICK r \in Request : Begin(t, r)
    BY <1>1, RequestsBegin DEF HistoryInv
  <2>2. \A u \in Thread \ {t} : pc'[u] = pc[u] /\ req'[u] = req[u]
    BY <2>1, BeginEffect
  <2>3. alone'[t] => \A s \in Thread \ {t} : Busy(s)' => req'[s].project # req'[t].project
    BY <2>1, <2>2, BeginEffect DEF Busy
  <2>4. ASSUME NEW u \in Thread \ {t}, Busy(u)', alone'[u], NEW s \in Thread \ {u}, Busy(s)'
        PROVE  req'[s].project # req'[u].project
    <3>1. alone[u] /\ req[u].project # r.project /\ req'[t] = r /\ Busy(u)
      BY <2>1, <2>2, <2>4, BeginEffect DEF Busy
    <3> QED
      BY <2>2, <2>4, <3>1 DEF AloneIsAlone, Busy
  <2> QED
    BY <2>3, <2>4 DEF AloneIsAlone
<1>2. ASSUME NEW t \in Thread, ReadActive(t) PROVE AloneIsAlone'
  BY <1>2, ReadEffect DEF AloneIsAlone, Busy
<1>3. ASSUME NEW t \in Thread, Add(t) PROVE AloneIsAlone'
  BY <1>3, AddEffect DEF AloneIsAlone, Busy
<1>4. ASSUME NEW t \in Thread, Alert(t) PROVE AloneIsAlone'
  BY <1>4, AlertEffect DEF AloneIsAlone, Busy
<1>5. ASSUME NEW p \in Project, Delete(p) PROVE AloneIsAlone'
  BY <1>5, DeleteEffect DEF AloneIsAlone, Busy
<1>6. CASE AddLog \/ UNCHANGED vars
  BY <1>6 DEF AddLog, vars, threads, AloneIsAlone, Busy
<1>7. CASE Restart
  BY <1>7 DEF Restart, AloneIsAlone, Busy
<1> QED
  BY <1>1, <1>2, <1>3, <1>4, <1>5, <1>6, <1>7 DEF Next

LEMMA NextReadLast == Core /\ HistoryInv /\ LoneInv /\ [Next]_vars => AloneReadLast'
<1> SUFFICES ASSUME Core, HistoryInv, LoneInv, [Next]_vars PROVE AloneReadLast'
  OBVIOUS
<1> USE DEF LoneInv
<1>1. ASSUME NEW t \in Thread, Publish(t) \/ Rollback(t) PROVE AloneReadLast'
  <2>1. PICK r \in Request : Begin(t, r)
    BY <1>1, RequestsBegin DEF HistoryInv
  <2>2. \A u \in Thread : alone'[u] /\ pc'[u] # "reading" => u # t /\ alone[u] /\ pc'[u] = pc[u] /\ req'[u] = req[u]
    BY <2>1, BeginEffect
  <2> QED
    BY <2>1, <2>2, BeginEffect DEF AloneReadLast, Active
<1>2. ASSUME NEW t \in Thread, ReadActive(t) PROVE AloneReadLast'
  BY <1>2, ReadEffect DEF AloneReadLast, Active
<1>3. ASSUME NEW t \in Thread, Add(t) PROVE AloneReadLast'
  <2>1. /\ added'[t].follows = Active(req[t].project)
        /\ \A q \in Project \ {req[t].project} : contracts'[q] = contracts[q]
    BY <1>3, AddExtends DEF Core
  <2>2. ASSUME NEW u \in Thread \ {t}, alone[u], pc[u] = "adding"
        PROVE  Active(req[u].project)' = Active(req[u].project)
    <3>1. req[u].project # req[t].project /\ req[u].project \in Project
      BY <1>3, <2>2, AddEffect, RequestType DEF AloneIsAlone, Busy
    <3>2. contracts'[req[u].project] = contracts[req[u].project] /\ req' = req
      BY <1>3, <2>1, <3>1, AddEffect
    <3> QED
      BY <3>2 DEF Active
  <2> QED
    BY <1>3, <2>1, <2>2, AddEffect DEF AloneReadLast
<1>4. ASSUME NEW t \in Thread, Alert(t) PROVE AloneReadLast'
  BY <1>4, AlertEffect DEF AloneReadLast, Active
<1>5. ASSUME NEW p \in Project, Delete(p) PROVE AloneReadLast'
  BY <1>5, DeleteEffect, RequestType DEF AloneReadLast, Active
<1>6. CASE AddLog \/ UNCHANGED vars
  BY <1>6 DEF AddLog, vars, db, threads, AloneReadLast, Active
<1>7. CASE Restart
  BY <1>7 DEF Restart, AloneReadLast
<1> QED
  BY <1>1, <1>2, <1>3, <1>4, <1>5, <1>6, <1>7 DEF Next

LEMMA NextLone == Core /\ HistoryInv /\ LoneInv /\ [Next]_vars => LoneInv'
<1> SUFFICES ASSUME Core, HistoryInv, LoneInv, [Next]_vars PROVE LoneBreakAlerted'
  BY NextAlone, NextReadLast DEF LoneInv
<1>1. ASSUME NEW t \in Thread, Alert(t) PROVE LoneBreakAlerted'
  <2> SUFFICES ASSUME NEW a \in told', a.alone, Breaking(a.follows, a.new)
               PROVE  Alerted(a.project, a.new)'
    BY DEF LoneBreakAlerted, Breaking
  <2>1. alerts \subseteq alerts'
    BY <1>1 DEF Alert
  <2>2. CASE a \in told
    BY <2>1, <2>2 DEF LoneInv, LoneBreakAlerted, Alerted
  <2>3. CASE a \notin told
    <3>1. a = [project |-> req[t].project, new |-> added[t].new, follows |-> added[t].follows,
               alone |-> alone[t]]
      BY <1>1, <2>3 DEF Alert
    <3>2. added[t].follows = prev[t]
      BY <1>1, <3>1, AlertEffect DEF LoneInv, AloneReadLast, Breaking
    <3>3. [project |-> req[t].project, from |-> prev[t], to |-> added[t].new] \in alerts'
      BY <1>1, <3>1, <3>2 DEF Alert
    <3> QED
      BY <3>1, <3>3 DEF Alerted
  <2> QED
    BY <2>2, <2>3
<1>2. CASE UNCHANGED <<alerts, told>>
  BY <1>2 DEF LoneInv, LoneBreakAlerted, Alerted, Breaking
<1> QED
  BY <1>1, <1>2, SentSteps

LEMMA LoneInvariant == Spec => [](Core /\ HistoryInv /\ LoneInv)
BY InitType, NextCore, InitHistory, NextHistory, InitLone, NextLone, PTL DEF Spec

\* A publication or rollback nobody else's overlapped has alerted of the break
\* it makes, whatever went on in other projects and between its steps.
THEOREM LoneBreaksAlert == Spec => []LoneBreakAlerted
BY LoneInvariant, PTL DEF LoneInv

-----------------------------------------------------------------------------
(***************************************************************************)
(* What a client was told of.                                              *)
(***************************************************************************)

StandInv == FileIsMemory /\ AddedStands /\ SavedVersionsStand

LEMMA InitStand == Init => StandInv
BY DEF Init, StandInv, FileIsMemory, AddedStands, SavedVersionsStand

LEMMA NextFile == Core /\ FileIsMemory /\ [Next]_vars => FileIsMemory'
<1> SUFFICES ASSUME Core, FileIsMemory, [Next]_vars PROVE FileIsMemory'
  OBVIOUS
<1>1. CASE Save \/ SaveFails
  BY <1>1 DEF Save, SaveFails, FileIsMemory
<1>2. CASE Restart
  BY <1>2 DEF Restart, FileIsMemory
<1>3. CASE UNCHANGED <<db, fate, saveFailed>>
  BY <1>3 DEF db, FileIsMemory
<1> QED
  BY <1>1, <1>2, <1>3, DatabaseSteps DEF Add, Delete, AddLog

\* A project nobody has deleted keeps every entry of its history, unless the
\* process dies after a save that failed.
LEMMA EntriesStay ==
  ASSUME Core, FileIsMemory, [Next]_vars, ~saveFailed',
         NEW p \in Project, fate'[p] = "kept", NEW v \in Version, StandsIn(p, v)
  PROVE  StandsIn(p, v)'
<1>1. CASE (\E t \in Thread : Add(t)) \/ AddLog
  BY <1>1, GrowthKeepsEntries DEF StandsIn
<1>2. ASSUME NEW q \in Project, Delete(q) PROVE StandsIn(p, v)'
  BY <1>2, DeleteEffect DEF StandsIn
<1>3. CASE Restart
  BY <1>3 DEF Restart, FileIsMemory, StandsIn
<1>4. CASE UNCHANGED <<db, fate, saveFailed>>
  BY <1>4 DEF db, StandsIn
<1> QED
  BY <1>1, <1>2, <1>3, <1>4, DatabaseSteps

LEMMA FailuresAreKept ==
  ASSUME Core, [Next]_vars
  PROVE  /\ saveFailed => saveFailed'
         /\ \A p \in Project : fate'[p] = "kept" => fate[p] = "kept"
<1>1. saveFailed => saveFailed'
  BY DatabaseSteps DEF Add, Delete, AddLog, Save, SaveFails, Restart
<1>2. ASSUME NEW t \in Thread, Alert(t) PROVE fate' = fate
  BY <1>2, AlertEffect
<1> QED
  BY <1>1, <1>2, SentSteps

LEMMA NextStand == Core /\ HistoryInv /\ StandInv /\ [Next]_vars => StandInv'
<1> SUFFICES ASSUME Core, HistoryInv, StandInv, [Next]_vars, ~saveFailed'
             PROVE  AddedStands' /\ SavedVersionsStand'
  BY NextFile DEF StandInv, AddedStands, SavedVersionsStand
<1>0. ~saveFailed /\ \A p \in Project : fate'[p] = "kept" => fate[p] = "kept"
  BY FailuresAreKept
<1>1. AddedStands'
  <2> SUFFICES ASSUME NEW t \in Thread, pc'[t] = "alerting", fate'[req'[t].project] = "kept"
               PROVE  StandsIn(req[t].project, added[t].new)'
    BY DEF AddedStands
  <2>1. CASE Add(t)
    <3>1. LET p == req[t].project IN
          /\ p \in Project /\ added'[t].new \in Version
          /\ added'[t].new.version = Len(contracts[p]) + 1
          /\ contracts'[p] = Append(contracts[p], added'[t].new)
      BY <2>1, AddExtends DEF Core
    <3>2. req' = req /\ contracts[req[t].project] \in Seq(Version)
      BY <2>1, AddEffect, RequestType
    <3> QED
      BY <3>1, <3>2 DEF StandsIn
  <2>2. CASE ~Add(t)
    <3>1. pc[t] = "alerting" /\ req'[t] = req[t] /\ added'[t] = added[t]
      <4>1. ASSUME NEW u \in Thread, Publish(u) \/ Rollback(u)
            PROVE  pc[t] = "alerting" /\ req'[t] = req[t] /\ added'[t] = added[t]
        <5>1. PICK r \in Request : Begin(u, r)
          BY <4>1, RequestsBegin DEF HistoryInv
        <5> QED
          BY <5>1, BeginEffect
      <4>2. ASSUME NEW u \in Thread, ReadActive(u) \/ Alert(u) \/ Add(u)
            PROVE  pc[t] = "alerting" /\ req'[t] = req[t] /\ added'[t] = added[t]
        BY <2>2, <4>2, ReadEffect, AlertEffect, AddEffect
      <4>3. CASE (\E p \in Project : Delete(p)) \/ AddLog \/ UNCHANGED vars
        BY <4>3 DEF Delete, AddLog, vars, threads
      <4>4. CASE Restart
        BY <4>4 DEF Restart
      <4> QED
        BY <4>1, <4>2, <4>3, <4>4 DEF Next
    <3>2. added[t].new \in Version /\ req[t].project \in Project
      BY <3>1, RequestType DEF Core, AlertingHasVersion, TypeOK
    <3>3. StandsIn(req[t].project, added[t].new)
      BY <1>0, <3>1, <3>2 DEF StandInv, AddedStands
    <3>4. \A p \in Project, v \in Version :
            fate'[p] = "kept" /\ StandsIn(p, v) =>
              v.version \in DOMAIN contracts'[p] /\ contracts'[p][v.version] = v
      BY EntriesStay DEF StandInv, StandsIn
    <3> QED
      BY <3>1, <3>2, <3>3, <3>4 DEF StandsIn
  <2> QED
    BY <2>1, <2>2
<1>2. SavedVersionsStand'
  <2> SUFFICES ASSUME NEW a \in told', fate'[a.project] = "kept" PROVE Stands(a)'
    BY DEF SavedVersionsStand
  <2>1. CASE a \in told
    <3>1. a.project \in Project /\ a.new \in Version
      BY <2>1 DEF Core, TypeOK, Publication
    <3>2. StandsIn(a.project, a.new)
      BY <1>0, <2>1, <3>1 DEF StandInv, SavedVersionsStand, Stands, StandsIn
    <3> QED
      BY <3>1, <3>2, EntriesStay DEF StandInv, Stands, StandsIn
  <2>2. CASE a \notin told
    <3>1. PICK t \in Thread : Alert(t)
      BY <2>2, SentSteps
    <3>2. a.project = req[t].project /\ a.new = added[t].new
      BY <2>2, <3>1 DEF Alert
    <3>3. pc[t] = "alerting" /\ contracts' = contracts /\ fate' = fate
      BY <3>1, AlertEffect
    <3> QED
      BY <1>0, <3>2, <3>3 DEF StandInv, AddedStands, StandsIn, Stands
  <2> QED
    BY <2>1, <2>2
<1> QED
  BY <1>1, <1>2

LEMMA StandInvariant == Spec => [](Core /\ HistoryInv /\ StandInv)
BY InitType, NextCore, InitHistory, NextHistory, InitStand, NextStand, PTL DEF Spec

\* As long as no save fails, a version a client was told the number of is the
\* version of that number for good: across later publications, rollbacks,
\* deletions of other projects and the death of the process at any point.
THEOREM ToldVersionsStand == Spec => []SavedVersionsStand
BY StandInvariant, PTL DEF StandInv

-----------------------------------------------------------------------------
(***************************************************************************)
(* The history implements an append-only log.  A thread's step that adds a *)
(* version is the whole publication or rollback: what a rollback has read  *)
(* of the history when it began is still there (TargetInHistory), and the  *)
(* number is the one that comes next.                                      *)
(***************************************************************************)

Deleted == {p \in Project : fate[p] # "kept"}

LEMMA InitLog == Init => Log!Init
BY DEF Init, Log!Init

LEMMA SaveIsSave ==
  ASSUME Save \/ SaveFails
  PROVE  Log!MaySave
BY DEF Save, SaveFails, Log!MaySave, Log!Saves

LEMMA AddAppends ==
  ASSUME Core, TargetInHistory, NEW t \in Thread, Add(t)
  PROVE  Log!Change
<1> DEFINE p == req[t].project
           new == added'[t].new
<1>1. LET q == req[t].project IN
      /\ q \in Project /\ added'[t].new \in Version
      /\ added'[t].new = [doc |-> req[t].doc, version |-> Len(contracts[q]) + 1, source |-> req[t].source]
  BY AddExtends DEF Core
<1>2. /\ contracts' = [contracts EXCEPT ![p] = Append(contracts[p], new)]
      /\ projects' = projects
  BY <1>1 DEF Add, NextNumber, Appended
<1>3. /\ req[t].doc \in Doc /\ req[t].source \in Nat /\ contracts[p] \in Seq(Version)
      /\ fate' = fate /\ pc[t] = "adding" /\ p \in Project
  BY <1>1, RequestType, AddEffect DEF Core, TypeOK, Request
<1>4. Log!AppendNext(p, req[t].doc, req[t].source)
  BY <1>1, <1>2, <1>3 DEF Log!AppendNext
<1>5. Log!Publish(p) \/ Log!Rollback(p) \/ Log!LateRollback(p)
  <2>1. CASE req[t].source = 0
    BY <1>3, <1>4, <2>1 DEF Log!Publish
  <2>2. CASE req[t].source # 0 /\ fate[p] = "kept"
    <3>1. req[t].source \in DOMAIN contracts[p] /\ contracts[p][req[t].source].doc = req[t].doc
      BY <1>3, <2>2 DEF TargetInHistory
    <3> QED
      BY <1>4, <3>1 DEF Log!Rollback
  <2>3. CASE fate[p] # "kept"
    <3>1. contracts'[p] = Append(contracts[p], new) /\ new \in Version
      BY <1>1, <1>2, <1>3 DEF Core, TypeOK
    <3>2. contracts'[p] # <<>> /\ contracts'[p][Len(contracts'[p])] = new
      <4> HIDE DEF p, new
      <4> QED
        BY <1>3, <3>1
    <3>3. new.doc = req[t].doc /\ new.source = req[t].source
      BY <1>1
    <3> HIDE DEF p, new
    <3> QED
      BY <1>3, <1>4, <2>3, <3>2, <3>3 DEF Log!LateRollback
  <2> QED
    BY <2>1, <2>2, <2>3
<1>6. Log!MaySave
  BY AddEffect, SaveIsSave DEF Core
<1> QED
  BY <1>3, <1>5, <1>6 DEF Log!Change

LEMMA DeleteDeletes ==
  ASSUME Core, NEW p \in Project, Delete(p)
  PROVE  Log!Change
<1>1. fate'[p] # "kept" /\ \A q \in Project \ {p} : fate'[q] = fate[q]
  BY DeleteEffect
<1>2. Deleted' = Deleted \cup {p}
  BY <1>1 DEF Deleted
<1>3. Log!Delete(p)
  BY <1>2 DEF Delete, Deleted, Log!Delete
<1>4. Log!MaySave
  BY DeleteEffect, SaveIsSave
<1> QED
  BY <1>3, <1>4 DEF Log!Change

LEMMA NextLog == Core /\ TargetInHistory /\ [Next]_vars => [Log!Next]_(Log!vars)
<1> SUFFICES ASSUME Core, TargetInHistory, [Next]_vars PROVE [Log!Next]_(Log!vars)
  OBVIOUS
<1>1. ASSUME NEW t \in Thread, Add(t) PROVE Log!Next
  BY <1>1, AddAppends DEF Log!Next
<1>2. ASSUME NEW p \in Project, Delete(p) PROVE Log!Next
  BY <1>2, DeleteDeletes DEF Log!Next
<1>3. CASE AddLog
  <2>1. projects' = projects /\ contracts' = contracts /\ fate' = fate
    BY <1>3 DEF AddLog
  <2>2. Log!MaySave
    BY <1>3, SaveIsSave DEF AddLog
  <2> QED
    BY <2>1, <2>2 DEF Log!MaySave, Log!Save, Log!Next, Log!vars
<1>4. CASE Restart
  BY <1>4 DEF Restart, Log!Restart, Log!Next
<1>5. CASE UNCHANGED <<db, fate, saveFailed>>
  BY <1>5 DEF db, Log!vars
<1> QED
  BY <1>1, <1>2, <1>3, <1>4, <1>5, DatabaseSteps

\* However publications, rollbacks, deletions, failing saves and restarts
\* interleave, the database only ever changes as an append-only log does.
THEOREM HistoryIsALog == Spec => ImplementsLog
BY RollbackInvariant, InitLog, NextLog, PTL
   DEF Spec, ImplementsLog, Log!Spec, RollbackInv
=============================================================================
