---------------------------- MODULE RecordReplay ----------------------------
(***************************************************************************)
(* The record-and-replay proxy (internal/usecase/proxy.go) as the mock     *)
(* server drives it (internal/usecase/mockserving_service.go), over the    *)
(* mock rules of one project and one method in the repository              *)
(* (internal/adapter/repository/jsonstore/store.go).                       *)
(*                                                                         *)
(* Each thread is a handler goroutine.  It finds the path template of its  *)
(* request in the active contract, looks for a rule of that template,      *)
(* reads the project's proxy mode, asks the upstream and, in record mode,  *)
(* saves the answer under recordMu.  Repository calls are atomic (they     *)
(* hold the repository's own mutex); nothing is locked between them except *)
(* recordMu around the two calls of record.                                *)
(*                                                                         *)
(* What a client sends is a key: requestKey fingerprints method, path,     *)
(* query and body, so two requests with one key are the same.  The same    *)
(* key need not meet the same template: of templates that fit equally well *)
(* the walk over a map finds any, and a contract can be replaced.  Rules   *)
(* with conditions and scenarios are left to the rule selection.           *)
(***************************************************************************)
EXTENDS Naturals, Sequences, FiniteSets

CONSTANTS
  Thread,
  Key,          \* what clients send
  Template,     \* the path templates of all contracts
  Contracts,    \* a contract: the most specific templates that match each key
  MaxRequests,  \* bound: requests begun
  MaxWrites,    \* bound: rules created or edited by hand
  NoThread, NoKey, NoRequest

ASSUME KeyAssumption == NoKey \notin Key
ASSUME ThreadAssumption == NoThread \notin Thread
ASSUME ContractsAssumption == Contracts \subseteq [Key -> SUBSET Template]

VARIABLES
  rules,     \* the project's rules, as ListMocks lists them
  contract,  \* the active contract
  live,      \* the project exists
  mode,      \* its proxy mode
  recordMu,  \* the thread that holds recordMu
  pc, req,   \* per thread: step, request
  cfg,       \* per thread: the proxy mode it has read
  found,     \* per thread: record's scan found a rule of the request
  begun, written,  \* requests begun, rules created or edited by hand
  recorded,  \* history: requests record gave a rule for that nobody touched since
  covered    \* history: covered[t], those of t's key when t began that still are

shared == <<rules, contract, live, mode, recordMu>>
local == <<pc, req, cfg, found>>
vars == <<shared, local, begun, written, recorded, covered>>

Mode == {"off", "forward", "record"}

\* A request as record and findRule see it.
Request == [key : Key, template : Template]

\* A recording has the key of its request; a default rule answers all requests of
\* its template.  A rule may be both, or neither: its scenario is named, or an edit
\* took it to another project.  saved is history: record saved it for this request.
Rule == [key : Key \cup {NoKey}, template : Template, default : BOOLEAN, saved : BOOLEAN]

\* What the body of a request can say of a rule.
Body == {rule \in Rule : ~rule.saved}

RequestOf(rule) == [key |-> rule.key, template |-> rule.template]

Recordings(r) == {i \in DOMAIN rules : RequestOf(rules[i]) = r}
Defaults(r) == {i \in DOMAIN rules : rules[i].template = r.template /\ rules[i].default}

Answer(t) ==
  /\ pc' = [pc EXCEPT ![t] = "idle"]
  /\ req' = [req EXCEPT ![t] = NoRequest]
  /\ cfg' = [cfg EXCEPT ![t] = "off"]
  /\ found' = [found EXCEPT ![t] = FALSE]
  /\ covered' = [covered EXCEPT ![t] = {}]

-----------------------------------------------------------------------------
(***************************************************************************)
(* ServeRequest, for a request the contract describes and accepts.         *)
(***************************************************************************)

\* FindOperation finds one of the most specific templates, whichever comes first.
Receive(t) ==
  \E k \in Key : \E template \in contract[k] :
    /\ pc[t] = "idle"
    /\ begun < MaxRequests
    /\ begun' = begun + 1
    /\ pc' = [pc EXCEPT ![t] = "matching"]
    /\ req' = [req EXCEPT ![t] = [key |-> k, template |-> template]]
    /\ covered' = [covered EXCEPT ![t] = {r \in recorded : r.key = k}]
    /\ UNCHANGED <<shared, cfg, found, written, recorded>>

\* findRule, of the rules of the template: the recording of this very request, or
\* the default rule.
Matched(t) == Recordings(req[t]) # {} \/ Defaults(req[t]) # {}

AnswerFromRule(t) ==
  /\ pc[t] = "matching"
  /\ Matched(t)
  /\ Answer(t)
  /\ UNCHANGED <<shared, begun, written, recorded>>

NoRuleMatches(t) ==
  /\ pc[t] = "matching"
  /\ ~Matched(t)
  /\ pc' = [pc EXCEPT ![t] = "choosing"]
  /\ UNCHANGED <<shared, req, cfg, found, begun, written, recorded, covered>>

\* proxyConfig: a project that is gone, or does not forward, is answered by
\* the stored state or the schema example.
AnswerWithExample(t) ==
  /\ pc[t] = "choosing"
  /\ ~live \/ mode = "off"
  /\ Answer(t)
  /\ UNCHANGED <<shared, begun, written, recorded>>

Forward(t) ==
  /\ pc[t] = "choosing"
  /\ live /\ mode # "off"
  /\ cfg' = [cfg EXCEPT ![t] = mode]
  /\ pc' = [pc EXCEPT ![t] = "forwarding"]
  /\ UNCHANGED <<shared, req, found, begun, written, recorded, covered>>

\* The upstream's answer is passed on without a rule: in forward mode, or
\* when it failed or is not recordable.
PassOn(t) ==
  /\ pc[t] = "forwarding"
  /\ Answer(t)
  /\ UNCHANGED <<shared, begun, written, recorded>>

\* The upstream gave an answer that can be recorded.
Recordable(t) ==
  /\ pc[t] = "forwarding"
  /\ cfg[t] = "record"
  /\ pc' = [pc EXCEPT ![t] = "recording"]
  /\ UNCHANGED <<shared, req, cfg, found, begun, written, recorded, covered>>

-----------------------------------------------------------------------------
(***************************************************************************)
(* record                                                                  *)
(***************************************************************************)

LockNothing(t) == UNCHANGED recordMu
Lock(t) == recordMu = NoThread /\ recordMu' = t

UnlockUnlessFound(t) == recordMu' = IF found[t] THEN recordMu ELSE NoThread
Unlock(t) == recordMu' = NoThread

SeenAnyTemplate(r) == \E i \in DOMAIN rules : rules[i].key = r.key
Seen(r) == Recordings(r) # {}

\* recordMu.Lock, then ListMocks
Scan(t) ==
  /\ pc[t] = "recording"
  /\ Lock(t)
  /\ found' = [found EXCEPT ![t] = Seen(req[t])]
  /\ pc' = [pc EXCEPT ![t] = "scanned"]
  /\ recorded' = IF Seen(req[t]) THEN recorded \cup {req[t]} ELSE recorded
  /\ UNCHANGED <<rules, contract, live, mode, req, cfg, begun, written, covered>>

\* The scan found a rule: the client gets its id, though it may be gone by now.
AnswerRecorded(t) ==
  /\ pc[t] = "scanned"
  /\ found[t]
  /\ Unlock(t)
  /\ Answer(t)
  /\ UNCHANGED <<rules, contract, live, mode, begun, written, recorded>>

Recording(r) == [key |-> r.key, template |-> r.template, default |-> FALSE, saved |-> TRUE]

\* CreateMock, whether or not the project still exists.
SaveRecording(t) ==
  /\ pc[t] = "scanned"
  /\ ~found[t]
  /\ rules' = Append(rules, Recording(req[t]))
  /\ recorded' = recorded \cup {req[t]}
  /\ Unlock(t)
  /\ Answer(t)
  /\ UNCHANGED <<contract, live, mode, begun, written>>

-----------------------------------------------------------------------------
(***************************************************************************)
(* The administration API.                                                 *)
(***************************************************************************)

\* Somebody touched the recordings of these requests.
Forget(requests) ==
  /\ recorded' = recorded \ requests
  /\ covered' = [t \in Thread |-> covered[t] \ requests]

Write == written < MaxWrites /\ written' = written + 1

\* POST a rule: the body is taken as it is, a recording in it too.
CreateRule(rule) ==
  /\ Write
  /\ rules' = Append(rules, rule)
  /\ UNCHANGED <<contract, live, mode, recordMu, local, begun, recorded, covered>>

\* PUT a rule: the body takes its place, and what it leaves out is lost.
UpdateRule(i, rule) ==
  LET same == RequestOf(rule) = RequestOf(rules[i])
  IN /\ Write
     /\ rules' = [rules EXCEPT ![i] = [rule EXCEPT !.saved = rules[i].saved /\ same]]
     /\ Forget(IF same THEN {} ELSE {RequestOf(rules[i])})
     /\ UNCHANGED <<contract, live, mode, recordMu, local, begun>>

Without(i) == [j \in 1 .. Len(rules) - 1 |-> rules[IF j < i THEN j ELSE j + 1]]

\* DELETE a rule
DeleteRule(i) ==
  /\ rules' = Without(i)
  /\ Forget({RequestOf(rules[i])})
  /\ UNCHANGED <<contract, live, mode, recordMu, local, begun, written>>

\* A publication or a rollback, one that is in flight when the project is deleted
\* included.
Publish(c) ==
  /\ contract' = c
  /\ UNCHANGED <<rules, live, mode, recordMu, local, begun, written, recorded, covered>>

SetMode(m) ==
  /\ live
  /\ mode' = m
  /\ UNCHANGED <<rules, contract, live, recordMu, local, begun, written, recorded, covered>>

\* DELETE the project, with its contracts and rules
DeleteProject ==
  /\ live
  /\ live' = FALSE
  /\ rules' = <<>>
  /\ contract' = [k \in Key |-> {}]
  /\ Forget(Request)
  /\ UNCHANGED <<mode, recordMu, local, begun, written>>

Init ==
  /\ rules = <<>>
  /\ contract \in Contracts
  /\ live = TRUE
  /\ mode \in Mode
  /\ recordMu = NoThread
  /\ pc = [t \in Thread |-> "idle"]
  /\ req = [t \in Thread |-> NoRequest]
  /\ cfg = [t \in Thread |-> "off"]
  /\ found = [t \in Thread |-> FALSE]
  /\ begun = 0 /\ written = 0
  /\ recorded = {}
  /\ covered = [t \in Thread |-> {}]

Serve(t) ==
  \/ AnswerFromRule(t) \/ NoRuleMatches(t) \/ AnswerWithExample(t) \/ Forward(t)
  \/ PassOn(t) \/ Recordable(t) \/ Scan(t) \/ AnswerRecorded(t) \/ SaveRecording(t)

Administer ==
  \/ \E rule \in Body : CreateRule(rule)
  \/ \E i \in DOMAIN rules : DeleteRule(i) \/ \E rule \in Body : UpdateRule(i, rule)
  \/ \E c \in Contracts : Publish(c)
  \/ \E m \in Mode : SetMode(m)
  \/ DeleteProject

Next == (\E t \in Thread : Receive(t) \/ Serve(t)) \/ Administer

Spec == Init /\ [][Next]_vars

-----------------------------------------------------------------------------
(***************************************************************************)
(* What recording must guarantee.                                          *)
(***************************************************************************)

\* Every variable has its type.
TypeOK ==
  /\ rules \in Seq(Rule)
  /\ contract \in [Key -> SUBSET Template]
  /\ live \in BOOLEAN
  /\ mode \in Mode
  /\ recordMu \in Thread \cup {NoThread}
  /\ pc \in [Thread -> {"idle", "matching", "choosing", "forwarding", "recording", "scanned"}]
  /\ req \in [Thread -> Request \cup {NoRequest}]
  /\ cfg \in [Thread -> Mode]
  /\ found \in [Thread -> BOOLEAN]
  /\ begun \in Nat /\ written \in Nat
  /\ recorded \subseteq Request
  /\ covered \in [Thread -> SUBSET Request]

\* However many identical requests are forwarded at once, record saves one rule for
\* each template they are matched with.
OneRulePerRequest ==
  \A r \in Request : \A i, j \in Recordings(r) : rules[i].saved /\ rules[j].saved => i = j

Upstream == {"choosing", "forwarding", "recording", "scanned"}

\* Once record has found or saved a rule for a request, the same request is not sent
\* upstream again, until somebody deletes a recording of it or edits it into another
\* one ("serves exactly this request ... from then on", proxy.go:186): as long as the
\* same template is found for it, and a save that failed is not followed by a restart.
AnsweredFromThenOn ==
  \A t \in Thread : req[t] \in covered[t] => pc[t] \notin Upstream

-----------------------------------------------------------------------------
(***************************************************************************)
(* Progress.  A handler that can take a step takes it; the upstream client *)
(* has a timeout; a goroutine waiting for recordMu is served in turn.      *)
(***************************************************************************)

Fairness ==
  \A t \in Thread : WF_vars(Serve(t) /\ ~Scan(t)) /\ SF_vars(Scan(t))

LiveSpec == Spec /\ Fairness

\* Every request is answered: recordMu is given back on every path.
EveryRequestAnswered ==
  \A t \in Thread : pc[t] # "idle" ~> pc[t] = "idle"

=============================================================================
