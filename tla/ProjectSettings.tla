--------------------------- MODULE ProjectSettings ---------------------------
(***************************************************************************)
(* The settings of one project: PATCH requests that change them            *)
(* (handlers_projects.go, usecase/project_service.go) and mock requests    *)
(* that are served by them (usecase/mockserving_service.go and             *)
(* serving_options.go), over the repository's shared *domain.Project       *)
(* (adapter/repository/jsonstore/store.go).                                *)
(*                                                                         *)
(* Get hands out the pointer the repository keeps.  Setters write through  *)
(* it under the repository's mutex, readers read through it under nothing: *)
(* what a reader gets while a field is being written is the old value, the *)
(* new one or, a string being two words, a Torn one.                       *)
(*                                                                         *)
(* A patch is a function on the fields its body has.                       *)
(***************************************************************************)
EXTENDS Naturals

CONSTANTS
  Patcher,      \* handlers of PATCH
  Server,       \* handlers of mock requests
  Patch,        \* the bodies clients send
  Url,          \* absolute http URLs
  MaxPatches,   \* bound: patches received
  TornFields,   \* string fields whose two words a reader may see change one at a time
  NoOne, Torn

ProxyField == {"upstreamUrl", "proxyMode", "driftCheck"}
Field == {"validationMode", "stateMode"} \cup ProxyField

ASSUME PatcherAssumption == NoOne \notin Patcher
ASSUME PatchAssumption == \A b \in Patch : DOMAIN b \subseteq Field

Over(f, g) == [x \in DOMAIN f \cup DOMAIN g |-> IF x \in DOMAIN f THEN f[x] ELSE g[x]]
Only(f, S) == [x \in S \cap DOMAIN f |-> f[x]]

VARIABLES
  project,      \* the fields of the project in memory
  live,         \* it has not been deleted
  saved,        \* db.json: [live, project]
  mu,           \* the patcher that holds the repository's mutex
  unwritten,    \* the fields the setter in progress has still to write
  ppc, patch,   \* per patcher: step and body
  cfg,          \* per patcher: what it sets, as far as it is known
  begun,        \* patches received so far
  spc, scfg,    \* per server: step, and the proxy settings as far as it has read them
  outcome,      \* per server: how the request, which breaks the contract, is served
  seen,         \* history: seen[s], the validation modes in force since s began
  alone,        \* history: alone[t], no other patch or deletion while t is served
  before,       \* history: before[t], the project when t began
  intended      \* history: the last value a body set each field to

repository == <<project, live, saved, mu, unwritten>>
patchers == <<ppc, patch, cfg, begun, alone, before>>
servers == <<spc, scfg, outcome, seen>>
vars == <<repository, patchers, servers, intended>>

Nothing == [x \in {} |-> TRUE]

-----------------------------------------------------------------------------
(***************************************************************************)
(* Which settings are valid.                                               *)
(***************************************************************************)

ValidationMode == {"", "off", "warn", "enforce"}
StateMode == {"", "off", "memory", "persisted"}
ProxyMode == {"", "off", "forward", "record"}

\* The address of one mode with the length of another is not a third one.
ASSUME TornAssumption == Torn \notin ValidationMode \cup StateMode \cup ProxyMode

Forwards(c) == c.proxyMode \in {"forward", "record"}

\* ProxyConfig.Validate; parsing a torn URL may or may not succeed.
ValidConfig(c) ==
  /\ c.proxyMode \in ProxyMode
  /\ IF c.upstreamUrl = "" THEN ~Forwards(c) /\ ~c.driftCheck
                           ELSE c.upstreamUrl \in Url \cup {Torn}

Valid(p) ==
  /\ p.validationMode \in ValidationMode
  /\ p.stateMode \in StateMode
  /\ ValidConfig(p)

\* An empty mode means "off".
Normal(f) ==
  [x \in DOMAIN f |->
     IF x \in {"validationMode", "stateMode", "proxyMode"} /\ f[x] = "" THEN "off" ELSE f[x]]

-----------------------------------------------------------------------------
(***************************************************************************)
(* The repository.                                                         *)
(***************************************************************************)

CanGet == mu = NoOne

\* What reading a field without the mutex may return.
Read(f) ==
  {project[f]} \cup
    {Torn : t \in {x \in Patcher : mu = x /\ f \in unwritten \cap TornFields
                                   /\ cfg[x][f] # project[f]}}

\* The validation mode in force after a step, for the servers at work.
InForce(modes) == seen' = [s \in Server |-> IF spc[s] = "idle" THEN {} ELSE seen[s] \cup modes]

-----------------------------------------------------------------------------
(***************************************************************************)
(* updateProject: first the validation mode, then the state mode, then the *)
(* proxy settings, each if the body has it; an error ends the request.     *)
(***************************************************************************)

AnswerPatch(t) ==
  /\ ppc' = [ppc EXCEPT ![t] = "idle"]
  /\ patch' = [patch EXCEPT ![t] = Nothing]
  /\ cfg' = [cfg EXCEPT ![t] = Nothing]
  /\ alone' = [alone EXCEPT ![t] = FALSE]
  /\ before' = [before EXCEPT ![t] = Nothing]

Receive(t) ==
  \E b \in Patch :
    /\ ppc[t] = "idle"
    /\ begun < MaxPatches
    /\ begun' = begun + 1
    /\ ppc' = [ppc EXCEPT ![t] = "validationMode"]
    /\ patch' = [patch EXCEPT ![t] = b]
    /\ before' = [before EXCEPT ![t] = project]
    /\ alone' = [s \in Patcher |->
                   IF s = t THEN \A r \in Patcher \ {t} : ppc[r] = "idle" ELSE FALSE]
    /\ UNCHANGED <<repository, cfg, servers, intended>>

\* SetValidationMode or SetStateMode, up to the repository's setter.
SetMode(t, f, modes, next) ==
  /\ ppc[t] = f
  /\ IF f \notin DOMAIN patch[t]
     THEN ppc' = [ppc EXCEPT ![t] = next] /\ UNCHANGED <<patch, cfg, alone, before>>
     ELSE IF patch[t][f] \notin modes THEN AnswerPatch(t)
     ELSE /\ ppc' = [ppc EXCEPT ![t] = "setting"]
          /\ cfg' = [cfg EXCEPT ![t] = Normal(Only(patch[t], {f}))]
          /\ UNCHANGED <<patch, alone, before>>
  /\ UNCHANGED <<repository, begun, servers, intended>>

SetValidationMode(t) == SetMode(t, "validationMode", ValidationMode, "stateMode")
SetStateMode(t) == SetMode(t, "stateMode", StateMode, "proxy")

\* The zero ProxyConfig
NoProxy == [upstreamUrl |-> "", proxyMode |-> "", driftCheck |-> FALSE]

\* UpdateProxy: Get.  Fields the body has are not taken from the project.
FromBodyOrZero(t) == Over(Only(patch[t], ProxyField), NoProxy)
FromBody(t) == Only(patch[t], ProxyField)

GetProject(t) ==
  /\ ppc[t] = "proxy"
  /\ CanGet
  /\ DOMAIN patch[t] \cap ProxyField # {}
  /\ IF ~live THEN AnswerPatch(t)
     ELSE /\ ppc' = [ppc EXCEPT ![t] = "reading"]
          /\ cfg' = [cfg EXCEPT ![t] = FromBody(t)]
          /\ UNCHANGED <<patch, alone, before>>
  /\ UNCHANGED <<repository, begun, servers, intended>>

NoProxyField(t) ==
  /\ ppc[t] = "proxy"
  /\ DOMAIN patch[t] \cap ProxyField = {}
  /\ ppc' = [ppc EXCEPT ![t] = "answering"]
  /\ UNCHANGED <<repository, patch, cfg, begun, alone, before, servers, intended>>

ReadSetting(t) ==
  \E f \in ProxyField \ DOMAIN cfg[t] : \E x \in Read(f) :
    /\ ppc[t] = "reading"
    /\ cfg' = [cfg EXCEPT ![t] = Over([g \in {f} |-> x], @)]
    /\ UNCHANGED <<repository, ppc, patch, begun, alone, before, servers, intended>>

\* What is set, once it is validated: the patch and what it was read with.
Accepted(t) == ValidConfig(cfg[t])
ToSetPatched(t) == Normal(Only(patch[t], ProxyField))
ToSet(t) == Normal(cfg[t])

Reject(t) ==
  /\ ppc[t] = "reading"
  /\ DOMAIN cfg[t] = ProxyField
  /\ ~Accepted(t) \/ cfg[t].upstreamUrl = Torn
  /\ AnswerPatch(t)
  /\ UNCHANGED <<repository, begun, servers, intended>>

Accept(t) ==
  /\ ppc[t] = "reading"
  /\ DOMAIN cfg[t] = ProxyField
  /\ Accepted(t)
  /\ ppc' = [ppc EXCEPT ![t] = "setting"]
  /\ cfg' = [cfg EXCEPT ![t] = ToSet(t)]
  /\ UNCHANGED <<repository, patch, begun, alone, before, servers, intended>>

\* The repository's setter: lock, write the fields, save, unlock.
LockToSet(t) ==
  /\ ppc[t] = "setting"
  /\ mu = NoOne
  /\ IF ~live THEN AnswerPatch(t) /\ UNCHANGED <<mu, unwritten, intended>>
     ELSE /\ mu' = t
          /\ unwritten' = DOMAIN cfg[t]
          /\ intended' = Over(Only(patch[t], DOMAIN cfg[t]), intended)
          /\ ppc' = [ppc EXCEPT ![t] = "writing"]
          /\ UNCHANGED <<patch, cfg, alone, before>>
  /\ UNCHANGED <<project, live, saved, begun, servers>>

Write(t) ==
  \E f \in unwritten :
    /\ ppc[t] = "writing"
    /\ project' = [project EXCEPT ![f] = cfg[t][f]]
    /\ unwritten' = unwritten \ {f}
    /\ InForce({project'.validationMode})
    /\ UNCHANGED <<live, saved, mu, patchers, spc, scfg, outcome, intended>>

\* The part of the handler that follows.
After(t) ==
  CASE DOMAIN cfg[t] = {"validationMode"} -> "stateMode"
    [] DOMAIN cfg[t] = {"stateMode"} -> "proxy"
    [] OTHER -> "answering"

\* A failing save is answered with 500; the fields stay as they are.
Save(t) ==
  /\ ppc[t] = "writing"
  /\ unwritten = {}
  /\ mu' = NoOne
  /\ \/ /\ saved' = [live |-> live, project |-> project]
        /\ ppc' = [ppc EXCEPT ![t] = After(t)]
        /\ cfg' = [cfg EXCEPT ![t] = Nothing]
        /\ UNCHANGED <<patch, alone, before>>
     \/ AnswerPatch(t) /\ UNCHANGED saved
  /\ UNCHANGED <<project, live, unwritten, begun, servers, intended>>

\* getProject: the answer with the project as it is now.
Answer(t) ==
  /\ ppc[t] = "answering"
  /\ CanGet
  /\ AnswerPatch(t)
  /\ UNCHANGED <<repository, begun, servers, intended>>

-----------------------------------------------------------------------------
(***************************************************************************)
(* ServeRequest, for a request that breaks the contract and that no rule   *)
(* answers.                                                                *)
(***************************************************************************)

Arrive(s) ==
  /\ spc[s] = "idle"
  /\ spc' = [spc EXCEPT ![s] = "arrived"]
  /\ seen' = [seen EXCEPT ![s] = {IF live THEN project.validationMode ELSE "off"}]
  /\ UNCHANGED <<repository, patchers, scfg, outcome, intended>>

\* servingConfig.validationMode: Get, and "off" for a project that is gone.
GetMode(s, here, next, ifGone) ==
  /\ spc[s] = here
  /\ CanGet
  /\ spc' = [spc EXCEPT ![s] = IF live THEN next ELSE "configuring"]
  /\ outcome' = [outcome EXCEPT ![s] = IF live THEN "none" ELSE ifGone]
  /\ UNCHANGED <<repository, patchers, scfg, seen, intended>>

GetToValidate(s) == GetMode(s, "arrived", "validating", "unchecked")
GetToEnforce(s) == GetMode(s, "violating", "enforcing", "warned")

Off(m) == m \in {"", "off"}

\* validate
Validate(s) ==
  \E m \in Read("validationMode") :
    /\ spc[s] = "validating"
    /\ spc' = [spc EXCEPT ![s] = IF Off(m) THEN "configuring" ELSE "violating"]
    /\ outcome' = [outcome EXCEPT ![s] = IF Off(m) THEN "unchecked" ELSE "none"]
    /\ UNCHANGED <<repository, patchers, scfg, seen, intended>>

\* The mode is read again before the request is rejected.
RejectsUnlessOff(m) == m # "off"
Rejects(m) == m = "enforce"

Enforce(s) ==
  \E m \in Read("validationMode") :
    /\ spc[s] = "enforcing"
    /\ spc' = [spc EXCEPT ![s] = IF Rejects(m) THEN "served" ELSE "configuring"]
    /\ outcome' = [outcome EXCEPT ![s] = IF Rejects(m) THEN "rejected" ELSE "warned"]
    /\ UNCHANGED <<repository, patchers, scfg, seen, intended>>

\* proxyConfig: a project that is gone forwards nothing.
GetConfig(s) ==
  /\ spc[s] = "configuring"
  /\ CanGet
  /\ spc' = [spc EXCEPT ![s] = "reading"]
  /\ scfg' = [scfg EXCEPT ![s] = IF live THEN Nothing ELSE NoProxy]
  /\ UNCHANGED <<repository, patchers, outcome, seen, intended>>

ReadConfig(s) ==
  \E f \in ProxyField \ DOMAIN scfg[s] : \E x \in Read(f) :
    /\ spc[s] = "reading"
    /\ scfg' = [scfg EXCEPT ![s] = Over([g \in {f} |-> x], @)]
    /\ UNCHANGED <<repository, patchers, spc, outcome, seen, intended>>

\* proxy: forward to the upstream, or fall back.
Respond(s) ==
  /\ spc[s] = "reading"
  /\ DOMAIN scfg[s] = ProxyField
  /\ spc' = [spc EXCEPT ![s] = IF Forwards(scfg[s]) THEN "forwarding" ELSE "served"]
  /\ UNCHANGED <<repository, patchers, scfg, outcome, seen, intended>>

Finish(s) ==
  /\ spc[s] \in {"forwarding", "served"}
  /\ spc' = [spc EXCEPT ![s] = "idle"]
  /\ scfg' = [scfg EXCEPT ![s] = Nothing]
  /\ outcome' = [outcome EXCEPT ![s] = "none"]
  /\ seen' = [seen EXCEPT ![s] = {}]
  /\ UNCHANGED <<repository, patchers, intended>>

-----------------------------------------------------------------------------
\* DELETE the project; a failing save leaves it in the file.
Delete ==
  /\ mu = NoOne
  /\ live
  /\ live' = FALSE
  /\ \/ saved' = [live |-> FALSE, project |-> project]
     \/ UNCHANGED saved
  /\ alone' = [t \in Patcher |-> FALSE]
  /\ InForce({"off"})
  /\ UNCHANGED <<project, mu, unwritten, ppc, patch, cfg, begun, before,
                 spc, scfg, outcome, intended>>

\* The process dies, and New loads the file.
Restart ==
  /\ project' = saved.project
  /\ live' = saved.live
  /\ mu' = NoOne
  /\ unwritten' = {}
  /\ ppc' = [t \in Patcher |-> "idle"]
  /\ patch' = [t \in Patcher |-> Nothing]
  /\ cfg' = [t \in Patcher |-> Nothing]
  /\ alone' = [t \in Patcher |-> FALSE]
  /\ before' = [t \in Patcher |-> Nothing]
  /\ spc' = [s \in Server |-> "idle"]
  /\ scfg' = [s \in Server |-> Nothing]
  /\ outcome' = [s \in Server |-> "none"]
  /\ seen' = [s \in Server |-> {}]
  /\ intended' = saved.project
  /\ UNCHANGED <<saved, begun>>

\* Create leaves every setting empty.
New == Over(NoProxy, [validationMode |-> "", stateMode |-> ""])

Init ==
  /\ project = New
  /\ live = TRUE
  /\ saved = [live |-> TRUE, project |-> project]
  /\ mu = NoOne
  /\ unwritten = {}
  /\ ppc = [t \in Patcher |-> "idle"]
  /\ patch = [t \in Patcher |-> Nothing]
  /\ cfg = [t \in Patcher |-> Nothing]
  /\ begun = 0
  /\ spc = [s \in Server |-> "idle"]
  /\ scfg = [s \in Server |-> Nothing]
  /\ outcome = [s \in Server |-> "none"]
  /\ seen = [s \in Server |-> {}]
  /\ alone = [t \in Patcher |-> FALSE]
  /\ before = [t \in Patcher |-> Nothing]
  /\ intended = project

UpdateProject(t) ==
  \/ Receive(t) \/ SetValidationMode(t) \/ SetStateMode(t)
  \/ GetProject(t) \/ NoProxyField(t) \/ ReadSetting(t) \/ Reject(t) \/ Accept(t)
  \/ LockToSet(t) \/ Write(t) \/ Save(t) \/ Answer(t)

ServeRequest(s) ==
  \/ Arrive(s) \/ GetToValidate(s) \/ Validate(s) \/ GetToEnforce(s) \/ Enforce(s)
  \/ GetConfig(s) \/ ReadConfig(s) \/ Respond(s) \/ Finish(s)

Next ==
  \/ \E t \in Patcher : UpdateProject(t)
  \/ \E s \in Server : ServeRequest(s)
  \/ Delete
  \/ Restart

Spec == Init /\ [][Next]_vars

-----------------------------------------------------------------------------
(***************************************************************************)
(* What the settings must guarantee.                                       *)
(***************************************************************************)

\* The settings the project is left with, and those in db.json, are valid
\* together, whichever patches were validated against which settings.
StoredSettingsValid == (mu = NoOne => Valid(project)) /\ Valid(saved.project)

\* A patch that succeeded, and that nothing else overlapped, changed what its
\* body has and nothing else.
LonePatchExact ==
  \A t \in Patcher : alone[t] /\ ppc[t] = "answering" =>
    Normal(project) = Normal(Over(patch[t], before[t]))

\* A request is rejected, or not checked at all, only if the mode for that was
\* in force at some moment while it was served.
ServedByAModeInForce ==
  \A s \in Server :
    /\ outcome[s] = "rejected" => "enforce" \in seen[s]
    /\ outcome[s] = "unchecked" => \E m \in seen[s] : Off(m)

\* "Only the fields present in the JSON body are modified" (handlers_projects.go:42).
OnlyPresentFieldsModified ==
  mu = NoOne => Normal(project) = Normal(intended)

=============================================================================
