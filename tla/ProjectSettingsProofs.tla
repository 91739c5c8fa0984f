------------------------ MODULE ProjectSettingsProofs ------------------------
(***************************************************************************)
(* Theorems about ProjectSettings, for every number of concurrent patches  *)
(* and served requests, every set of bodies and every choice of the fields *)
(* a reader may see torn.                                                  *)
(***************************************************************************)
EXTENDS ProjectSettings, TLAPS

PatcherStep ==
  {"idle", "validationMode", "stateMode", "proxy", "reading", "setting", "writing", "answering"}
ServerStep ==
  {"idle", "arrived", "validating", "violating", "enforcing", "configuring", "reading",
   "forwarding", "served"}

\* Settings are of several kinds, so what has a type of them is their domain.
TypeOK ==
  /\ DOMAIN project = Field /\ DOMAIN saved.project = Field
  /\ mu \in Patcher \cup {NoOne}
  /\ ppc \in [Patcher -> PatcherStep]
  /\ DOMAIN patch = Patcher /\ DOMAIN cfg = Patcher
  /\ DOMAIN before = Patcher /\ DOMAIN alone = Patcher
  /\ \A t \in Patcher : DOMAIN patch[t] \subseteq Field
  /\ spc \in [Server -> ServerStep]
  /\ DOMAIN outcome = Server /\ DOMAIN seen = Server

\* The mutex is held from LockToSet to Save, and only of a project that is there.
LockInv ==
  /\ \A t \in Patcher : mu = t <=> ppc[t] = "writing"
  /\ mu # NoOne => live /\ unwritten \subseteq DOMAIN cfg[mu]

\* What a setter is called with is one of the three groups of settings, valid
\* with itself.
Settable(c) ==
  \/ DOMAIN c = {"validationMode"} /\ c["validationMode"] \in ValidationMode
  \/ DOMAIN c = {"stateMode"} /\ c["stateMode"] \in StateMode
  \/ DOMAIN c = ProxyField /\ ValidConfig(c)

CfgInv ==
  \A t \in Patcher :
    /\ ppc[t] \in {"setting", "writing"} => Settable(cfg[t])
    /\ ppc[t] = "reading" => DOMAIN cfg[t] \subseteq ProxyField

\* In the middle of a setter the proxy settings are partly the old and partly
\* the new ones.  They are valid whenever no setter is writing them.
StoreInv ==
  /\ Valid(saved.project)
  /\ project.validationMode \in ValidationMode /\ project.stateMode \in StateMode
  /\ mu = NoOne \/ DOMAIN cfg[mu] # ProxyField => ValidConfig(project)
  /\ mu # NoOne => \A f \in DOMAIN cfg[mu] \ unwritten : project[f] = cfg[mu][f]

Core == TypeOK /\ LockInv /\ CfgInv /\ StoreInv

LEMMA FieldsDiffer ==
  /\ "validationMode" \notin ProxyField /\ "stateMode" \notin ProxyField
  /\ {"validationMode"} # ProxyField /\ {"stateMode"} # ProxyField
  /\ {"validationMode"} # {"stateMode"}
BY DEF ProxyField

\* What the three settings of a configuration are decides whether it is valid.
LEMMA ValidConfigOf ==
  ASSUME NEW c, NEW d, ValidConfig(c), \A f \in ProxyField : d[f] = c[f]
  PROVE  ValidConfig(d)
BY DEF ValidConfig, ProxyField, Forwards

LEMMA NormalIs ==
  ASSUME NEW c
  PROVE  /\ DOMAIN Normal(c) = DOMAIN c
         /\ \A f \in DOMAIN c :
              Normal(c)[f] = IF f \in {"validationMode", "stateMode", "proxyMode"} /\ c[f] = ""
                             THEN "off" ELSE c[f]
BY DEF Normal

LEMMA NormalValid ==
  ASSUME NEW c, DOMAIN c = ProxyField, ValidConfig(c)
  PROVE  ValidConfig(Normal(c))
<1>1. /\ Normal(c)["upstreamUrl"] = c["upstreamUrl"] /\ Normal(c)["driftCheck"] = c["driftCheck"]
      /\ Normal(c)["proxyMode"] = IF c["proxyMode"] = "" THEN "off" ELSE c["proxyMode"]
  BY NormalIs DEF ProxyField
<1> QED
  BY <1>1 DEF ValidConfig, Forwards, ProxyMode

LEMMA NewIsValid == DOMAIN New = Field /\ Valid(New)
<1>1. DOMAIN New = Field
  BY DEF New, Over, NoProxy, Field, ProxyField
<1>2. /\ New["validationMode"] = "" /\ New["stateMode"] = "" /\ New["upstreamUrl"] = ""
      /\ New["proxyMode"] = "" /\ New["driftCheck"] = FALSE
  BY DEF New, Over, NoProxy
<1> QED
  BY <1>1, <1>2 DEF Valid, ValidConfig, ValidationMode, StateMode, ProxyMode, Forwards

LEMMA InitCore == Init => Core
<1> SUFFICES ASSUME Init PROVE Core
  OBVIOUS
<1>1. TypeOK
  BY NewIsValid DEF Init, TypeOK, PatcherStep, ServerStep, Nothing
<1>2. LockInv /\ CfgInv
  BY PatcherAssumption DEF Init, LockInv, CfgInv
<1>3. StoreInv
  BY NewIsValid DEF Init, StoreInv, Valid
<1> QED
  BY <1>1, <1>2, <1>3 DEF Core

\* What a step of one patcher leaves alone of the others.
Others(t) ==
  \A r \in Patcher \ {t} :
    /\ ppc'[r] = ppc[r] /\ patch'[r] = patch[r] /\ cfg'[r] = cfg[r] /\ before'[r] = before[r]
    /\ alone'[r] => alone[r]

LEMMA AnswerEffect ==
  ASSUME TypeOK, NEW t \in Patcher, AnswerPatch(t)
  PROVE  /\ ppc' \in [Patcher -> PatcherStep] /\ ppc'[t] = "idle" /\ ~alone'[t]
         /\ DOMAIN patch' = Patcher /\ DOMAIN cfg' = Patcher
         /\ DOMAIN before' = Patcher /\ DOMAIN alone' = Patcher
         /\ \A r \in Patcher : DOMAIN patch'[r] \subseteq Field
         /\ Others(t)
BY DEF AnswerPatch, TypeOK, PatcherStep, Others, Nothing

\* An answer given without the mutex.
LEMMA AnswerCore ==
  ASSUME Core, NEW t \in Patcher, AnswerPatch(t), ppc[t] # "writing",
         UNCHANGED <<repository, servers>>
  PROVE  Core'
<1>1. TypeOK'
  BY AnswerEffect DEF Core, TypeOK, repository, servers
<1>2. mu # t /\ mu' = mu /\ project' = project /\ saved' = saved /\ unwritten' = unwritten
      /\ live' = live
  BY DEF Core, LockInv, repository
<1>3. Others(t) /\ ppc'[t] = "idle"
  BY AnswerEffect DEF Core
<1>4. mu # NoOne => cfg'[mu] = cfg[mu]
  BY <1>2, <1>3 DEF Others, Core, TypeOK
<1>5. LockInv'
  BY <1>2, <1>3, <1>4 DEF LockInv, Core, Others
<1>6. CfgInv'
  BY <1>3 DEF CfgInv, Core, Others
<1>7. StoreInv'
  BY <1>2, <1>4 DEF StoreInv, Core
<1> QED
  BY <1>1, <1>5, <1>6, <1>7 DEF Core

\* Any other step of a patcher without the mutex.
LEMMA PatcherMoves ==
  ASSUME Core, NEW t \in Patcher, ppc[t] # "writing", UNCHANGED <<repository, servers>>,
         ppc' \in [Patcher -> PatcherStep], ppc'[t] # "writing",
         DOMAIN patch' = Patcher, DOMAIN cfg' = Patcher,
         DOMAIN before' = Patcher, DOMAIN alone' = Patcher,
         DOMAIN patch'[t] \subseteq Field, Others(t),
         ppc'[t] = "setting" => Settable(cfg'[t]),
         ppc'[t] = "reading" => DOMAIN cfg'[t] \subseteq ProxyField
  PROVE  Core'
<1>1. TypeOK'
  BY DEF Core, TypeOK, repository, servers, Others
<1>2. mu # t /\ mu' = mu /\ project' = project /\ saved' = saved /\ unwritten' = unwritten
      /\ live' = live
  BY DEF Core, LockInv, repository
<1>3. mu # NoOne => cfg'[mu] = cfg[mu]
  BY <1>2 DEF Others, Core, TypeOK
<1>4. LockInv'
  BY <1>2, <1>3 DEF LockInv, Core, Others
<1>5. CfgInv'
  BY DEF CfgInv, Core, Others
<1>6. StoreInv'
  BY <1>2, <1>3 DEF StoreInv, Core
<1> QED
  BY <1>1, <1>4, <1>5, <1>6 DEF Core

\* A step on the way of a request, that no setter of a patcher is part of.
LEMMA ServerMoves ==
  ASSUME Core, UNCHANGED <<repository, patchers>>,
         spc' \in [Server -> ServerStep], DOMAIN outcome' = Server, DOMAIN seen' = Server
  PROVE  Core'
<1>1. TypeOK'
  BY DEF Core, TypeOK, repository, patchers
<1>2. LockInv' /\ CfgInv' /\ StoreInv'
  BY DEF Core, LockInv, CfgInv, StoreInv, repository, patchers
<1> QED
  BY <1>1, <1>2 DEF Core

LEMMA SetModeCore ==
  ASSUME Core, NEW t \in Patcher, NEW f, NEW modes, NEW next \in PatcherStep,
         \/ f = "validationMode" /\ modes = ValidationMode
         \/ f = "stateMode" /\ modes = StateMode,
         next \notin {"writing", "setting", "reading"}, SetMode(t, f, modes, next)
  PROVE  Core'
<1>1. ppc[t] # "writing" /\ UNCHANGED <<repository, servers>>
  BY DEF SetMode
<1>2. CASE AnswerPatch(t)
  BY <1>1, <1>2, AnswerCore
<1>3. CASE ppc' = [ppc EXCEPT ![t] = next] /\ UNCHANGED <<patch, cfg, alone, before>>
  <2>1. ppc' \in [Patcher -> PatcherStep] /\ ppc'[t] = next /\ Others(t)
    BY <1>3 DEF Core, TypeOK, Others
  <2> QED
    BY <1>1, <1>3, <2>1, PatcherMoves DEF Core, TypeOK
<1>4. CASE /\ f \in DOMAIN patch[t] /\ patch[t][f] \in modes
           /\ ppc' = [ppc EXCEPT ![t] = "setting"]
           /\ cfg' = [cfg EXCEPT ![t] = Normal(Only(patch[t], {f}))]
           /\ UNCHANGED <<patch, alone, before>>
  <2>1. ppc' \in [Patcher -> PatcherStep] /\ ppc'[t] = "setting" /\ Others(t)
    BY <1>4 DEF Core, TypeOK, Others, PatcherStep
  <2>2. DOMAIN cfg' = Patcher /\ cfg'[t] = Normal(Only(patch[t], {f}))
    BY <1>4 DEF Core, TypeOK
  <2> DEFINE c == Only(patch[t], {f})
  <2>3. DOMAIN c = {f} /\ c[f] = patch[t][f]
    BY <1>4 DEF Only
  <2> HIDE DEF c
  <2>4. DOMAIN cfg'[t] = {f} /\ cfg'[t][f] \in modes
    <3>1. DOMAIN Normal(c) = {f} /\ Normal(c)[f] \in {c[f], "off"}
      BY <2>3, NormalIs
    <3>2. "off" \in modes
      BY DEF ValidationMode, StateMode
    <3> QED
      BY <1>4, <2>2, <2>3, <3>1, <3>2 DEF c
  <2>5. Settable(cfg'[t])
    BY <2>4 DEF Settable
  <2> QED
    BY <1>1, <1>4, <2>1, <2>2, <2>5, PatcherMoves DEF Core, TypeOK
<1> QED
  BY <1>2, <1>3, <1>4 DEF SetMode

LEMMA ReceiveCore == ASSUME Core, NEW t \in Patcher, Receive(t) PROVE Core'
<1>1. PICK b \in Patch :
        /\ ppc[t] = "idle"
        /\ ppc' = [ppc EXCEPT ![t] = "validationMode"]
        /\ patch' = [patch EXCEPT ![t] = b]
        /\ before' = [before EXCEPT ![t] = project]
        /\ alone' = [s \in Patcher |->
                       IF s = t THEN \A r \in Patcher \ {t} : ppc[r] = "idle" ELSE FALSE]
        /\ UNCHANGED <<repository, cfg, servers, intended>>
  BY DEF Receive
<1>2. ppc' \in [Patcher -> PatcherStep] /\ ppc'[t] = "validationMode" /\ Others(t)
  BY <1>1 DEF Core, TypeOK, Others, PatcherStep
<1>3. DOMAIN patch' = Patcher /\ DOMAIN patch'[t] \subseteq Field
  BY <1>1, PatchAssumption DEF Core, TypeOK
<1>4. DOMAIN cfg' = Patcher /\ DOMAIN before' = Patcher /\ DOMAIN alone' = Patcher
  BY <1>1 DEF Core, TypeOK
<1> QED
  BY <1>1, <1>2, <1>3, <1>4, PatcherMoves

LEMMA GetProjectCore ==
  ASSUME Core, NEW t \in Patcher, GetProject(t) \/ NoProxyField(t)
  PROVE  Core'
<1>1. ppc[t] # "writing" /\ UNCHANGED <<repository, servers>>
  BY DEF GetProject, NoProxyField
<1>2. CASE AnswerPatch(t)
  BY <1>1, <1>2, AnswerCore
<1>3. CASE /\ ppc' = [ppc EXCEPT ![t] = "reading"]
           /\ cfg' = [cfg EXCEPT ![t] = FromBody(t)]
           /\ UNCHANGED <<patch, alone, before>>
  <2>1. ppc' \in [Patcher -> PatcherStep] /\ ppc'[t] = "reading" /\ Others(t)
    BY <1>3 DEF Core, TypeOK, Others, PatcherStep
  <2>2. DOMAIN cfg' = Patcher /\ DOMAIN cfg'[t] \subseteq ProxyField
    BY <1>3 DEF Core, TypeOK, FromBody, Only
  <2> QED
    BY <1>1, <1>3, <2>1, <2>2, PatcherMoves DEF Core, TypeOK
<1>4. CASE NoProxyField(t)
  <2>1. ppc' \in [Patcher -> PatcherStep] /\ ppc'[t] = "answering" /\ Others(t)
    BY <1>4 DEF Core, TypeOK, Others, PatcherStep, NoProxyField
  <2> QED
    BY <1>1, <1>4, <2>1, PatcherMoves DEF Core, TypeOK, NoProxyField
<1> QED
  BY <1>2, <1>3, <1>4 DEF GetProject

LEMMA ReadSettingCore == ASSUME Core, NEW t \in Patcher, ReadSetting(t) PROVE Core'
<1>1. PICK f \in ProxyField \ DOMAIN cfg[t] : \E x :
        /\ ppc[t] = "reading"
        /\ cfg' = [cfg EXCEPT ![t] = Over([g \in {f} |-> x], @)]
        /\ UNCHANGED <<repository, ppc, patch, alone, before, servers>>
  BY DEF ReadSetting
<1>2. ppc' = ppc /\ Others(t)
  BY <1>1 DEF Core, TypeOK, Others
<1>3. DOMAIN cfg' = Patcher /\ DOMAIN cfg'[t] = DOMAIN cfg[t] \cup {f}
  BY <1>1 DEF Core, TypeOK, Over
<1>4. DOMAIN cfg'[t] \subseteq ProxyField
  BY <1>1, <1>3 DEF Core, CfgInv
<1> QED
  BY <1>1, <1>2, <1>3, <1>4, PatcherMoves DEF Core, TypeOK

LEMMA AcceptCore == ASSUME Core, NEW t \in Patcher, Accept(t) PROVE Core'
<1>1. ppc' \in [Patcher -> PatcherStep] /\ ppc'[t] = "setting" /\ Others(t)
  BY DEF Core, TypeOK, Others, PatcherStep, Accept
<1>2. DOMAIN cfg' = Patcher /\ cfg'[t] = Normal(cfg[t])
  BY DEF Core, TypeOK, Accept, ToSet
<1>3. DOMAIN cfg'[t] = ProxyField /\ ValidConfig(cfg'[t])
  BY <1>2, NormalIs, NormalValid DEF Accept, Accepted
<1>4. Settable(cfg'[t])
  BY <1>3 DEF Settable
<1> QED
  BY <1>1, <1>2, <1>4, PatcherMoves DEF Core, TypeOK, Accept

LEMMA LockCore == ASSUME Core, NEW t \in Patcher, LockToSet(t) PROVE Core'
<1>1. ppc[t] = "setting" /\ mu = NoOne /\ project' = project /\ live' = live /\ saved' = saved
      /\ UNCHANGED servers
  BY DEF LockToSet
<1>2. CASE AnswerPatch(t) /\ UNCHANGED <<mu, unwritten>>
  BY <1>1, <1>2, AnswerCore DEF repository
<1>3. CASE /\ live /\ mu' = t /\ unwritten' = DOMAIN cfg[t]
           /\ ppc' = [ppc EXCEPT ![t] = "writing"]
           /\ UNCHANGED <<patch, cfg, alone, before>>
  <2>1. ppc' \in [Patcher -> PatcherStep] /\ ppc'[t] = "writing"
        /\ \A r \in Patcher \ {t} : ppc'[r] = ppc[r]
    BY <1>3 DEF Core, TypeOK, PatcherStep
  <2>2. TypeOK'
    BY <1>1, <1>3, <2>1 DEF Core, TypeOK, servers
  <2>3. LockInv'
    BY <1>1, <1>3, <2>1, PatcherAssumption DEF Core, LockInv
  <2>4. CfgInv'
    BY <1>1, <1>3, <2>1 DEF Core, CfgInv
  <2>5. StoreInv'
    BY <1>1, <1>3 DEF Core, StoreInv
  <2> QED
    BY <2>2, <2>3, <2>4, <2>5 DEF Core
<1> QED
  BY <1>1, <1>2, <1>3 DEF LockToSet

LEMMA WriteCore == ASSUME Core, NEW t \in Patcher, Write(t) PROVE Core'
<1>1. PICK f \in unwritten :
        /\ ppc[t] = "writing"
        /\ project' = [project EXCEPT ![f] = cfg[t][f]]
        /\ unwritten' = unwritten \ {f}
        /\ InForce({project'.validationMode})
        /\ UNCHANGED <<live, saved, mu, patchers, spc, scfg, outcome, intended>>
  BY DEF Write
<1>2. mu = t /\ mu # NoOne /\ mu' = t /\ f \in DOMAIN cfg[t] /\ cfg' = cfg /\ ppc' = ppc
  BY <1>1, PatcherAssumption DEF Core, LockInv, patchers
<1>3. Settable(cfg[t])
  BY <1>1 DEF Core, CfgInv
<1>4. f \in Field
  BY <1>2, <1>3 DEF Settable, Field, ProxyField
<1>5. /\ DOMAIN project' = Field /\ project'[f] = cfg[t][f]
      /\ \A g \in Field \ {f} : project'[g] = project[g]
  BY <1>1, <1>4 DEF Core, TypeOK
<1>6. TypeOK'
  <2>1. DOMAIN seen' = Server
    BY <1>1 DEF InForce
  <2> QED
    BY <1>1, <1>5, <2>1 DEF Core, TypeOK, patchers
<1>7. LockInv' /\ CfgInv'
  BY <1>1, <1>2 DEF Core, LockInv, CfgInv
<1>8. StoreInv'
  <2>1. project'.validationMode \in ValidationMode /\ project'.stateMode \in StateMode
    <3>1. "validationMode" \in Field /\ "stateMode" \in Field
      BY DEF Field
    <3>2. f = "validationMode" => cfg[t]["validationMode"] \in ValidationMode
      BY <1>2, <1>3, FieldsDiffer DEF Settable
    <3>3. f = "stateMode" => cfg[t]["stateMode"] \in StateMode
      BY <1>2, <1>3, FieldsDiffer DEF Settable
    <3> QED
      BY <1>5, <3>1, <3>2, <3>3 DEF Core, StoreInv
  <2>2. ASSUME DOMAIN cfg[t] # ProxyField PROVE ValidConfig(project')
    <3>1. ValidConfig(project)
      BY <1>2, <2>2 DEF Core, StoreInv
    <3>2. f \notin ProxyField
      BY <1>2, <1>3, <2>2, FieldsDiffer DEF Settable
    <3>3. \A g \in ProxyField : project'[g] = project[g]
      BY <1>5, <3>2 DEF Field
    <3> QED
      BY <3>1, <3>3, ValidConfigOf
  <2>3. \A g \in DOMAIN cfg[t] \ unwritten' : project'[g] = cfg[t][g]
    <3>1. \A g \in DOMAIN cfg[t] : g \in Field
      BY <1>3 DEF Settable, Field, ProxyField
    <3> QED
      BY <1>1, <1>2, <1>5, <3>1 DEF Core, StoreInv
  <2> QED
    BY <1>1, <1>2, <2>1, <2>2, <2>3 DEF Core, StoreInv
<1> QED
  BY <1>6, <1>7, <1>8 DEF Core

\* When a setter is done the proxy settings are the valid ones it was given.
LEMMA WrittenIsValid ==
  ASSUME Core, NEW t \in Patcher, ppc[t] = "writing", unwritten = {}
  PROVE  Valid(project)
<1>1. mu = t /\ mu # NoOne
  BY PatcherAssumption DEF Core, LockInv
<1>2. \A f \in DOMAIN cfg[t] : project[f] = cfg[t][f]
  BY <1>1 DEF Core, StoreInv
<1>3. Settable(cfg[t])
  BY DEF Core, CfgInv
<1>4. DOMAIN cfg[t] = ProxyField => ValidConfig(cfg[t])
  BY <1>3, FieldsDiffer DEF Settable
<1>5. ValidConfig(project)
  BY <1>1, <1>2, <1>4, ValidConfigOf DEF Core, StoreInv
<1> QED
  BY <1>5 DEF Core, StoreInv, Valid

LEMMA SaveCore == ASSUME Core, NEW t \in Patcher, Save(t) PROVE Core'
<1>1. /\ ppc[t] = "writing" /\ unwritten = {} /\ mu' = NoOne
      /\ project' = project /\ live' = live /\ unwritten' = unwritten /\ UNCHANGED servers
  BY DEF Save
<1>2. /\ ppc' \in [Patcher -> PatcherStep] /\ ppc'[t] \notin {"writing", "setting", "reading"}
      /\ DOMAIN patch' = Patcher /\ DOMAIN cfg' = Patcher
      /\ DOMAIN before' = Patcher /\ DOMAIN alone' = Patcher
      /\ \A r \in Patcher : DOMAIN patch'[r] \subseteq Field
      /\ Others(t)
  <2>1. CASE AnswerPatch(t)
    BY <2>1, AnswerEffect DEF Core
  <2>2. CASE /\ ppc' = [ppc EXCEPT ![t] = After(t)]
             /\ cfg' = [cfg EXCEPT ![t] = Nothing]
             /\ UNCHANGED <<patch, alone, before>>
    <3>1. After(t) \in {"stateMode", "proxy", "answering"}
      BY DEF After
    <3>2. ppc' \in [Patcher -> PatcherStep] /\ ppc'[t] = After(t)
      BY <2>2, <3>1 DEF Core, TypeOK, PatcherStep
    <3> QED
      BY <2>2, <3>1, <3>2 DEF Core, TypeOK, Others
  <2> QED
    BY <2>1, <2>2 DEF Save
<1>3. Valid(project) /\ mu = t
  BY <1>1, WrittenIsValid DEF Core, LockInv
<1>4. DOMAIN saved'.project = Field /\ Valid(saved'.project)
  <2>1. saved' = saved \/ saved' = [live |-> live, project |-> project]
    BY DEF Save
  <2> QED
    BY <1>3, <2>1 DEF Core, TypeOK, StoreInv
<1>5. TypeOK'
  BY <1>1, <1>2, <1>4 DEF Core, TypeOK, servers
<1>6. LockInv'
  BY <1>1, <1>2, <1>3, PatcherAssumption DEF Core, LockInv, Others
<1>7. CfgInv'
  BY <1>1, <1>2 DEF Core, CfgInv, Others
<1>8. StoreInv'
  BY <1>1, <1>3, <1>4 DEF StoreInv, Valid
<1> QED
  BY <1>5, <1>6, <1>7, <1>8 DEF Core

LEMMA UpdateCore == ASSUME Core, NEW t \in Patcher, UpdateProject(t) PROVE Core'
<1>1. CASE SetValidationMode(t)
  BY <1>1, SetModeCore DEF SetValidationMode, PatcherStep
<1>2. CASE SetStateMode(t)
  BY <1>2, SetModeCore DEF SetStateMode, PatcherStep
<1>3. CASE Reject(t)
  BY <1>3, AnswerCore DEF Reject
<1>4. CASE Answer(t)
  BY <1>4, AnswerCore DEF Answer
<1> QED
  BY <1>1, <1>2, <1>3, <1>4, ReceiveCore, GetProjectCore, ReadSettingCore, AcceptCore,
     LockCore, WriteCore, SaveCore DEF UpdateProject

\* What every step of a mock request leaves alone.
LEMMA ServeEffect ==
  ASSUME TypeOK, NEW s \in Server, ServeRequest(s)
  PROVE  /\ UNCHANGED <<repository, patchers, intended>>
         /\ spc' \in [Server -> ServerStep] /\ DOMAIN outcome' = Server /\ DOMAIN seen' = Server
<1> USE DEF TypeOK, ServerStep
<1>1. CASE Arrive(s)
  BY <1>1 DEF Arrive
<1>2. CASE GetToValidate(s) \/ GetToEnforce(s)
  BY <1>2 DEF GetToValidate, GetToEnforce, GetMode
<1>3. CASE Validate(s)
  BY <1>3 DEF Validate
<1>4. CASE Enforce(s)
  BY <1>4 DEF Enforce
<1>5. CASE GetConfig(s) \/ ReadConfig(s)
  BY <1>5 DEF GetConfig, ReadConfig
<1>6. CASE Respond(s)
  BY <1>6 DEF Respond
<1>7. CASE Finish(s)
  BY <1>7 DEF Finish
<1> QED
  BY <1>1, <1>2, <1>3, <1>4, <1>5, <1>6, <1>7 DEF ServeRequest

LEMMA DeleteCore == Core /\ Delete => Core'
<1> SUFFICES ASSUME Core, Delete PROVE Core'
  OBVIOUS
<1>1. /\ mu = NoOne /\ mu' = mu /\ project' = project /\ ppc' = ppc /\ patch' = patch
      /\ cfg' = cfg /\ before' = before /\ spc' = spc /\ outcome' = outcome
      /\ DOMAIN alone' = Patcher /\ DOMAIN seen' = Server
  BY DEF Delete, InForce
<1>2. saved' = saved \/ saved' = [live |-> FALSE, project |-> project]
  BY DEF Delete
<1>3. Valid(project)
  BY <1>1 DEF Core, StoreInv, Valid
<1>4. TypeOK'
  BY <1>1, <1>2 DEF Core, TypeOK
<1>5. LockInv' /\ CfgInv'
  BY <1>1 DEF Core, LockInv, CfgInv
<1>6. StoreInv'
  BY <1>1, <1>2, <1>3 DEF Core, StoreInv
<1> QED
  BY <1>4, <1>5, <1>6 DEF Core

LEMMA RestartCore == Core /\ Restart => Core'
<1> SUFFICES ASSUME Core, Restart PROVE Core'
  OBVIOUS
<1>1. TypeOK'
  BY DEF Core, TypeOK, Restart, PatcherStep, ServerStep, Nothing
<1>2. LockInv' /\ CfgInv'
  BY PatcherAssumption DEF Restart, LockInv, CfgInv
<1>3. StoreInv'
  BY DEF Core, Restart, StoreInv, Valid
<1> QED
  BY <1>1, <1>2, <1>3 DEF Core

LEMMA NextCore == Core /\ [Next]_vars => Core'
<1> SUFFICES ASSUME Core, [Next]_vars PROVE Core'
  OBVIOUS
<1>1. ASSUME NEW t \in Patcher, UpdateProject(t) PROVE Core'
  BY <1>1, UpdateCore
<1>2. ASSUME NEW s \in Server, ServeRequest(s) PROVE Core'
  <2>1. TypeOK
    BY DEF Core
  <2> QED
    BY <1>2, <2>1, ServeEffect, ServerMoves
<1>3. CASE UNCHANGED vars
  <2>1. UNCHANGED <<repository, patchers>> /\ spc' = spc /\ outcome' = outcome /\ seen' = seen
    BY <1>3 DEF vars, servers
  <2> QED
    BY <2>1, ServerMoves DEF Core, TypeOK
<1> QED
  BY <1>1, <1>2, <1>3, DeleteCore, RestartCore DEF Next

LEMMA CoreInvariant == Spec => []Core
<1> QED
  BY InitCore, NextCore, PTL DEF Spec

\* Whichever patches are read, validated and set over one another, with saves
\* that fail, deletions and restarts: no setter is done before the proxy
\* settings it leaves are valid together, and no other file is ever saved.
THEOREM StoredAreValid == Spec => []StoredSettingsValid
<1>1. Core => StoredSettingsValid
  BY DEF Core, StoreInv, StoredSettingsValid, Valid
<1> QED
  BY <1>1, CoreInvariant, PTL

-----------------------------------------------------------------------------
(***************************************************************************)
(* Which mode a request is served by.                                      *)
(***************************************************************************)

ModeNow == IF live THEN project.validationMode ELSE "off"

\* seen[s] has the mode in force now, and the one in the project that s got
\* before it was deleted: every way of reading the mode gives one of seen[s].
ServedInv(s) ==
  /\ spc[s] = "idle" => outcome[s] = "none"
  /\ spc[s] # "idle" => ModeNow \in seen[s]
  /\ spc[s] \in {"validating", "enforcing"} => project.validationMode \in seen[s]
  /\ outcome[s] = "rejected" => "enforce" \in seen[s]
  /\ outcome[s] = "unchecked" => \E m \in seen[s] : Off(m)

ServeInv == \A s \in Server : ServedInv(s)

LEMMA TornIsNoMode == ~Off(Torn) /\ ~Rejects(Torn)
BY TornAssumption DEF Off, Rejects, ValidationMode

\* A mode that is read is that of the project or torn.
LEMMA ReadMode == \A m \in Read("validationMode") : m = project.validationMode \/ m = Torn
BY DEF Read

LEMMA OtherServers ==
  ASSUME ServeInv, NEW s \in Server, UNCHANGED repository,
         \A r \in Server \ {s} : spc'[r] = spc[r] /\ outcome'[r] = outcome[r] /\ seen'[r] = seen[r]
  PROVE  \A r \in Server \ {s} : ServedInv(r)'
BY DEF ServeInv, ServedInv, ModeNow, repository

LEMMA ServeStep ==
  ASSUME TypeOK, ServeInv, NEW s \in Server, ServeRequest(s)
  PROVE  ServeInv'
<1>1. UNCHANGED repository
  BY ServeEffect
<1>2. project' = project /\ live' = live /\ ServedInv(s)
  BY <1>1 DEF repository, ServeInv
<1>3. \A r \in Server \ {s} : spc'[r] = spc[r] /\ outcome'[r] = outcome[r] /\ seen'[r] = seen[r]
  <2> USE DEF TypeOK
  <2>1. CASE Arrive(s)
    BY <2>1 DEF Arrive
  <2>2. CASE GetToValidate(s) \/ GetToEnforce(s)
    BY <2>2 DEF GetToValidate, GetToEnforce, GetMode
  <2>3. CASE Validate(s)
    BY <2>3 DEF Validate
  <2>4. CASE Enforce(s)
    BY <2>4 DEF Enforce
  <2>5. CASE GetConfig(s) \/ ReadConfig(s)
    BY <2>5 DEF GetConfig, ReadConfig
  <2>6. CASE Respond(s)
    BY <2>6 DEF Respond
  <2>7. CASE Finish(s)
    BY <2>7 DEF Finish
  <2> QED
    BY <2>1, <2>2, <2>3, <2>4, <2>5, <2>6, <2>7 DEF ServeRequest
<1>4. ServedInv(s)'
  <2>1. CASE Arrive(s)
    <3>1. spc'[s] = "arrived" /\ seen'[s] = {ModeNow} /\ outcome'[s] = outcome[s]
          /\ spc[s] = "idle"
      BY <2>1 DEF Arrive, TypeOK, ModeNow
    <3> QED
      BY <1>2, <3>1 DEF ServedInv, ModeNow
  <2>2. ASSUME NEW here, NEW next, NEW gone, GetMode(s, here, next, gone),
               here \notin {"idle"}, next \in {"validating", "enforcing"},
               gone \in {"unchecked", "warned"}
        PROVE  ServedInv(s)'
    <3>1. /\ spc[s] # "idle" /\ seen'[s] = seen[s]
          /\ spc'[s] = IF live THEN next ELSE "configuring"
          /\ outcome'[s] = IF live THEN "none" ELSE gone
      BY <2>2 DEF GetMode, TypeOK
    <3>2. ModeNow \in seen[s]
      BY <1>2, <3>1 DEF ServedInv
    <3> QED
      BY <1>2, <2>2, <3>1, <3>2 DEF ServedInv, ModeNow, Off
  <2>3. CASE Validate(s)
    <3>1. PICK m \in Read("validationMode") :
            /\ spc[s] = "validating" /\ seen'[s] = seen[s]
            /\ spc'[s] = IF Off(m) THEN "configuring" ELSE "violating"
            /\ outcome'[s] = IF Off(m) THEN "unchecked" ELSE "none"
      BY <2>3 DEF Validate, TypeOK
    <3>2. m = project.validationMode \/ m = Torn
      BY ReadMode
    <3> QED
      BY <1>2, <3>1, <3>2, TornIsNoMode DEF ServedInv, ModeNow
  <2>4. CASE Enforce(s)
    <3>1. PICK m \in Read("validationMode") :
            /\ spc[s] = "enforcing" /\ seen'[s] = seen[s]
            /\ spc'[s] = IF Rejects(m) THEN "served" ELSE "configuring"
            /\ outcome'[s] = IF Rejects(m) THEN "rejected" ELSE "warned"
      BY <2>4 DEF Enforce, TypeOK
    <3>2. m = project.validationMode \/ m = Torn
      BY ReadMode
    <3> QED
      BY <1>2, <3>1, <3>2, TornIsNoMode DEF ServedInv, ModeNow, Rejects
  <2>5. CASE GetConfig(s) \/ ReadConfig(s) \/ Respond(s)
    <3>1. /\ spc[s] # "idle" /\ spc'[s] \notin {"idle", "validating", "enforcing"}
          /\ seen'[s] = seen[s] /\ outcome'[s] = outcome[s]
      BY <2>5 DEF GetConfig, ReadConfig, Respond, TypeOK
    <3> QED
      BY <1>2, <3>1 DEF ServedInv, ModeNow
  <2>6. CASE Finish(s)
    <3>1. spc'[s] = "idle" /\ outcome'[s] = "none"
      BY <2>6 DEF Finish, TypeOK
    <3> QED
      BY <3>1 DEF ServedInv
  <2>7. GetToValidate(s) => ServedInv(s)'
    BY <2>2 DEF GetToValidate
  <2>8. GetToEnforce(s) => ServedInv(s)'
    BY <2>2 DEF GetToEnforce
  <2> QED
    BY <2>1, <2>3, <2>4, <2>5, <2>6, <2>7, <2>8 DEF ServeRequest
<1> QED
  BY <1>1, <1>3, <1>4, OtherServers DEF ServeInv

\* The mode of the project changes, and every request at work is shown it.
LEMMA ModeStep ==
  ASSUME TypeOK, ServeInv, UNCHANGED <<spc, outcome>>, NEW modes, InForce(modes),
         ModeNow' \in modes, project'.validationMode \in modes \cup {project.validationMode}
  PROVE  ServeInv'
<1> SUFFICES ASSUME NEW s \in Server PROVE ServedInv(s)'
  BY DEF ServeInv
<1>1. spc'[s] = spc[s] /\ outcome'[s] = outcome[s] /\ ServedInv(s)
  BY DEF ServeInv
<1>2. seen'[s] = IF spc[s] = "idle" THEN {} ELSE seen[s] \cup modes
  BY DEF InForce
<1>3. CASE spc[s] = "idle"
  BY <1>1, <1>3 DEF ServedInv
<1>4. CASE spc[s] # "idle"
  BY <1>1, <1>2, <1>4 DEF ServedInv
<1> QED
  BY <1>3, <1>4

LEMMA SameMode ==
  ASSUME ServeInv, UNCHANGED <<servers, live, project>>
  PROVE  ServeInv'
BY DEF ServeInv, ServedInv, ModeNow, servers

\* Only a write of a patcher changes the project it is about.
LEMMA UpdateServes ==
  ASSUME Core, ServeInv, NEW t \in Patcher, UpdateProject(t)
  PROVE  ServeInv'
<1>1. CASE Write(t)
  <2>1. InForce({project'.validationMode}) /\ UNCHANGED <<spc, outcome>> /\ live' = live
    BY <1>1 DEF Write
  <2>2. live
    BY <1>1, PatcherAssumption DEF Write, Core, LockInv
  <2> QED
    BY <2>1, <2>2, ModeStep DEF Core, ModeNow
<1>2. CASE Receive(t) \/ SetValidationMode(t) \/ SetStateMode(t) \/ GetProject(t)
           \/ NoProxyField(t) \/ ReadSetting(t) \/ Reject(t) \/ Accept(t) \/ Answer(t)
  <2>1. UNCHANGED <<repository, servers>>
    BY <1>2 DEF Receive, SetValidationMode, SetStateMode, SetMode, GetProject, NoProxyField,
       ReadSetting, Reject, Accept, Answer
  <2> QED
    BY <2>1, SameMode DEF repository
<1>3. CASE LockToSet(t) \/ Save(t)
  BY <1>3, SameMode DEF LockToSet, Save
<1> QED
  BY <1>1, <1>2, <1>3 DEF UpdateProject

LEMMA ServeInvariant == Spec => []ServeInv
<1>1. Init => ServeInv
  BY DEF Init, ServeInv, ServedInv
<1>2. Core /\ ServeInv /\ [Next]_vars => ServeInv'
  <2> SUFFICES ASSUME Core, ServeInv, [Next]_vars PROVE ServeInv'
    OBVIOUS
  <2>1. ASSUME NEW t \in Patcher, UpdateProject(t) PROVE ServeInv'
    BY <2>1, UpdateServes
  <2>2. ASSUME NEW s \in Server, ServeRequest(s) PROVE ServeInv'
    BY <2>2, ServeStep DEF Core
  <2>3. CASE Delete
    <3>1. InForce({"off"}) /\ UNCHANGED <<spc, outcome, project>> /\ ~live'
      BY <2>3 DEF Delete
    <3> QED
      BY <3>1, ModeStep DEF Core, ModeNow
  <2>4. CASE Restart
    BY <2>4 DEF Restart, ServeInv, ServedInv
  <2>5. CASE UNCHANGED vars
    BY <2>5, SameMode DEF vars, repository
  <2> QED
    BY <2>1, <2>2, <2>3, <2>4, <2>5 DEF Next
<1> QED
  BY <1>1, <1>2, CoreInvariant, PTL DEF Spec

\* A request reads the mode of its project without the mutex, twice, while
\* patches write it and the project is deleted: what it is rejected by, or let
\* through by, was in force at some moment while it was served.
THEOREM ServedByItsMode == Spec => []ServedByAModeInForce
<1>1. ServeInv => ServedByAModeInForce
  BY DEF ServeInv, ServedInv, ServedByAModeInForce
<1> QED
  BY <1>1, ServeInvariant, PTL

-----------------------------------------------------------------------------
(***************************************************************************)
(* What a patch that nothing overlapped has changed.                       *)
(***************************************************************************)

Modes == {"validationMode", "stateMode"}

\* What a value of a field means: an empty mode is "off".
Meant(f, x) == IF f \in {"validationMode", "stateMode", "proxyMode"} /\ x = "" THEN "off" ELSE x

\* The project t is to leave.
Target(t) == Over(patch[t], before[t])

\* The settings handled before a group of them is set.
Before(G) == IF G = {"validationMode"} THEN {}
             ELSE IF G = {"stateMode"} THEN {"validationMode"} ELSE Modes

\* The settings a patcher is done with at a step, the group it sets being G and
\* the fields it has still to write W.
DoneAt(step, G, W) ==
  CASE step = "stateMode" -> {"validationMode"}
    [] step \in {"proxy", "reading"} -> Modes
    [] step = "answering" -> Field
    [] step = "setting" -> Before(G)
    [] step = "writing" -> Before(G) \cup (G \ W)
    [] OTHER -> {}

Done(t) == DoneAt(ppc[t], DOMAIN cfg[t], unwritten)

\* The settings t is done with are as its body wants them, the others as t found
\* them, and what t is about to set is what its body and the project said.
LoneState(t) ==
  /\ \A f \in Done(t) : Meant(f, project[f]) = Meant(f, Target(t)[f])
  /\ \A f \in Field \ Done(t) : project[f] = before[t][f]
  /\ ppc[t] = "reading" =>
       /\ DOMAIN patch[t] \cap ProxyField \subseteq DOMAIN cfg[t]
       /\ \A f \in DOMAIN cfg[t] : cfg[t][f] = Target(t)[f]
  /\ ppc[t] \in {"setting", "writing"} =>
       \A f \in DOMAIN cfg[t] : Meant(f, cfg[t][f]) = Meant(f, Target(t)[f])

LoneInv(t) ==
  alone[t] =>
    /\ ppc[t] # "idle"
    /\ \A r \in Patcher \ {t} : ppc[r] = "idle"
    /\ DOMAIN before[t] = Field
    /\ LoneState(t)

AllLone == \A t \in Patcher : LoneInv(t)

LEMMA DoneIs ==
  ASSUME NEW G, NEW W
  PROVE  /\ DoneAt("validationMode", G, W) = {}
         /\ DoneAt("stateMode", G, W) = {"validationMode"}
         /\ DoneAt("proxy", G, W) = Modes /\ DoneAt("reading", G, W) = Modes
         /\ DoneAt("answering", G, W) = Field
         /\ DoneAt("setting", G, W) = Before(G)
         /\ DoneAt("writing", G, W) = Before(G) \cup (G \ W)
BY DEF DoneAt

LEMMA BeforeIs ==
  /\ Before({"validationMode"}) = {} /\ Before({"stateMode"}) = {"validationMode"}
  /\ Before(ProxyField) = Modes
BY FieldsDiffer DEF Before

LEMMA FieldIs == Field = Modes \cup ProxyField /\ Modes \cap ProxyField = {}
BY DEF Field, Modes, ProxyField

\* Normal keeps what a setting means.
LEMMA NormalMeant ==
  ASSUME NEW c, NEW f \in DOMAIN c
  PROVE  Normal(c)[f] = Meant(f, c[f]) /\ Meant(f, Normal(c)[f]) = Meant(f, c[f])
BY NormalIs DEF Meant

LEMMA TargetIs ==
  ASSUME NEW b, NEW p, DOMAIN b \subseteq Field, DOMAIN p = Field
  PROVE  /\ DOMAIN Over(b, p) = Field
         /\ \A f \in DOMAIN b : Over(b, p)[f] = b[f]
         /\ \A f \in Field \ DOMAIN b : Over(b, p)[f] = p[f]
BY DEF Over

\* A patcher that is idle can only begin, and then nobody is alone but itself.
LEMMA NobodyElseAlone ==
  ASSUME TypeOK, NEW t \in Patcher, UpdateProject(t), NEW r \in Patcher \ {t}, LoneInv(r)
  PROVE  ~alone'[r]
<1>1. CASE Receive(t)
  BY <1>1 DEF Receive
<1>2. CASE ~Receive(t)
  <2>1. ppc[t] # "idle"
    BY <1>2 DEF UpdateProject, SetValidationMode, SetStateMode, SetMode, GetProject,
       NoProxyField, ReadSetting, Reject, Accept, LockToSet, Write, Save, Answer
  <2>2. ~alone[r]
    BY <2>1 DEF LoneInv
  <2>3. alone'[r] = alone[r]
    <3> USE DEF TypeOK
    <3>1. AnswerPatch(t) => alone'[r] = alone[r]
      BY DEF AnswerPatch
    <3>2. CASE SetValidationMode(t) \/ SetStateMode(t)
      BY <3>1, <3>2 DEF SetValidationMode, SetStateMode, SetMode
    <3>3. CASE GetProject(t) \/ NoProxyField(t) \/ ReadSetting(t) \/ Reject(t) \/ Accept(t)
      BY <3>1, <3>3 DEF GetProject, NoProxyField, ReadSetting, Reject, Accept
    <3>4. CASE LockToSet(t) \/ Save(t) \/ Answer(t)
      BY <3>1, <3>4 DEF LockToSet, Save, Answer
    <3>5. CASE Write(t)
      BY <3>5 DEF Write, patchers
    <3> QED
      BY <1>2, <3>2, <3>3, <3>4, <3>5 DEF UpdateProject
  <2> QED
    BY <2>2, <2>3
<1> QED
  BY <1>1, <1>2

LEMMA LoneReceive == ASSUME Core, NEW t \in Patcher, Receive(t) PROVE LoneInv(t)'
<1> SUFFICES ASSUME alone'[t]
             PROVE  /\ ppc'[t] # "idle" /\ \A r \in Patcher \ {t} : ppc'[r] = "idle"
                    /\ DOMAIN before'[t] = Field /\ LoneState(t)'
  BY DEF LoneInv
<1>1. PICK b \in Patch :
        /\ ppc' = [ppc EXCEPT ![t] = "validationMode"]
        /\ before' = [before EXCEPT ![t] = project]
        /\ alone' = [s \in Patcher |->
                       IF s = t THEN \A r \in Patcher \ {t} : ppc[r] = "idle" ELSE FALSE]
        /\ project' = project
  BY DEF Receive, repository
<1>2. \A r \in Patcher \ {t} : ppc[r] = "idle"
  BY <1>1
<1>3. ppc'[t] = "validationMode" /\ \A r \in Patcher \ {t} : ppc'[r] = ppc[r]
  BY <1>1 DEF Core, TypeOK
<1>4. before'[t] = project /\ DOMAIN before'[t] = Field
  BY <1>1 DEF Core, TypeOK
<1>5. Done(t)' = {}
  BY <1>3, DoneIs DEF Done
<1> QED
  BY <1>1, <1>2, <1>3, <1>4, <1>5 DEF LoneState

\* A step of t that goes on with its patch.
LEMMA LoneGoesOn ==
  ASSUME TypeOK, NEW t \in Patcher, LoneInv(t), UNCHANGED <<patch, alone, before>>,
         ppc'[t] # "idle", \A r \in Patcher \ {t} : ppc'[r] = ppc[r],
         alone[t] /\ DOMAIN before[t] = Field /\ LoneState(t)
           /\ (\A r \in Patcher \ {t} : ppc[r] = "idle") => LoneState(t)'
  PROVE  LoneInv(t)'
BY DEF LoneInv

LEMMA LoneAnswered ==
  ASSUME TypeOK, NEW t \in Patcher, AnswerPatch(t)
  PROVE  LoneInv(t)'
BY AnswerEffect DEF LoneInv

LEMMA LoneTarget ==
  ASSUME TypeOK, NEW t \in Patcher, DOMAIN before[t] = Field
  PROVE  /\ \A f \in DOMAIN patch[t] : Target(t)[f] = patch[t][f]
         /\ \A f \in Field \ DOMAIN patch[t] : Target(t)[f] = before[t][f]
BY TargetIs DEF TypeOK, Target

LEMMA LoneSetMode ==
  ASSUME Core, NEW t \in Patcher, LoneInv(t), NEW f, NEW modes, NEW next,
         SetMode(t, f, modes, next),
         \/ f = "validationMode" /\ next = "stateMode"
         \/ f = "stateMode" /\ next = "proxy"
  PROVE  LoneInv(t)'
<1>1. ppc[t] = f /\ project' = project /\ unwritten' = unwritten /\ TypeOK
  BY DEF SetMode, repository, Core
<1>2. CASE AnswerPatch(t)
  BY <1>1, <1>2, LoneAnswered
<1>3. CASE /\ f \notin DOMAIN patch[t] /\ ppc' = [ppc EXCEPT ![t] = next]
           /\ UNCHANGED <<patch, cfg, alone, before>>
  <2>1. ppc'[t] = next /\ \A r \in Patcher \ {t} : ppc'[r] = ppc[r]
    BY <1>1, <1>3 DEF TypeOK
  <2>2. ASSUME DOMAIN before[t] = Field, LoneState(t) PROVE LoneState(t)'
    <3>1. Done(t)' = Done(t) \cup {f} /\ f \notin Done(t) /\ f \in Field
      BY <1>1, <2>1, DoneIs, FieldIs DEF Done, Modes
    <3>2. project[f] = Target(t)[f]
      BY <1>3, <2>2, <3>1, <1>1, LoneTarget DEF LoneState
    <3>3. Target(t)' = Target(t) /\ before' = before
      BY <1>3 DEF Target
    <3> QED
      BY <1>1, <2>1, <2>2, <3>1, <3>2, <3>3 DEF LoneState
  <2> QED
    BY <1>1, <1>3, <2>1, <2>2, LoneGoesOn
<1>4. CASE /\ f \in DOMAIN patch[t] /\ ppc' = [ppc EXCEPT ![t] = "setting"]
           /\ cfg' = [cfg EXCEPT ![t] = Normal(Only(patch[t], {f}))]
           /\ UNCHANGED <<patch, alone, before>>
  <2>1. ppc'[t] = "setting" /\ \A r \in Patcher \ {t} : ppc'[r] = ppc[r]
    BY <1>1, <1>4 DEF TypeOK
  <2>2. ASSUME DOMAIN before[t] = Field, LoneState(t) PROVE LoneState(t)'
    <3>1. cfg'[t] = Normal(Only(patch[t], {f}))
      BY <1>1, <1>4 DEF TypeOK
    <3>2. DOMAIN Only(patch[t], {f}) = {f} /\ Only(patch[t], {f})[f] = patch[t][f]
      BY <1>4 DEF Only
    <3>3. DOMAIN cfg'[t] = {f} /\ Meant(f, cfg'[t][f]) = Meant(f, patch[t][f])
      <4>1. DOMAIN cfg'[t] = {f}
        BY <3>1, <3>2, NormalIs
      <4>2. \A c : f \in DOMAIN c => Meant(f, Normal(c)[f]) = Meant(f, c[f])
        BY NormalMeant
      <4> QED
        BY <3>1, <3>2, <4>1, <4>2
    <3>4. Done(t)' = Done(t)
      <4>1. Done(t)' = Before({f})
        BY <2>1, <3>3, DoneIs DEF Done
      <4>2. f = "validationMode" => Done(t) = {}
        BY <1>1, DoneIs DEF Done
      <4>3. f = "stateMode" => Done(t) = {"validationMode"}
        BY <1>1, DoneIs DEF Done
      <4> QED
        BY <4>1, <4>2, <4>3, BeforeIs
    <3>5. Target(t)' = Target(t) /\ before' = before /\ Target(t)[f] = patch[t][f]
      BY <1>1, <1>4, <2>2, LoneTarget DEF Target
    <3> QED
      BY <1>1, <2>1, <2>2, <3>3, <3>4, <3>5 DEF LoneState
  <2> QED
    BY <1>1, <1>4, <2>1, <2>2, LoneGoesOn
<1> QED
  BY <1>2, <1>3, <1>4 DEF SetMode

LEMMA LoneGetProject ==
  ASSUME Core, NEW t \in Patcher, LoneInv(t), GetProject(t)
  PROVE  LoneInv(t)'
<1>1. ppc[t] = "proxy" /\ project' = project /\ TypeOK
  BY DEF GetProject, repository, Core
<1>2. CASE AnswerPatch(t)
  BY <1>1, <1>2, LoneAnswered
<1>3. CASE /\ ppc' = [ppc EXCEPT ![t] = "reading"]
           /\ cfg' = [cfg EXCEPT ![t] = FromBody(t)]
           /\ UNCHANGED <<patch, alone, before>>
  <2>1. ppc'[t] = "reading" /\ \A r \in Patcher \ {t} : ppc'[r] = ppc[r]
    BY <1>1, <1>3 DEF TypeOK
  <2>2. ASSUME DOMAIN before[t] = Field, LoneState(t) PROVE LoneState(t)'
    <3>1. DOMAIN cfg'[t] = DOMAIN patch[t] \cap ProxyField
          /\ \A f \in DOMAIN cfg'[t] : cfg'[t][f] = patch[t][f]
      BY <1>1, <1>3 DEF TypeOK, FromBody, Only
    <3>2. Done(t)' = Done(t)
      BY <1>1, <2>1, DoneIs DEF Done
    <3>3. Target(t)' = Target(t) /\ before' = before /\ patch' = patch
      BY <1>3 DEF Target
    <3>4. \A f \in DOMAIN cfg'[t] : cfg'[t][f] = Target(t)[f]
      BY <1>1, <2>2, <3>1, LoneTarget
    <3> QED
      BY <1>1, <2>1, <2>2, <3>1, <3>2, <3>3, <3>4 DEF LoneState
  <2> QED
    BY <1>1, <1>3, <2>1, <2>2, LoneGoesOn
<1> QED
  BY <1>2, <1>3 DEF GetProject

LEMMA LoneNoProxyField ==
  ASSUME Core, NEW t \in Patcher, LoneInv(t), NoProxyField(t)
  PROVE  LoneInv(t)'
<1>1. /\ ppc[t] = "proxy" /\ project' = project /\ TypeOK
      /\ DOMAIN patch[t] \cap ProxyField = {}
      /\ ppc'[t] = "answering" /\ \A r \in Patcher \ {t} : ppc'[r] = ppc[r]
      /\ UNCHANGED <<patch, cfg, alone, before>>
  BY DEF NoProxyField, repository, Core, TypeOK
<1>2. ASSUME DOMAIN before[t] = Field, LoneState(t) PROVE LoneState(t)'
  <2>1. Done(t) = Modes /\ Done(t)' = Field
    BY <1>1, DoneIs DEF Done
  <2>2. \A f \in ProxyField : project[f] = Target(t)[f]
    BY <1>1, <1>2, <2>1, LoneTarget, FieldIs DEF LoneState
  <2>3. Target(t)' = Target(t)
    BY <1>1 DEF Target
  <2> QED
    BY <1>1, <1>2, <2>1, <2>2, <2>3, FieldIs DEF LoneState
<1> QED
  BY <1>1, <1>2, LoneGoesOn

\* Alone, t reads no torn value, and reads what it found when it began.
LEMMA LoneReadSetting ==
  ASSUME Core, NEW t \in Patcher, LoneInv(t), ReadSetting(t)
  PROVE  LoneInv(t)'
<1>0. PICK f \in ProxyField \ DOMAIN cfg[t] : \E x \in Read(f) :
        /\ ppc[t] = "reading"
        /\ cfg' = [cfg EXCEPT ![t] = Over([g \in {f} |-> x], @)]
        /\ UNCHANGED <<repository, ppc, patch, alone, before>>
  BY DEF ReadSetting
<1>1. PICK x \in Read(f) :
        /\ ppc[t] = "reading"
        /\ cfg' = [cfg EXCEPT ![t] = Over([g \in {f} |-> x], @)]
        /\ UNCHANGED <<repository, ppc, patch, alone, before>>
  BY <1>0
<1>2. project' = project /\ unwritten' = unwritten /\ TypeOK
  BY <1>1 DEF repository, Core
<1>3. /\ DOMAIN cfg'[t] = DOMAIN cfg[t] \cup {f} /\ cfg'[t][f] = x
      /\ \A g \in DOMAIN cfg[t] : cfg'[t][g] = cfg[t][g]
  BY <1>1, <1>2 DEF TypeOK, Over
<1>4. ASSUME DOMAIN before[t] = Field, LoneState(t),
             \A r \in Patcher \ {t} : ppc[r] = "idle"
      PROVE  LoneState(t)'
  <2>1. Done(t) = Modes /\ Done(t)' = Modes
    BY <1>1, DoneIs DEF Done
  <2>2. x = project[f]
    <3>1. \A r \in Patcher : mu # r
      BY <1>1, <1>4 DEF Core, LockInv
    <3> QED
      BY <1>1, <3>1 DEF Read
  <2>3. f \notin DOMAIN patch[t] /\ f \in Field \ Done(t)
    BY <1>1, <1>4, <2>1, FieldIs DEF LoneState
  <2>4. x = Target(t)[f]
    BY <1>2, <1>4, <2>2, <2>3, LoneTarget DEF LoneState
  <2>5. Target(t)' = Target(t)
    BY <1>1 DEF Target
  <2>6. \A g \in DOMAIN cfg'[t] : cfg'[t][g] = Target(t)[g]
    BY <1>1, <1>3, <1>4, <2>4 DEF LoneState
  <2>7. DOMAIN patch[t] \cap ProxyField \subseteq DOMAIN cfg'[t]
    BY <1>1, <1>3, <1>4 DEF LoneState
  <2> QED
    BY <1>1, <1>2, <1>4, <2>1, <2>5, <2>6, <2>7 DEF LoneState
<1> QED
  BY <1>1, <1>2, <1>4, LoneGoesOn

LEMMA LoneAccept ==
  ASSUME Core, NEW t \in Patcher, LoneInv(t), Accept(t)
  PROVE  LoneInv(t)'
<1>1. /\ ppc[t] = "reading" /\ DOMAIN cfg[t] = ProxyField /\ project' = project /\ TypeOK
      /\ ppc'[t] = "setting" /\ \A r \in Patcher \ {t} : ppc'[r] = ppc[r]
      /\ cfg'[t] = Normal(cfg[t])
      /\ UNCHANGED <<patch, alone, before>>
  BY DEF Accept, repository, Core, TypeOK, ToSet
<1>2. ASSUME DOMAIN before[t] = Field, LoneState(t) PROVE LoneState(t)'
  <2>1. DOMAIN cfg'[t] = ProxyField
        /\ \A f \in ProxyField : Meant(f, cfg'[t][f]) = Meant(f, cfg[t][f])
    BY <1>1, NormalIs, NormalMeant
  <2>2. Done(t) = Modes /\ Done(t)' = Modes
    BY <1>1, <2>1, DoneIs, FieldsDiffer DEF Done, Before
  <2>3. Target(t)' = Target(t)
    BY <1>1 DEF Target
  <2> QED
    BY <1>1, <1>2, <2>1, <2>2, <2>3 DEF LoneState
<1> QED
  BY <1>1, <1>2, LoneGoesOn

LEMMA LoneLock ==
  ASSUME Core, NEW t \in Patcher, LoneInv(t), LockToSet(t)
  PROVE  LoneInv(t)'
<1>1. ppc[t] = "setting" /\ project' = project /\ TypeOK
  BY DEF LockToSet, Core
<1>2. CASE AnswerPatch(t)
  BY <1>1, <1>2, LoneAnswered
<1>3. CASE /\ unwritten' = DOMAIN cfg[t]
           /\ ppc' = [ppc EXCEPT ![t] = "writing"]
           /\ UNCHANGED <<patch, cfg, alone, before>>
  <2>1. ppc'[t] = "writing" /\ \A r \in Patcher \ {t} : ppc'[r] = ppc[r]
    BY <1>1, <1>3 DEF TypeOK
  <2>2. ASSUME LoneState(t) PROVE LoneState(t)'
    <3>1. Done(t)' = Done(t)
      <4>1. Done(t)' = Before(DOMAIN cfg[t]) \cup (DOMAIN cfg[t] \ DOMAIN cfg[t])
        BY <1>3, <2>1, DoneIs DEF Done
      <4>2. Done(t) = Before(DOMAIN cfg[t])
        BY <1>1, DoneIs DEF Done
      <4> QED
        BY <4>1, <4>2
    <3>2. Target(t)' = Target(t)
      BY <1>3 DEF Target
    <3> QED
      BY <1>1, <1>3, <2>1, <2>2, <3>1, <3>2 DEF LoneState
  <2> QED
    BY <1>1, <1>3, <2>1, <2>2, LoneGoesOn
<1> QED
  BY <1>2, <1>3 DEF LockToSet

LEMMA LoneWrite ==
  ASSUME Core, NEW t \in Patcher, LoneInv(t), Write(t)
  PROVE  LoneInv(t)'
<1>1. PICK f \in unwritten :
        /\ ppc[t] = "writing"
        /\ project' = [project EXCEPT ![f] = cfg[t][f]]
        /\ unwritten' = unwritten \ {f}
        /\ UNCHANGED patchers
  BY DEF Write
<1>2. ppc' = ppc /\ cfg' = cfg /\ patch' = patch /\ alone' = alone /\ before' = before /\ TypeOK
  BY <1>1 DEF patchers, Core
<1>3. mu = t /\ f \in DOMAIN cfg[t] /\ Settable(cfg[t])
  BY <1>1, PatcherAssumption DEF Core, LockInv, CfgInv
<1>4. \A g \in DOMAIN cfg[t] : g \in Field
  BY <1>3 DEF Settable, Field, ProxyField
<1>5. project'[f] = cfg[t][f] /\ \A g \in Field \ {f} : project'[g] = project[g]
  BY <1>1, <1>3, <1>4 DEF Core, TypeOK
<1>6. ASSUME LoneState(t) PROVE LoneState(t)'
  <2>1. Done(t) = Before(DOMAIN cfg[t]) \cup (DOMAIN cfg[t] \ unwritten)
        /\ Done(t)' = Before(DOMAIN cfg[t]) \cup (DOMAIN cfg[t] \ unwritten')
    BY <1>1, <1>2, DoneIs DEF Done
  <2>2. Before(DOMAIN cfg[t]) \subseteq Field
    BY DEF Before, Modes, Field
  <2>3. Done(t)' = Done(t) \cup {f} /\ Done(t)' \subseteq Field
    BY <1>1, <1>3, <1>4, <2>1, <2>2
  <2>4. Target(t)' = Target(t)
    BY <1>2 DEF Target
  <2>5. Meant(f, project'[f]) = Meant(f, Target(t)[f])
    BY <1>1, <1>3, <1>5, <1>6 DEF LoneState
  <2> QED
    BY <1>1, <1>2, <1>5, <1>6, <2>3, <2>4, <2>5 DEF LoneState
<1> QED
  BY <1>1, <1>2, <1>6, LoneGoesOn

LEMMA LoneSave ==
  ASSUME Core, NEW t \in Patcher, LoneInv(t), Save(t)
  PROVE  LoneInv(t)'
<1>1. ppc[t] = "writing" /\ unwritten = {} /\ project' = project /\ TypeOK
  BY DEF Save, Core
<1>2. CASE AnswerPatch(t)
  BY <1>1, <1>2, LoneAnswered
<1>3. CASE /\ ppc' = [ppc EXCEPT ![t] = After(t)]
           /\ UNCHANGED <<patch, alone, before>>
  <2>1. ppc'[t] = After(t) /\ \A r \in Patcher \ {t} : ppc'[r] = ppc[r]
    BY <1>1, <1>3 DEF TypeOK
  <2>2. Settable(cfg[t])
    BY <1>1 DEF Core, CfgInv
  <2>3. ppc'[t] \in {"stateMode", "proxy", "answering"}
    BY <2>1 DEF After
  <2>4. Done(t)' = Done(t)
    <3>1. Done(t) = Before(DOMAIN cfg[t]) \cup DOMAIN cfg[t]
      <4>1. Done(t) = Before(DOMAIN cfg[t]) \cup (DOMAIN cfg[t] \ {})
        BY <1>1, DoneIs DEF Done
      <4> QED
        BY <4>1
    <3>2. CASE DOMAIN cfg[t] = {"validationMode"}
      <4>1. ppc'[t] = "stateMode"
        BY <2>1, <3>2 DEF After
      <4>2. Done(t)' = {"validationMode"}
        BY <4>1, DoneIs DEF Done
      <4> QED
        BY <3>1, <3>2, <4>2, BeforeIs
    <3>3. CASE DOMAIN cfg[t] = {"stateMode"}
      <4>1. ppc'[t] = "proxy"
        BY <2>1, <3>3, FieldsDiffer DEF After
      <4>2. Done(t)' = Modes
        BY <4>1, DoneIs DEF Done
      <4> QED
        BY <3>1, <3>3, <4>2, BeforeIs DEF Modes
    <3>4. CASE DOMAIN cfg[t] = ProxyField
      <4>1. ppc'[t] = "answering"
        BY <2>1, <3>4, FieldsDiffer DEF After
      <4>2. Done(t)' = Field
        BY <4>1, DoneIs DEF Done
      <4> QED
        BY <3>1, <3>4, <4>2, BeforeIs, FieldIs
    <3> QED
      BY <2>2, <3>2, <3>3, <3>4 DEF Settable
  <2>5. Target(t)' = Target(t)
    BY <1>3 DEF Target
  <2>6. LoneState(t) => LoneState(t)'
    BY <1>1, <1>3, <2>3, <2>4, <2>5 DEF LoneState
  <2> QED
    BY <1>1, <1>3, <2>1, <2>3, <2>6, LoneGoesOn
<1> QED
  BY <1>2, <1>3 DEF Save

LEMMA LoneUpdate ==
  ASSUME Core, AllLone, NEW t \in Patcher, UpdateProject(t)
  PROVE  AllLone'
<1>1. ASSUME NEW r \in Patcher \ {t} PROVE LoneInv(r)'
  <2>1. ~alone'[r]
    BY <1>1, NobodyElseAlone DEF AllLone, Core
  <2> QED
    BY <2>1 DEF LoneInv
<1>2. LoneInv(t)'
  <2>1. LoneInv(t) /\ TypeOK
    BY DEF AllLone, Core
  <2>2. CASE SetValidationMode(t)
    BY <2>1, <2>2, LoneSetMode DEF SetValidationMode
  <2>3. CASE SetStateMode(t)
    BY <2>1, <2>3, LoneSetMode DEF SetStateMode
  <2>4. CASE Reject(t) \/ Answer(t)
    BY <2>1, <2>4, LoneAnswered DEF Reject, Answer
  <2> QED
    BY <2>1, <2>2, <2>3, <2>4, LoneReceive, LoneGetProject, LoneNoProxyField,
       LoneReadSetting, LoneAccept, LoneLock, LoneWrite, LoneSave DEF UpdateProject
<1> QED
  BY <1>1, <1>2 DEF AllLone

LEMMA LoneElsewhere ==
  ASSUME AllLone, UNCHANGED <<project, unwritten, patchers>>
  PROVE  AllLone'
<1> SUFFICES ASSUME NEW t \in Patcher, LoneInv(t) PROVE LoneInv(t)'
  BY DEF AllLone
<1>1. Done(t)' = Done(t) /\ Target(t)' = Target(t)
  BY DEF Done, Target, patchers
<1>2. LoneState(t)' <=> LoneState(t)
  BY <1>1 DEF LoneState, patchers
<1> QED
  BY <1>2 DEF LoneInv, patchers

LEMMA LoneInvariant == Spec => []AllLone
<1>1. Init => AllLone
  BY DEF Init, AllLone, LoneInv
<1>2. Core /\ AllLone /\ [Next]_vars => AllLone'
  <2> SUFFICES ASSUME Core, AllLone, [Next]_vars PROVE AllLone'
    OBVIOUS
  <2>1. ASSUME NEW t \in Patcher, UpdateProject(t) PROVE AllLone'
    BY <2>1, LoneUpdate
  <2>2. ASSUME NEW s \in Server, ServeRequest(s) PROVE AllLone'
    BY <2>2, ServeEffect, LoneElsewhere DEF Core, repository
  <2>3. CASE Delete \/ Restart
    BY <2>3 DEF Delete, Restart, AllLone, LoneInv
  <2>4. CASE UNCHANGED vars
    BY <2>4, LoneElsewhere DEF vars, repository
  <2> QED
    BY <2>1, <2>2, <2>3, <2>4 DEF Next
<1> QED
  BY <1>1, <1>2, CoreInvariant, PTL DEF Spec

\* A patch that succeeds and that nothing overlapped leaves the project with
\* what its body has and everything else as it found it, although it is set in
\* up to three steps and the settings it does not have are read and set again.
THEOREM LonePatchesAreExact == Spec => []LonePatchExact
<1>1. Core /\ AllLone => LonePatchExact
  <2> SUFFICES ASSUME Core, AllLone, NEW t \in Patcher, alone[t], ppc[t] = "answering"
               PROVE  Normal(project) = Normal(Target(t))
    BY DEF LonePatchExact, Target
  <2>1. DOMAIN before[t] = Field /\ LoneState(t) /\ TypeOK
    BY DEF AllLone, LoneInv, Core
  <2>2. DOMAIN project = Field /\ DOMAIN Target(t) = Field
    BY <2>1, TargetIs DEF TypeOK, Target
  <2>3. \A f \in Field : Meant(f, project[f]) = Meant(f, Target(t)[f])
    BY <2>1, DoneIs DEF LoneState, Done
  <2> QED
    BY <2>2, <2>3 DEF Normal, Meant
<1> QED
  BY <1>1, CoreInvariant, LoneInvariant, PTL
=============================================================================
