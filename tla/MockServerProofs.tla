--------------------------- MODULE MockServerProofs ---------------------------
(***************************************************************************)
(* Theorems about MockServer, for every number of handlers and projects,   *)
(* every set of rules, contracts, requests and messages, every width of    *)
(* the roll of faults, and whatever the rendering of a decoded value does. *)
(***************************************************************************)
EXTENDS MockServer, SublistProofs, FiniteSetTheorems

-----------------------------------------------------------------------------
(***************************************************************************)
(* One roll is cut into the slices of the faults.                          *)
(***************************************************************************)

\* The rolls from a on, n of them.
LEMMA SliceSize ==
  ASSUME NEW a \in Nat, NEW n \in Nat, a + n <= PercentBase
  PROVE  Cardinality({roll \in 0..(PercentBase - 1) : a <= roll /\ roll < a + n}) = n
<1> DEFINE slice == {roll \in 0..(PercentBase - 1) : a <= roll /\ roll < a + n}
<1>1. PercentBase \in Nat
  BY BaseAssumption
<1>2. slice = a..(a + n - 1)
  BY <1>1
<1>3. a \in Int /\ a + n - 1 \in Int
  OBVIOUS
<1>4. Cardinality(a..(a + n - 1)) = IF a > a + n - 1 THEN 0 ELSE (a + n - 1) - a + 1
  BY <1>3, FS_Interval, ZenonT(20)
<1>5. (IF a > a + n - 1 THEN 0 ELSE (a + n - 1) - a + 1) = n
  OBVIOUS
<1> QED
  BY <1>2, <1>4, <1>5

LEMMA RatesAre ==
  ASSUME NEW s, RatesInRange(s)
  PROVE  /\ FaultOf(s).drop \in Nat /\ FaultOf(s).timeout \in Nat
         /\ s.error \in Nat /\ FaultOf(s).malformed \in Nat
         /\ FaultOf(s).drop + FaultOf(s).timeout + s.error + FaultOf(s).malformed <= PercentBase
<1>1. /\ Rates(s)[1] = s.error /\ Rates(s)[2] = FaultOf(s).timeout
      /\ Rates(s)[3] = FaultOf(s).drop /\ Rates(s)[4] = FaultOf(s).malformed
  BY DEF Rates
<1>2. PercentBase \in Nat /\ 1 \in 1..4 /\ 2 \in 1..4 /\ 3 \in 1..4 /\ 4 \in 1..4
  BY BaseAssumption
<1> QED
  BY <1>1, <1>2 DEF RatesInRange

\* Which rolls bring which fault.
LEMMA RollIs ==
  ASSUME NEW s, RatesInRange(s), NEW roll \in 0..(PercentBase - 1)
  PROVE  LET f == FaultOf(s)
             d == f.drop
             t == d + f.timeout
             e == t + s.error
         IN /\ RollFault(s, roll) = "drop" <=> 0 <= roll /\ roll < 0 + d
            /\ RollFault(s, roll) = "timeout" <=> d <= roll /\ roll < d + f.timeout
            /\ RollFault(s, roll) = "error" <=> t <= roll /\ roll < t + s.error
            /\ RollFault(s, roll) = MalformedFault(f.mode) <=> e <= roll /\ roll < e + f.malformed
<1> DEFINE f == FaultOf(s)
           d == f.drop
           t == d + f.timeout
           e == t + s.error
<1>1. d \in Nat /\ f.timeout \in Nat /\ s.error \in Nat /\ f.malformed \in Nat
  BY RatesAre
<1>2. roll \in Int /\ roll >= 0
  BY BaseAssumption
<1>3. MalformedFault(f.mode) \in {"truncated", "empty", "garbage"}
  BY DEF MalformedFault
<1>4. /\ roll < d => RollFault(s, roll) = "drop"
      /\ d <= roll /\ roll < t => RollFault(s, roll) = "timeout"
      /\ t <= roll /\ roll < e => RollFault(s, roll) = "error"
      /\ e <= roll /\ roll < e + f.malformed => RollFault(s, roll) = MalformedFault(f.mode)
      /\ e + f.malformed <= roll => RollFault(s, roll) = "none"
  BY <1>1, <1>2 DEF RollFault
<1> HIDE DEF f
<1>5. t \in Nat /\ e \in Nat /\ d <= t /\ t <= e
  BY <1>1
<1> QED
  BY <1>1, <1>2, <1>3, <1>4, <1>5 DEF f

LEMMA SlicesAreExact ==
  ASSUME NEW s, RatesInRange(s)
  PROVE  SlicesExact(s)
<1> DEFINE f == FaultOf(s)
           d == f.drop
           t == d + f.timeout
           e == t + s.error
           hits(fault) == Cardinality({roll \in 0..(PercentBase - 1) : RollFault(s, roll) = fault})
<1>1. /\ d \in Nat /\ f.timeout \in Nat /\ s.error \in Nat /\ f.malformed \in Nat
      /\ d + f.timeout + s.error + f.malformed <= PercentBase
  BY RatesAre
<1>2. /\ t \in Nat /\ e \in Nat /\ 0 + d <= PercentBase /\ d + f.timeout <= PercentBase
      /\ t + s.error <= PercentBase /\ e + f.malformed <= PercentBase
  BY <1>1, BaseAssumption
<1>3. hits("drop") = d
  <2>1. {roll \in 0..(PercentBase - 1) : RollFault(s, roll) = "drop"}
          = {roll \in 0..(PercentBase - 1) : 0 <= roll /\ roll < 0 + d}
    BY RollIs
  <2> HIDE DEF f, d, t, e
  <2> QED
    BY <1>1, <1>2, <2>1, SliceSize
<1>4. hits("timeout") = f.timeout
  <2>1. {roll \in 0..(PercentBase - 1) : RollFault(s, roll) = "timeout"}
          = {roll \in 0..(PercentBase - 1) : d <= roll /\ roll < d + f.timeout}
    BY RollIs
  <2> HIDE DEF f, d, t, e
  <2> QED
    BY <1>1, <1>2, <2>1, SliceSize
<1>5. hits("error") = s.error
  <2>1. {roll \in 0..(PercentBase - 1) : RollFault(s, roll) = "error"}
          = {roll \in 0..(PercentBase - 1) : t <= roll /\ roll < t + s.error}
    BY RollIs
  <2> HIDE DEF f, d, t, e
  <2> QED
    BY <1>1, <1>2, <2>1, SliceSize
<1>6. hits(MalformedFault(f.mode)) = f.malformed
  <2>1. {roll \in 0..(PercentBase - 1) : RollFault(s, roll) = MalformedFault(f.mode)}
          = {roll \in 0..(PercentBase - 1) : e <= roll /\ roll < e + f.malformed}
    BY RollIs
  <2> HIDE DEF f, d, t, e
  <2> QED
    BY <1>1, <1>2, <2>1, SliceSize
<1> QED
  BY <1>3, <1>4, <1>5, <1>6 DEF SlicesExact

\* What is stored was validated, whichever way it came there.
ValidStore ==
  /\ DOMAIN active = Project
  /\ \A r \in rules : ValidateFault(r.settings)
  /\ \A p \in Project : active[p] # None => Publishable(active[p])

\* A rule is stored with the settings it was validated with.
LEMMA SavedSettings ==
  ASSUME NEW body \in RuleBodies, NEW id, NEW p, NEW created
  PROVE  [WithScenario(body) EXCEPT !.id = id, !.project = p, !.created = created].settings
           = body.settings
<1>1. "settings" \in DOMAIN body
  BY RuleBodiesAssumption
<1>2. DOMAIN WithScenario(body) = DOMAIN body /\ WithScenario(body).settings = body.settings
  BY <1>1 DEF WithScenario
<1> QED
  BY <1>1, <1>2

LEMMA AdministerKeepsStore == ValidStore /\ Administer => ValidStore'
<1> SUFFICES ASSUME ValidStore, Administer PROVE ValidStore'
  OBVIOUS
<1>1. ASSUME NEW p, NEW c, Publish(p, c) PROVE ValidStore'
  <2>1. active' = [active EXCEPT ![p] = c] /\ Publishable(c) /\ rules' = rules
    BY <1>1 DEF Publish
  <2> QED
    BY <2>1 DEF ValidStore
<1>2. ASSUME NEW p \in Project, NEW body \in RuleBodies, CreateMock(p, body) PROVE ValidStore'
  <2> DEFINE new == [WithScenario(body) EXCEPT !.id = nextId, !.project = p, !.created = nextId]
  <2>1. rules' = rules \cup {new} /\ ValidateRule(body) /\ active' = active
    BY <1>2 DEF CreateMock
  <2>2. new.settings = body.settings
    BY SavedSettings
  <2>3. ValidateFault(new.settings)
    BY <2>1, <2>2 DEF ValidateRule
  <2> HIDE DEF new
  <2> QED
    BY <2>1, <2>3 DEF ValidStore
<1>3. ASSUME NEW r \in rules, NEW body \in RuleBodies, NEW p, NEW created,
             UpdateMock(r, body, p, created)
      PROVE  ValidStore'
  <2> DEFINE new == [WithScenario(body) EXCEPT !.id = r.id, !.project = p, !.created = created]
  <2>1. rules' = (rules \ {r}) \cup {new} /\ ValidateRule(body) /\ active' = active
    BY <1>3 DEF UpdateMock
  <2>2. new.settings = body.settings
    BY SavedSettings
  <2>3. ValidateFault(new.settings)
    BY <2>1, <2>2 DEF ValidateRule
  <2> HIDE DEF new
  <2> QED
    BY <2>1, <2>3 DEF ValidStore
<1>4. ASSUME NEW r \in rules, DeleteMock(r) PROVE ValidStore'
  BY <1>4 DEF DeleteMock, ValidStore
<1> QED
  BY <1>1, <1>2, <1>3, <1>4 DEF Administer

\* The steps of a request, those of its arrival and those that serve it, leave the
\* store and the modes alone.
LEMMA RequestsKeepStore ==
  ASSUME NEW t \in Thread, Receive(t) \/ Serve(t) \/ GiveUp(t)
  PROVE  UNCHANGED <<store, mode>>
<1>1. CASE Receive(t)
  <2>1. \A p, req : NotDescribed(t, p, req) \/ RejectInvalidRequest(t, p, req)
                      => UNCHANGED <<store, mode>>
    <3>1. \A p, req : NotDescribed(t, p, req) => UNCHANGED <<store, mode>>
      BY DEF NotDescribed
    <3>2. \A p, req : RejectInvalidRequest(t, p, req) => UNCHANGED <<store, mode>>
      BY DEF RejectInvalidRequest
    <3> QED
      BY <3>1, <3>2
  <2>2. \A p, req, tmpl : RespondWithExample(t, p, req, tmpl) => UNCHANGED <<store, mode>>
    BY DEF RespondWithExample
  <2>3. \A p, req, tmpl : RespondFromRule(t, p, req, tmpl) => UNCHANGED <<store, mode>>
    BY DEF RespondFromRule
  <2>4. \A p : RefuseProject(t, p) => UNCHANGED <<store, mode>>
    BY DEF RefuseProject
  <2>5. \A p, sent, draws : Handle(t, p, sent, draws) => UNCHANGED <<store, mode>>
    BY DEF Handle
  <2> QED
    BY <1>1, <2>1, <2>2, <2>3, <2>4, <2>5 DEF Receive
<1>2. CASE Serve(t)
  BY <1>2 DEF Serve, RenderNext, FinishRendered, Slept, Interrupted, Held, Write, Return
<1>3. CASE GiveUp(t)
  BY <1>3 DEF GiveUp
<1> QED
  BY <1>1, <1>2, <1>3

LEMMA StoreIsValid == Spec => []ValidStore
<1>1. Init => ValidStore
  BY StoredAssumption DEF Init, ValidStore, ValidateRule
<1>2. ValidStore /\ [Next]_vars => ValidStore'
  <2> SUFFICES ASSUME ValidStore, [Next]_vars PROVE ValidStore'
    OBVIOUS
  <2>1. CASE Administer
    BY <2>1, AdministerKeepsStore
  <2>2. ASSUME NEW t \in Thread, Receive(t) \/ Serve(t) \/ GiveUp(t) PROVE ValidStore'
    <3>1. UNCHANGED <<rules, active>>
      BY <2>2, RequestsKeepStore DEF store
    <3> QED
      BY <3>1 DEF ValidStore
  <2>3. CASE UNCHANGED vars
    <3>1. UNCHANGED <<rules, active>>
      BY <2>3 DEF vars, store
    <3> QED
      BY <3>1 DEF ValidStore
  <2> QED
    BY <2>1, <2>2, <2>3 DEF Next
<1> QED
  BY <1>1, <1>2, PTL DEF Spec

\* A fault hits as many of the rolls as its rate says: of every rule that was
\* saved, whatever saves and updates there were, and of every tool and entry of a
\* published manifest, whichever of its two names the error rate goes by.
THEOREM SlicesOfSavedFaults == Spec => []FaultSlicesExact
<1>1. ValidStore => FaultSlicesExact
  <2> SUFFICES ASSUME ValidStore PROVE FaultSlicesExact
    OBVIOUS
  <2>1. ASSUME NEW r \in rules PROVE SlicesExact(r.settings)
    BY SlicesAreExact DEF ValidStore, ValidateFault
  <2>2. ASSUME NEW p \in Project, active[p] # None, ContractOf[active[p]].format = "mcp",
               NEW tool \in Range(ContractOf[active[p]].manifest.tools),
               NEW f \in {tool.fault} \cup {e.fault : e \in Range(tool.entries)}, f # NoFault
        PROVE  SlicesExact(Settings(f))
    <3> DEFINE tools == ContractOf[active[p]].manifest.tools
    <3>1. ValidateTools(tools)
      BY <2>2 DEF ValidStore, Publishable, ValidateManifest, ParsesManifest
    <3>2. PICK i \in DOMAIN tools : tool = tools[i]
      BY DEF Range
    <3>3. CheckFaults(tool)
      BY <3>1, <3>2 DEF ValidateTools
    <3>4. f = tool.fault \/ \E j \in DOMAIN tool.entries : f = tool.entries[j].fault
      BY DEF Range
    <3>5. ParseFault(f)
      BY <2>2, <3>3, <3>4 DEF CheckFaults
    <3> QED
      BY <3>5, SlicesAreExact DEF ParseFault, ValidateFault
  <2> QED
    BY <2>1, <2>2 DEF FaultSlicesExact
<1> QED
  BY <1>1, StoreIsValid, PTL

-----------------------------------------------------------------------------
(***************************************************************************)
(* From the answer that is made to the connection that ends.               *)
(***************************************************************************)

Dropping == {"drop", "timeout"}

\* What the client of a call that has ended got, by what was logged.
Delivered(c) ==
  \/ c.wire = "nothing" /\ c.gone
  \/ c.wire = "reset" /\ c.resp.fault \in Dropping /\ c.logged = 0
  \/ c.wire = "half" /\ c.resp.fault = "truncated" /\ c.status = c.logged
  \/ c.wire = "whole" /\ c.resp.fault \notin Dropping \cup {"truncated"} /\ c.status = c.logged
  \/ c.wire = "whole" /\ c.kind = "mcp" /\ c.resp.body = "none" /\ c.status = 202

\* A call on its way there: the status that is logged is the response's, and it
\* is 0 exactly where the connection is to be dropped.
GoodCall(c) ==
  /\ c.at = "rendering" =>
       /\ DOMAIN c = {"at", "project", "ctx", "parts", "scan", "resp"}
       /\ "project" \in DOMAIN c.ctx /\ c.ctx.project = c.project
       /\ c.resp.fault \notin Dropping
  /\ c.at \in {"latency", "holding", "writing"} =>
       /\ {"at", "kind", "resp", "logged", "gone"} \subseteq DOMAIN c
       /\ c.logged = c.resp.status
       /\ c.resp.fault \in Dropping => c.logged = 0
  /\ c.at = "holding" => c.resp.fault = "timeout"
  /\ c.at = "writing" => c.resp.fault \notin Dropping
  /\ c.at = "closed" => Delivered(c)

Calls == DOMAIN call = Thread /\ \A t \in Thread : GoodCall(call[t])

LEMMA GoTo ==
  ASSUME Calls, NEW t \in Thread, NEW c, GoodCall(c), To(t, c)
  PROVE  Calls'
BY DEF Calls, To

\* An answer that drops the connection has no status.
Honest(resp) == resp.fault \in Dropping => resp.status = 0

LEMMA FinishGoes ==
  ASSUME Calls, NEW t \in Thread, NEW kind, NEW resp, Honest(resp), Finish(t, kind, resp)
  PROVE  Calls'
<1> DEFINE c == [at |-> "latency", kind |-> kind, resp |-> resp, logged |-> resp.status,
                 gone |-> FALSE]
<1>1. GoodCall(c)
  BY DEF GoodCall, Honest
<1>2. To(t, c)
  BY DEF Finish
<1> HIDE DEF c
<1> QED
  BY <1>1, <1>2, GoTo

LEMMA PlainIsHonest ==
  ASSUME NEW status, NEW source
  PROVE  /\ Honest([Response(status, source) EXCEPT !.body = "error"])
         /\ \A violated : Honest(WithWarnings(Response(status, source), violated))
BY DEF Honest, Response, WithWarnings, Dropping

LEMMA FaultIsHonest ==
  ASSUME NEW r, NEW fault, NEW delay, NEW status, NEW violated
  PROVE  Honest(WithWarnings(FaultResponse(r, fault, delay, status), violated))
BY DEF Honest, Response, WithWarnings, FaultResponse, Dropping

LEMMA RuleDropsNothing ==
  ASSUME NEW r, NEW fault, fault \notin Replacing, NEW delay, NEW violated
  PROVE  WithWarnings(RuleResponse(r, fault, delay), violated).fault \notin Dropping
<1> DEFINE whole == [Response(IF r.status = 0 THEN 200 ELSE r.status, "rule")
                       EXCEPT !.delay = delay, !.rule = r.id]
<1>1. whole.fault = "none" /\ "fault" \in DOMAIN whole /\ "warned" \in DOMAIN whole
  BY DEF Response
<1> HIDE DEF whole
<1>2. BreakBody(whole, fault).fault = fault /\ "fault" \in DOMAIN BreakBody(whole, fault)
  BY <1>1 DEF BreakBody
<1>3. RuleResponse(r, fault, delay) = BreakBody(whole, fault)
  BY DEF RuleResponse, whole
<1> QED
  BY <1>2, <1>3 DEF WithWarnings, Replacing, Dropping

LEMMA ReceiveGoes == ASSUME Calls, NEW t \in Thread, Receive(t) PROVE Calls'
<1>1. ASSUME NEW p, NEW req, NotDescribed(t, p, req) PROVE Calls'
  <2> DEFINE resp == [Response(404, "") EXCEPT !.body = "error"]
  <2>1. Finish(t, "rest", resp)
    BY <1>1 DEF NotDescribed
  <2>2. Honest(resp)
    BY DEF Honest, Response, Dropping
  <2> HIDE DEF resp
  <2> QED
    BY <2>1, <2>2, FinishGoes
<1>2. ASSUME NEW p, NEW req, RejectInvalidRequest(t, p, req) PROVE Calls'
  <2> DEFINE resp == [Response(400, "request-validation") EXCEPT !.body = "error"]
  <2>1. Finish(t, "rest", resp)
    BY <1>2 DEF RejectInvalidRequest
  <2>2. Honest(resp)
    BY DEF Honest, Response, Dropping
  <2> HIDE DEF resp
  <2> QED
    BY <2>1, <2>2, FinishGoes
<1>3. ASSUME NEW p, NEW req, NEW tmpl, RespondWithExample(t, p, req, tmpl) PROVE Calls'
  <2> DEFINE resp == WithWarnings(Response(200, "schema-example"), Violations(p, req))
  <2>1. Finish(t, "rest", resp)
    BY <1>3 DEF RespondWithExample
  <2>2. Honest(resp)
    BY DEF Honest, Response, WithWarnings, Dropping
  <2> HIDE DEF resp
  <2> QED
    BY <2>1, <2>2, FinishGoes
<1>4. ASSUME NEW p, NEW req, NEW tmpl, RespondFromRule(t, p, req, tmpl) PROVE Calls'
  <2> DEFINE ctx == Context(p, tmpl, req)
             warned(resp) == WithWarnings(resp, Violations(p, req))
             going(r, fault, delay) ==
               [at |-> "rendering", project |-> p, ctx |-> ctx, parts |-> Parts(r),
                scan |-> Scanning, resp |-> warned(RuleResponse(r, fault, delay))]
  <2>1. PICK r, delay, roll :
          LET fault == RollFault(r.settings, roll)
          IN IF fault \in Replacing
             THEN \E status : Finish(t, "rest", warned(FaultResponse(r, fault, delay, status)))
             ELSE To(t, going(r, fault, delay))
    BY <1>4 DEF RespondFromRule
  <2> DEFINE fault == RollFault(r.settings, roll)
  <2> HIDE DEF fault
  <2>2. ASSUME NEW status, Finish(t, "rest", warned(FaultResponse(r, fault, delay, status)))
        PROVE  Calls'
    BY <2>2, FinishGoes, FaultIsHonest
  <2>3. ASSUME fault \notin Replacing, To(t, going(r, fault, delay)) PROVE Calls'
    <3>1. ctx.project = p /\ "project" \in DOMAIN ctx
      BY DEF Context
    <3>2. warned(RuleResponse(r, fault, delay)).fault \notin Dropping
      BY <2>3, RuleDropsNothing
    <3> HIDE DEF ctx, warned
    <3>3. GoodCall(going(r, fault, delay))
      BY <3>1, <3>2 DEF GoodCall
    <3> HIDE DEF going
    <3> QED
      BY <2>3, <3>3, GoTo
  <2> QED
    BY <2>1, <2>2, <2>3 DEF fault
<1>5. ASSUME NEW p, RefuseProject(t, p) PROVE Calls'
  BY <1>5, FinishGoes, PlainIsHonest DEF RefuseProject
<1>6. ASSUME NEW p, NEW sent, NEW draws, Handle(t, p, sent, draws) PROVE Calls'
  <2> DEFINE resp(run) == [Response(Apply(run).status, "") EXCEPT
                             !.fault = Apply(run).fault, !.delay = Apply(run).delay,
                             !.hold = Apply(run).hold, !.body = Apply(run).body,
                             !.warned = run.violations > 0]
             going(run) == [at |-> "latency", kind |-> "mcp", resp |-> resp(run),
                            payload |-> sent.payload, answers |-> run.answers,
                            logged |-> Apply(run).status, matched |-> Matched(sent.payload, run),
                            gone |-> FALSE]
  <2>1. PICK run : To(t, going(run))
    BY <1>6 DEF Handle
  <2>2. resp(run).status = Apply(run).status /\ resp(run).fault = Apply(run).fault
    BY DEF Response
  <2>3. Apply(run).fault \in Dropping => Apply(run).status = 0
    BY DEF Apply, Dropping
  <2> HIDE DEF resp
  <2>4. GoodCall(going(run))
    BY <2>2, <2>3 DEF GoodCall
  <2> HIDE DEF going
  <2> QED
    BY <2>1, <2>4, GoTo
<1> QED
  BY <1>1, <1>2, <1>3, <1>4, <1>5, <1>6 DEF Receive

\* The end of a call, or its next step, by what the step is.
LEMMA AfterGoes ==
  ASSUME Calls, NEW t \in Thread, call[t].at = "latency", NEW at \in {"holding", "writing"},
         at = "holding" => call[t].resp.fault = "timeout",
         at = "writing" => call[t].resp.fault \notin Dropping,
         After(t, at)
  PROVE  Calls'
<1> DEFINE c == [call[t] EXCEPT !.at = at]
<1>1. {"at", "kind", "resp", "logged", "gone"} \subseteq DOMAIN call[t] /\ GoodCall(call[t])
  BY DEF Calls, GoodCall
<1>2. c.at = at /\ c.resp = call[t].resp /\ c.logged = call[t].logged
      /\ DOMAIN c = DOMAIN call[t]
  BY <1>1
<1>3. To(t, c)
  BY DEF After
<1> HIDE DEF c
<1>4. GoodCall(c)
  BY <1>1, <1>2 DEF GoodCall
<1> QED
  BY <1>3, <1>4, GoTo

LEMMA ClosedGoes ==
  ASSUME Calls, NEW t \in Thread, NEW wire, NEW status, Closed(t, wire, status),
         Delivered([at |-> "closed", kind |-> call[t].kind, wire |-> wire, status |-> status,
                    resp |-> call[t].resp, logged |-> call[t].logged, gone |-> call[t].gone])
  PROVE  Calls'
<1> DEFINE c == [at |-> "closed", kind |-> call[t].kind, wire |-> wire, status |-> status,
                 resp |-> call[t].resp, logged |-> call[t].logged, gone |-> call[t].gone]
<1>1. c.at = "closed" /\ Delivered(c) /\ To(t, c)
  BY DEF Closed
<1> HIDE DEF c
<1> QED
  BY <1>1, GoTo DEF GoodCall

\* A step of the rendering changes what is left to render and the scan.
LEMMA RenderMoves ==
  ASSUME NEW t, RenderNext(t)
  PROVE  /\ call[t].at = "rendering"
         /\ \E parts, scan : To(t, [call[t] EXCEPT !.parts = parts, !.scan = scan])
<1> DEFINE part == Head(call[t].parts)
           elem == Head(part.src)
           ctx == [call[t].ctx EXCEPT !.json = part.json]
<1>1. CASE part.src = <<>>
  BY <1>1 DEF RenderNext
<1>2. CASE part.src # <<>>
  <2>1. To(t, [call[t] EXCEPT !.parts[1].src = Tail(part.src),
                              !.scan = RenderElement(call[t].scan, elem, ctx, counters.rest)])
    BY <1>2 DEF RenderNext
  <2>2. To(t, [call[t] EXCEPT !.parts = [@ EXCEPT ![1].src = Tail(part.src)],
                              !.scan = RenderElement(call[t].scan, elem, ctx, counters.rest)])
    BY <2>1
  <2>3. call[t].at = "rendering"
    BY DEF RenderNext
  <2> QED
    BY <2>2, <2>3
<1> QED
  BY <1>1, <1>2

LEMMA ServeGoes == ASSUME Calls, NEW t \in Thread, Serve(t) PROVE Calls'
<1>1. GoodCall(call[t])
  BY DEF Calls
<1>2. CASE RenderNext(t)
  <2>1. PICK c : /\ call[t].at = "rendering" /\ To(t, c)
                 /\ DOMAIN c = DOMAIN call[t]
                 /\ \A f \in DOMAIN call[t] \ {"parts", "scan"} : c[f] = call[t][f]
    <3>1. PICK parts, scan : /\ call[t].at = "rendering"
                             /\ To(t, [call[t] EXCEPT !.parts = parts, !.scan = scan])
      BY <1>2, RenderMoves
    <3> QED
      BY <3>1
  <2>2. DOMAIN call[t] = {"at", "project", "ctx", "parts", "scan", "resp"}
    BY <1>1, <2>1 DEF GoodCall
  <2>3. c.at = "rendering" /\ c.ctx = call[t].ctx /\ c.project = call[t].project
        /\ c.resp = call[t].resp
    BY <2>1, <2>2
  <2>4. GoodCall(c)
    BY <1>1, <2>1, <2>2, <2>3 DEF GoodCall
  <2> QED
    BY <2>1, <2>4, GoTo
<1>3. CASE FinishRendered(t)
  <2>1. Honest(call[t].resp)
    BY <1>1, <1>3 DEF FinishRendered, GoodCall, Honest
  <2> QED
    BY <1>3, <2>1, FinishGoes DEF FinishRendered
<1>4. CASE Slept(t)
  <2>1. call[t].at = "latency"
    BY <1>4 DEF Slept
  <2>2. CASE call[t].resp.fault = "drop"
    <3>1. Closed(t, "reset", 0)
      BY <1>4, <2>2 DEF Slept
    <3>2. call[t].logged = 0
      BY <1>1, <2>1, <2>2 DEF GoodCall, Dropping
    <3> QED
      BY <2>2, <3>1, <3>2, ClosedGoes DEF Delivered, Dropping
  <2>3. CASE call[t].resp.fault = "timeout"
    BY <1>4, <2>1, <2>3, AfterGoes DEF Slept
  <2>4. CASE call[t].resp.fault \notin Dropping
    BY <1>4, <2>1, <2>4, AfterGoes DEF Slept, Dropping
  <2> QED
    BY <2>2, <2>3, <2>4 DEF Dropping
<1>5. CASE Interrupted(t)
  <2>1. Closed(t, "nothing", 0) /\ call[t].gone
    BY <1>5 DEF Interrupted, SleepContext
  <2> QED
    BY <2>1, ClosedGoes DEF Delivered
<1>6. CASE Held(t)
  <2>1. Closed(t, "reset", 0) /\ call[t].resp.fault \in Dropping /\ call[t].logged = 0
    BY <1>1, <1>6 DEF Held, HoldEnds, GoodCall, Dropping
  <2> QED
    BY <2>1, ClosedGoes DEF Delivered
<1>7. CASE Write(t)
  <2>1. call[t].resp.fault \notin Dropping /\ call[t].logged = call[t].resp.status
    BY <1>1, <1>7 DEF Write, GoodCall
  <2>2. CASE call[t].kind = "mcp" /\ call[t].resp.body = "none"
    <3>1. Closed(t, "whole", 202)
      BY <1>7, <2>2 DEF Write
    <3> QED
      BY <2>2, <3>1, ClosedGoes DEF Delivered
  <2>3. CASE ~(call[t].kind = "mcp" /\ call[t].resp.body = "none")
             /\ call[t].resp.fault = "truncated"
    <3>1. Closed(t, "half", call[t].resp.status)
      BY <1>7, <2>3 DEF Write, WriteTruncated
    <3> QED
      BY <2>1, <2>3, <3>1, ClosedGoes DEF Delivered
  <2>4. CASE ~(call[t].kind = "mcp" /\ call[t].resp.body = "none")
             /\ call[t].resp.fault # "truncated"
    <3>1. Closed(t, "whole", call[t].resp.status)
      BY <1>7, <2>4 DEF Write
    <3> QED
      BY <2>1, <2>4, <3>1, ClosedGoes DEF Delivered
  <2> QED
    BY <2>2, <2>3, <2>4
<1>8. CASE Return(t)
  BY <1>8, GoTo DEF Return, Idle, GoodCall
<1> QED
  BY <1>2, <1>3, <1>4, <1>5, <1>6, <1>7, <1>8 DEF Serve

LEMMA GiveUpGoes == ASSUME Calls, NEW t \in Thread, GiveUp(t) PROVE Calls'
<1> DEFINE c == [call[t] EXCEPT !.gone = TRUE]
<1>1. call[t].at \in {"latency", "holding", "writing"} /\ To(t, c) /\ GoodCall(call[t])
  BY DEF GiveUp, Calls
<1>2. {"at", "kind", "resp", "logged", "gone"} \subseteq DOMAIN call[t]
  BY <1>1 DEF GoodCall
<1>3. c.at = call[t].at /\ c.resp = call[t].resp /\ c.logged = call[t].logged
      /\ DOMAIN c = DOMAIN call[t]
  BY <1>2
<1> HIDE DEF c
<1>4. GoodCall(c)
  BY <1>1, <1>2, <1>3 DEF GoodCall
<1> QED
  BY <1>1, <1>4, GoTo

LEMMA CallsAreGood == Spec => []Calls
<1>1. Init => Calls
  BY DEF Init, Calls, GoodCall, Idle
<1>2. Calls /\ [Next]_vars => Calls'
  <2> SUFFICES ASSUME Calls, [Next]_vars PROVE Calls'
    OBVIOUS
  <2>1. CASE Administer
    <3>1. UNCHANGED call
      BY <2>1 DEF Administer, Publish, CreateMock, UpdateMock, DeleteMock
    <3> QED
      BY <3>1 DEF Calls
  <2>2. ASSUME NEW t \in Thread, Receive(t) \/ Serve(t) \/ GiveUp(t) PROVE Calls'
    <3>1. CASE Receive(t)
      BY <3>1, ReceiveGoes
    <3>2. CASE Serve(t)
      BY <3>2, ServeGoes
    <3>3. CASE GiveUp(t)
      BY <3>3, GiveUpGoes
    <3> QED
      BY <2>2, <3>1, <3>2, <3>3
  <2>3. CASE UNCHANGED vars
    BY <2>3 DEF vars, Calls
  <2> QED
    BY <2>1, <2>2, <2>3 DEF Next
<1> QED
  BY <1>1, <1>2, PTL DEF Spec

\* The request log tells what the client got, whichever fault the roll brought and
\* wherever the client gave up, for REST answers and for a batch of MCP calls.
THEOREM LogTellsTheWire == Spec => []ClientGetsWhatIsLogged
<1>1. Calls => ClientGetsWhatIsLogged
  BY DEF Calls, GoodCall, Delivered, Dropping, ClientGetsWhatIsLogged
<1> QED
  BY <1>1, CallsAreGood, PTL

-----------------------------------------------------------------------------
(***************************************************************************)
(* The counters of the templates.                                          *)
(***************************************************************************)

\* The uses of a counter so far.
Uses(p, n) == {j \in DOMAIN shown : shown[j][1] = p /\ shown[j][2] = n}

\* A counter stands at the number of its uses.
CountInv ==
  /\ DOMAIN counters = {"rest", "mcp"}
  /\ \E S : shown \in Seq(S)
  /\ \A p, n : CountOf(counters.rest, CounterKey(p, n)) = Cardinality(Uses(p, n))
  /\ CountersCountUses

LEMMA BumpedCounts ==
  ASSUME NEW map, NEW key, NEW other
  PROVE  CountOf(Bumped(map, key), other)
           = IF other = key THEN CountOf(map, key) + 1 ELSE CountOf(map, other)
BY DEF CountOf, Bumped

\* What a use of a counter shows.
LEMMA CounterShows ==
  ASSUME NEW elem, Moves(elem), NEW ctx, NEW map
  PROVE  Value(elem, ctx, map).value
           = Number(2 * (CountOf(map, CounterKey(ctx.project, CounterName(elem.args))) + 1))
BY DEF Moves, Value

\* A use of counter n of project p, that shows v.
LEMMA UseCounts ==
  ASSUME CountInv, NEW p, NEW n, NEW v,
         v = Number(2 * (CountOf(counters.rest, CounterKey(p, n)) + 1)),
         counters' = [counters EXCEPT !.rest = Bumped(counters.rest, CounterKey(p, n))],
         shown' = Append(shown, <<p, n, v>>)
  PROVE  CountInv'
<1> DEFINE k == Len(shown) + 1
<1>1. PICK S : shown \in Seq(S)
  BY DEF CountInv
<1>2. /\ shown \in Seq(S \cup {<<p, n, v>>}) /\ shown' \in Seq(S \cup {<<p, n, v>>})
      /\ Len(shown) \in Nat /\ DOMAIN shown = 1..Len(shown) /\ DOMAIN shown' = 1..k
      /\ shown'[k] = <<p, n, v>> /\ \A j \in 1..Len(shown) : shown'[j] = shown[j]
  BY <1>1
<1>3. DOMAIN counters' = {"rest", "mcp"} /\ counters'.rest = Bumped(counters.rest, CounterKey(p, n))
  BY DEF CountInv
<1>4. \A q, m : /\ IsFiniteSet(Uses(q, m)) /\ k \notin Uses(q, m)
                /\ Uses(q, m)' = IF q = p /\ m = n THEN Uses(q, m) \cup {k} ELSE Uses(q, m)
  <2> SUFFICES ASSUME NEW q, NEW m
               PROVE  /\ IsFiniteSet(Uses(q, m)) /\ k \notin Uses(q, m)
                      /\ Uses(q, m)' = IF q = p /\ m = n THEN Uses(q, m) \cup {k}
                                       ELSE Uses(q, m)
    OBVIOUS
  <2>1. Uses(q, m) \subseteq 1..Len(shown)
    BY <1>2 DEF Uses
  <2>2. IsFiniteSet(1..Len(shown))
    <3>1. 1 \in Int /\ Len(shown) \in Int
      BY <1>2
    <3> QED
      BY <3>1, FS_Interval, ZenonT(20)
  <2>3. IsFiniteSet(Uses(q, m)) /\ k \notin Uses(q, m)
    BY <1>2, <2>1, <2>2, FS_Subset
  <2>4. Uses(q, m)' = {j \in 1..k : shown'[j][1] = q /\ shown'[j][2] = m}
    BY <1>2 DEF Uses
  <2>5. Uses(q, m) = {j \in 1..Len(shown) : shown'[j][1] = q /\ shown'[j][2] = m}
    BY <1>2 DEF Uses
  <2>6. shown'[k][1] = p /\ shown'[k][2] = n /\ 1..k = 1..Len(shown) \cup {k}
    BY <1>2
  <2> HIDE DEF k
  <2> QED
    BY <2>3, <2>4, <2>5, <2>6
<1>5. \A q, m : Cardinality(Uses(q, m)')
                  = IF q = p /\ m = n THEN Cardinality(Uses(q, m)) + 1 ELSE Cardinality(Uses(q, m))
  <2> HIDE DEF k
  <2> QED
    BY <1>4, FS_AddElement
<1>6. \A q, m : CountOf(counters'.rest, CounterKey(q, m)) = Cardinality(Uses(q, m)')
  <2> SUFFICES ASSUME NEW q, NEW m
               PROVE  CountOf(counters'.rest, CounterKey(q, m)) = Cardinality(Uses(q, m)')
    OBVIOUS
  <2>1. CounterKey(q, m) = CounterKey(p, n) <=> q = p /\ m = n
    BY DEF CounterKey
  <2>2. CountOf(counters.rest, CounterKey(q, m)) = Cardinality(Uses(q, m))
    BY DEF CountInv
  <2> QED
    BY <1>3, <1>5, <2>1, <2>2, BumpedCounts
<1>7. CountersCountUses'
  <2> SUFFICES ASSUME NEW i \in 1..k
               PROVE  shown'[i][3] = Number(2 * Cardinality(
                        {j \in 1..i : shown'[j][1] = shown'[i][1] /\ shown'[j][2] = shown'[i][2]}))
    BY <1>2 DEF CountersCountUses
  <2>1. CASE i = k
    <3>1. shown'[i][1] = p /\ shown'[i][2] = n /\ shown'[i][3] = v
      BY <1>2, <2>1
    <3>2. {j \in 1..i : shown'[j][1] = shown'[i][1] /\ shown'[j][2] = shown'[i][2]} = Uses(p, n)'
      BY <1>2, <2>1, <3>1 DEF Uses
    <3>3. Cardinality(Uses(p, n)') = CountOf(counters.rest, CounterKey(p, n)) + 1
      BY <1>5 DEF CountInv
    <3> QED
      BY <3>1, <3>2, <3>3
  <2>2. CASE i # k
    <3>1. i \in 1..Len(shown) /\ shown'[i] = shown[i] /\ \A j \in 1..i : shown'[j] = shown[j]
      BY <1>2, <2>2
    <3>2. {j \in 1..i : shown'[j][1] = shown'[i][1] /\ shown'[j][2] = shown'[i][2]}
            = {j \in 1..i : shown[j][1] = shown[i][1] /\ shown[j][2] = shown[i][2]}
      BY <3>1
    <3>3. shown[i][3] = Number(2 * Cardinality(
            {j \in 1..i : shown[j][1] = shown[i][1] /\ shown[j][2] = shown[i][2]}))
      BY <1>2, <3>1 DEF CountInv, CountersCountUses
    <3> QED
      BY <3>1, <3>2, <3>3
  <2> QED
    BY <2>1, <2>2
<1> QED
  BY <1>2, <1>3, <1>6, <1>7 DEF CountInv

LEMMA SameCounts ==
  ASSUME CountInv, shown' = shown, DOMAIN counters' = DOMAIN counters,
         counters'.rest = counters.rest
  PROVE  CountInv'
BY DEF CountInv, Uses, CountersCountUses

LEMMA ReceiveCounts == ASSUME CountInv, NEW t \in Thread, Receive(t) PROVE CountInv'
<1> DEFINE same == /\ shown' = shown /\ DOMAIN counters' = DOMAIN counters
                   /\ counters'.rest = counters.rest
<1>1. \A p, req : NotDescribed(t, p, req) \/ RejectInvalidRequest(t, p, req) => same
  BY DEF NotDescribed, RejectInvalidRequest
<1>2. \A p, req, tmpl : RespondWithExample(t, p, req, tmpl) => same
  BY DEF RespondWithExample
<1>3. \A p, req, tmpl : RespondFromRule(t, p, req, tmpl) => same
  BY DEF RespondFromRule
<1>4. \A p : RefuseProject(t, p) => same
  BY DEF RefuseProject
<1>5. ASSUME NEW p, NEW sent, NEW draws, Handle(t, p, sent, draws) PROVE same
  <2>1. shown' = shown /\ \E x : counters' = [counters EXCEPT !.mcp = x]
    BY <1>5 DEF Handle
  <2> QED
    BY <2>1 DEF CountInv
<1>6. same
  BY <1>1, <1>2, <1>3, <1>4, <1>5 DEF Receive
<1> QED
  BY <1>6, SameCounts

LEMMA RenderCounts == ASSUME CountInv, Calls, NEW t \in Thread, RenderNext(t) PROVE CountInv'
<1> DEFINE part == Head(call[t].parts)
           elem == Head(part.src)
           ctx == [call[t].ctx EXCEPT !.json = part.json]
<1>1. CASE part.src = <<>>
  BY <1>1, SameCounts DEF RenderNext
<1>2. CASE part.src # <<>>
  <2>1. /\ counters' = [counters EXCEPT !.rest = CountersAfter(elem, ctx, counters.rest)]
        /\ shown' = IF Moves(elem)
                    THEN Append(shown, <<call[t].project, CounterName(elem.args),
                                         Value(elem, ctx, counters.rest).value>>)
                    ELSE shown
    BY <1>2 DEF RenderNext
  <2>2. ctx.project = call[t].project
    BY DEF RenderNext, Calls, GoodCall
  <2> HIDE DEF ctx, elem
  <2>3. CASE Moves(elem)
    <3> DEFINE key == CounterKey(ctx.project, CounterName(elem.args))
    <3>1. Value(elem, ctx, counters.rest).value = Number(2 * (CountOf(counters.rest, key) + 1))
      BY <2>3, CounterShows
    <3>2. CountersAfter(elem, ctx, counters.rest) = Bumped(counters.rest, key)
      BY <2>3 DEF CountersAfter
    <3> QED
      BY <2>1, <2>2, <2>3, <3>1, <3>2, UseCounts
  <2>4. CASE ~ Moves(elem)
    <3>1. counters'.rest = counters.rest /\ DOMAIN counters' = DOMAIN counters /\ shown' = shown
      BY <2>1, <2>4 DEF CountersAfter, CountInv
    <3> QED
      BY <3>1, SameCounts
  <2> QED
    BY <2>3, <2>4
<1> QED
  BY <1>1, <1>2

LEMMA CountsHold == Spec => []CountInv
<1>1. Init => CountInv
  <2> SUFFICES ASSUME Init PROVE CountInv
    OBVIOUS
  <2>1. counters = [rest |-> NoCounters, mcp |-> NoCounters] /\ shown = <<>>
    BY DEF Init
  <2>2. shown \in Seq({}) /\ \A p, n : Uses(p, n) = {}
    BY <2>1 DEF Uses
  <2>3. \A p, n : CountOf(counters.rest, CounterKey(p, n)) = 0
    BY <2>1 DEF CountOf, NoCounters
  <2>4. Cardinality({}) = 0
    BY FS_EmptySet
  <2>5. CountersCountUses /\ DOMAIN counters = {"rest", "mcp"}
    BY <2>1 DEF CountersCountUses
  <2>6. \A p, n : CountOf(counters.rest, CounterKey(p, n)) = Cardinality(Uses(p, n))
    BY <2>2, <2>3, <2>4
  <2> QED
    BY <2>2, <2>5, <2>6 DEF CountInv
<1>2. Calls /\ CountInv /\ [Next]_vars => CountInv'
  <2> SUFFICES ASSUME Calls, CountInv, [Next]_vars PROVE CountInv'
    OBVIOUS
  <2>1. CASE Administer
    <3>1. UNCHANGED <<counters, shown>>
      BY <2>1 DEF Administer, Publish, CreateMock, UpdateMock, DeleteMock
    <3> QED
      BY <3>1, SameCounts
  <2>2. ASSUME NEW t \in Thread, Receive(t) PROVE CountInv'
    BY <2>2, ReceiveCounts
  <2>3. ASSUME NEW t \in Thread, RenderNext(t) PROVE CountInv'
    BY <2>3, RenderCounts
  <2>4. ASSUME NEW t \in Thread,
               \/ FinishRendered(t) \/ Slept(t) \/ Interrupted(t) \/ Held(t) \/ Write(t)
               \/ Return(t) \/ GiveUp(t)
        PROVE  CountInv'
    <3>1. UNCHANGED <<counters, shown>>
      BY <2>4 DEF FinishRendered, Slept, Interrupted, Held, Write, Return, GiveUp
    <3> QED
      BY <3>1, SameCounts
  <2>5. CASE UNCHANGED vars
    BY <2>5, SameCounts DEF vars
  <2> QED
    BY <2>1, <2>2, <2>3, <2>4, <2>5 DEF Next, Serve
<1> QED
  BY <1>1, <1>2, CallsAreGood, PTL DEF Spec

\* Responses of any number of handlers render their placeholders one by one and at
\* once: the n-th use of a counter in a project shows n, and none of the counters
\* of another project or name, or of the MCP service, has a part in it.
THEOREM CountersAreExact == Spec => []CountersCountUses
<1>1. CountInv => CountersCountUses
  BY DEF CountInv
<1> QED
  BY <1>1, CountsHold, PTL

-----------------------------------------------------------------------------
(***************************************************************************)
(* The order of the rules: every rule of a project stands in its list, and *)
(* behind those before it.                                                 *)
(***************************************************************************)

\* Rules that Before puts in an order: under ids of their own.
Ordered(set) ==
  /\ \A r \in set : r.id \in Nat /\ r.created \in Nat
  /\ \A r, q \in set : r.id = q.id => r = q

LEMMA BeforeIsOrder ==
  ASSUME NEW set, Ordered(set)
  PROVE  /\ \A r, q \in set : Before(q, r) => ~ Before(r, q) /\ q # r
         /\ \A r, q \in set : r = q \/ Before(q, r) \/ Before(r, q)
         /\ \A r, q, o \in set : Before(o, q) /\ Before(q, r) => Before(o, r)
<1>1. \A r \in set : r.id \in Nat /\ r.created \in Nat
  BY DEF Ordered
<1>2. \A r, q \in set : Before(q, r) => ~ Before(r, q) /\ q # r
  BY <1>1 DEF Before
<1>3. \A r, q \in set : r = q \/ Before(q, r) \/ Before(r, q)
  BY <1>1 DEF Before, Ordered
<1>4. \A r, q, o \in set : Before(o, q) /\ Before(q, r) => Before(o, r)
  BY <1>1 DEF Before
<1> QED
  BY <1>2, <1>3, <1>4

\* list holds the rules of set, each once, in their order.
Lists(list, set) ==
  /\ list \in Seq(set)
  /\ \A i, j \in 1 .. Len(list) : i < j => Before(list[i], list[j])
  /\ \A r \in set : \E i \in 1 .. Len(list) : list[i] = r

LEMMA RanksList ==
  ASSUME NEW set, IsFiniteSet(set), Ordered(set)
  PROVE  Lists([i \in 1 .. Cardinality(set) |->
                  CHOOSE r \in set : Cardinality({q \in set : Before(q, r)}) = i - 1], set)
<1> DEFINE n == Cardinality(set)
           behind(r) == {q \in set : Before(q, r)}
           rank == [r \in set |-> Cardinality(behind(r)) + 1]
           list == [i \in 1 .. n |-> CHOOSE r \in set : Cardinality(behind(r)) = i - 1]
<1>1. n \in Nat
  BY FS_CardinalityType
<1>2. ASSUME NEW r \in set
      PROVE  IsFiniteSet(behind(r)) /\ Cardinality(behind(r)) \in 0 .. n - 1
  <2>1. IsFiniteSet(behind(r)) /\ Cardinality(behind(r)) <= n
        /\ (n = Cardinality(behind(r)) => set = behind(r))
    BY FS_Subset
  <2>2. r \notin behind(r)
    BY BeforeIsOrder
  <2>3. Cardinality(behind(r)) \in Nat /\ Cardinality(behind(r)) # n
    BY <2>1, <2>2, FS_CardinalityType
  <2> QED
    BY <1>1, <2>1, <2>3
<1>3. ASSUME NEW q \in set, NEW r \in set, Before(q, r)
      PROVE  Cardinality(behind(q)) < Cardinality(behind(r))
  <2>1. behind(q) \in SUBSET behind(r) /\ q \in behind(r) /\ q \notin behind(q)
    BY <1>3, BeforeIsOrder
  <2>2. IsFiniteSet(behind(r)) /\ IsFiniteSet(behind(q))
    BY <1>2
  <2>3. /\ Cardinality(behind(q)) <= Cardinality(behind(r))
        /\ Cardinality(behind(q)) # Cardinality(behind(r))
    <3> HIDE DEF behind
    <3> QED
      BY <2>1, <2>2, FS_Subset
  <2>4. Cardinality(behind(q)) \in Nat /\ Cardinality(behind(r)) \in Nat
    BY <2>2, FS_CardinalityType
  <2> HIDE DEF behind
  <2> QED
    BY <2>3, <2>4
<1> HIDE DEF behind
<1>4. \A r \in set : rank[r] = Cardinality(behind(r)) + 1 /\ Cardinality(behind(r)) \in Nat
  BY <1>2, <1>1
<1>5. rank \in Injection(set, 1 .. n)
  <2>1. \A r \in set : rank[r] \in 1 .. n
    BY <1>1, <1>2
  <2>2. rank \in [set -> 1 .. n]
    BY <2>1
  <2>3. ASSUME NEW q \in set, NEW r \in set, rank[q] = rank[r] PROVE q = r
    <3>1. Cardinality(behind(q)) = Cardinality(behind(r))
      BY <2>3, <1>4
    <3>2. ~ Before(q, r) /\ ~ Before(r, q)
      BY <1>3, <1>4, <3>1
    <3> QED
      BY <3>2, BeforeIsOrder
  <2> HIDE DEF rank, n
  <2> QED
    BY <2>2, <2>3 DEF Injection, IsInjective
<1>6. rank \in Surjection(set, 1 .. n)
  <2>1. IsFiniteSet(1 .. n) /\ Cardinality(1 .. n) = n
    BY <1>1, FS_Interval
  <2>2. Cardinality(set) = Cardinality(1 .. n)
    BY <2>1
  <2> HIDE DEF rank, n
  <2> QED
    BY <1>5, <2>1, <2>2, FS_Injection
<1>7. ASSUME NEW i \in 1 .. n PROVE list[i] \in set /\ rank[list[i]] = i
  <2>1. PICK r \in set : rank[r] = i
    BY <1>6 DEF Surjection
  <2>2. Cardinality(behind(r)) = i - 1
    BY <1>4, <2>1
  <2>3. list[i] \in set /\ Cardinality(behind(list[i])) = i - 1
    BY <2>2
  <2> HIDE DEF list, rank
  <2>4. i \in Nat
    BY <1>1
  <2>5. rank[list[i]] = (i - 1) + 1
    BY <1>4, <2>3
  <2> QED
    BY <2>3, <2>4, <2>5
<1> HIDE DEF rank
<1>8. list \in Seq(set) /\ Len(list) = n
  <2>1. list = [i \in 1 .. n |-> list[i]]
    OBVIOUS
  <2> HIDE DEF list
  <2> QED
    BY <1>1, <1>7, <2>1
<1> HIDE DEF list
<1>9. ASSUME NEW i \in 1 .. n, NEW j \in 1 .. n, i < j PROVE Before(list[i], list[j])
  <2>1. list[i] \in set /\ list[j] \in set /\ rank[list[i]] = i /\ rank[list[j]] = j
    BY <1>7
  <2>2. list[i] # list[j]
    BY <2>1, <1>9
  <2>3. ~ Before(list[j], list[i])
    <3>1. Before(list[j], list[i]) => Cardinality(behind(list[j])) < Cardinality(behind(list[i]))
      BY <1>3, <2>1
    <3>2. /\ i = Cardinality(behind(list[i])) + 1 /\ j = Cardinality(behind(list[j])) + 1
          /\ Cardinality(behind(list[i])) \in Nat /\ Cardinality(behind(list[j])) \in Nat
      BY <1>4, <2>1
    <3> QED
      BY <1>9, <3>1, <3>2
  <2> QED
    BY <2>1, <2>2, <2>3, BeforeIsOrder
<1>10. ASSUME NEW r \in set PROVE \E i \in 1 .. n : list[i] = r
  <2>1. rank[r] \in 1 .. n
    BY <1>5 DEF Injection
  <2>2. list[rank[r]] \in set /\ rank[list[rank[r]]] = rank[r]
    BY <1>7, <2>1
  <2>3. list[rank[r]] = r
    BY <1>5, <2>2 DEF Injection, IsInjective
  <2> QED
    BY <2>1, <2>3
<1>11. Lists(list, set)
  BY <1>8, <1>9, <1>10 DEF Lists
<1> QED
  BY <1>11 DEF list, behind

\* Some of the rules of a list, in its order.
LEMMA KeptLists ==
  ASSUME NEW set, NEW list, Lists(list, set), NEW S
  PROVE  Lists(Kept(list, S), set \cap S)
<1> DEFINE kept == Kept(list, S)
<1>1. list \in Seq(set)
  BY DEF Lists
<1>2. kept \in Seq(set \cap S)
  BY <1>1, KeptType
<1>3. PICK at \in [1 .. Len(kept) -> 1 .. Len(list)] :
        /\ \A i, j \in 1 .. Len(kept) : i < j => at[i] < at[j]
        /\ \A i \in 1 .. Len(kept) : kept[i] = list[at[i]]
        /\ \A k \in 1 .. Len(list) : list[k] \in S => \E i \in 1 .. Len(kept) : at[i] = k
  BY <1>1, KeptPlaces
<1> HIDE DEF kept
<1>4. ASSUME NEW i \in 1 .. Len(kept), NEW j \in 1 .. Len(kept), i < j
      PROVE  Before(kept[i], kept[j])
  <2>1. at[i] \in 1 .. Len(list) /\ at[j] \in 1 .. Len(list) /\ at[i] < at[j]
    BY <1>3, <1>4
  <2> QED
    BY <1>3, <2>1 DEF Lists
<1>5. ASSUME NEW r \in set \cap S PROVE \E i \in 1 .. Len(kept) : kept[i] = r
  <2>1. PICK k \in 1 .. Len(list) : list[k] = r
    BY DEF Lists
  <2>2. PICK i \in 1 .. Len(kept) : at[i] = k
    BY <1>3, <2>1
  <2> QED
    BY <1>3, <2>1, <2>2
<1>6. Lists(kept, set \cap S)
  BY <1>2, <1>4, <1>5 DEF Lists
<1> QED
  BY <1>6 DEF kept

FirstRule(set) == CHOOSE r \in set : \A s \in set : ~ Before(s, r)
LastRule(set) == CHOOSE r \in set : \A s \in set : ~ Before(r, s)
Places(list, set) == {i \in DOMAIN list : list[i] \in set}

\* The first place of the rules of T in a list is that of the first of them.
LEMMA FirstPlaceIs ==
  ASSUME NEW set, Ordered(set), NEW list, Lists(list, set), NEW T, T \subseteq set
  PROVE  /\ T = {} => FirstPlace(Places(list, T)) = 0
         /\ T # {} => /\ FirstPlace(Places(list, T)) \in 1 .. Len(list)
                      /\ list[FirstPlace(Places(list, T))] = FirstRule(T)
<1> DEFINE places == Places(list, T)
<1>0. places = {i \in DOMAIN list : list[i] \in T}
  BY DEF Places
<1> HIDE DEF places
<1>1. /\ list \in Seq(set) /\ DOMAIN list = 1 .. Len(list) /\ Len(list) \in Nat
      /\ \A i, j \in 1 .. Len(list) : i < j => Before(list[i], list[j])
      /\ \A r \in set : \E i \in 1 .. Len(list) : list[i] = r
  BY DEF Lists
<1>2. CASE T = {}
  BY <1>0, <1>2 DEF FirstPlace, places
<1>3. CASE T # {}
  <2>1. places # {} /\ places \subseteq Nat
    BY <1>0, <1>1, <1>3
  <2>2. PICK x \in places : \A y \in places : x <= y
    BY <2>1, SmallestOf
  <2>3. Min(places) = x
    <3>1. \A z \in places : z \in Nat
      BY <2>1
    <3>2. \A z \in places : (\A y \in places : z <= y) => z = x
      BY <2>2, <3>1
    <3> QED
      BY <2>2, <3>2 DEF Min
  <2>4. FirstPlace(places) = x /\ x \in 1 .. Len(list) /\ list[x] \in T
    BY <1>0, <1>1, <2>1, <2>3 DEF FirstPlace
  <2>5. \A s \in T : ~ Before(s, list[x])
    <3> SUFFICES ASSUME NEW s \in T PROVE ~ Before(s, list[x])
      OBVIOUS
    <3>1. PICK j \in 1 .. Len(list) : list[j] = s
      BY <1>1
    <3>2. j \in places /\ x <= j
      BY <1>0, <1>1, <2>2, <3>1
    <3>3. j = x \/ Before(list[x], s)
      BY <1>1, <2>4, <3>1, <3>2
    <3>4. s \in set /\ list[x] \in set
      BY <2>4
    <3> QED
      BY <3>1, <3>3, <3>4, BeforeIsOrder
  <2>6. ASSUME NEW r \in T, \A s \in T : ~ Before(s, r) PROVE r = list[x]
    BY <2>4, <2>5, <2>6, BeforeIsOrder
  <2> QED
    BY <1>3, <2>4, <2>5, <2>6 DEF FirstRule, places
<1> QED
  BY <1>2, <1>3

LEMMA LastPlaceIs ==
  ASSUME NEW set, Ordered(set), NEW list, Lists(list, set), NEW T, T \subseteq set
  PROVE  /\ T = {} => LastPlace(Places(list, T)) = 0
         /\ T # {} => /\ LastPlace(Places(list, T)) \in 1 .. Len(list)
                      /\ list[LastPlace(Places(list, T))] = LastRule(T)
<1> DEFINE places == Places(list, T)
<1>0. places = {i \in DOMAIN list : list[i] \in T}
  BY DEF Places
<1> HIDE DEF places
<1>1. /\ list \in Seq(set) /\ DOMAIN list = 1 .. Len(list) /\ Len(list) \in Nat
      /\ \A i, j \in 1 .. Len(list) : i < j => Before(list[i], list[j])
      /\ \A r \in set : \E i \in 1 .. Len(list) : list[i] = r
  BY DEF Lists
<1>2. CASE T = {}
  BY <1>0, <1>2 DEF LastPlace, places
<1>3. CASE T # {}
  <2>1. places # {} /\ places \subseteq 0 .. Len(list)
    BY <1>0, <1>1, <1>3
  <2>2. PICK x \in places : \A y \in places : y <= x
    BY <1>1, <2>1, LargestOf
  <2>3. Max(places) = x
    <3>1. \A z \in places : z \in Nat
      BY <1>1, <2>1
    <3>2. \A y \in places : x >= y
      BY <2>2, <3>1
    <3>3. \A z \in places : (\A y \in places : z >= y) => z = x
      BY <2>2, <3>1
    <3> QED
      BY <3>2, <3>3 DEF Max
  <2>4. LastPlace(places) = x /\ x \in 1 .. Len(list) /\ list[x] \in T
    BY <1>0, <1>1, <2>1, <2>3 DEF LastPlace
  <2>5. \A s \in T : ~ Before(list[x], s)
    <3> SUFFICES ASSUME NEW s \in T PROVE ~ Before(list[x], s)
      OBVIOUS
    <3>1. PICK j \in 1 .. Len(list) : list[j] = s
      BY <1>1
    <3>2. j \in places /\ j <= x
      BY <1>0, <1>1, <2>2, <3>1
    <3>3. j = x \/ Before(s, list[x])
      BY <1>1, <2>4, <3>1, <3>2
    <3>4. s \in set /\ list[x] \in set
      BY <2>4
    <3> QED
      BY <3>1, <3>3, <3>4, BeforeIsOrder
  <2>6. ASSUME NEW r \in T, \A s \in T : ~ Before(r, s) PROVE r = list[x]
    BY <2>4, <2>5, <2>6, BeforeIsOrder
  <2> QED
    BY <1>3, <2>4, <2>5, <2>6 DEF LastRule, places
<1> QED
  BY <1>2, <1>3

-----------------------------------------------------------------------------
(***************************************************************************)
(* The loop over the conditional rules.                                    *)
(***************************************************************************)

\* best is the first place, of the first n, of a rule that is met with the most
\* conditions.
IsBest(list, ctx, n, best) ==
  \/ best = 0 /\ \A i \in 1 .. n : ~ Met(list[i], ctx)
  \/ /\ best \in 1 .. n /\ Met(list[best], ctx)
     /\ \A i \in 1 .. n :
          Met(list[i], ctx) => /\ Len(list[i].match) <= Len(list[best].match)
                               /\ i < best => Len(list[i].match) < Len(list[best].match)

LEMMA BestSteps ==
  ASSUME NEW T, NEW list \in Seq(T), NEW ctx
  PROVE  /\ BestOfFirst(list, ctx)[0] = 0
         /\ \A n \in 1 .. Len(list) :
              BestOfFirst(list, ctx)[n] =
                IF MoreConditions(list, n, BestOfFirst(list, ctx)[n - 1]) /\ Met(list[n], ctx)
                THEN n ELSE BestOfFirst(list, ctx)[n - 1]
<1> DEFINE Step(f, n) ==
             IF n = 0 THEN 0
             ELSE IF MoreConditions(list, n, f[n - 1]) /\ Met(list[n], ctx) THEN n ELSE f[n - 1]
           Defines(f, m) == f = [n \in 0 .. m |-> Step(f, n)]
           Good == {m \in Nat : \E f : Defines(f, m)}
<1>1. Len(list) \in Nat
  OBVIOUS
<1>2. 0 \in Good
  <2>1. Defines([n \in 0 .. 0 |-> 0], 0)
    OBVIOUS
  <2> QED
    BY <2>1
<1>3. ASSUME NEW m \in Nat, m \in Good PROVE m + 1 \in Good
  <2>1. PICK f : Defines(f, m)
    BY <1>3
  <2> DEFINE g == [n \in 0 .. m + 1 |-> IF n = m + 1 THEN Step(f, m + 1) ELSE f[n]]
  <2>2. \A n \in 0 .. m : g[n] = f[n] /\ f[n] = Step(f, n)
    <3>1. \A n \in 0 .. m : f[n] = Step(f, n)
      <4> HIDE DEF Step
      <4> QED
        BY <2>1
    <3>2. \A n \in 0 .. m : g[n] = f[n]
      <4> HIDE DEF Step
      <4> QED
        OBVIOUS
    <3> HIDE DEF g, Step
    <3> QED
      BY <3>1, <3>2
  <2>3. \A n \in 0 .. m + 1 : g[n] = Step(g, n)
    <3> SUFFICES ASSUME NEW n \in 0 .. m + 1 PROVE g[n] = Step(g, n)
      OBVIOUS
    <3>1. n = 0 \/ n - 1 \in 0 .. m
      OBVIOUS
    <3>2. Step(g, n) = Step(f, n)
      <4>1. n = 0 \/ g[n - 1] = f[n - 1]
        <5> HIDE DEF g, Step
        <5> QED
          BY <2>2, <3>1
      <4> HIDE DEF g
      <4> QED
        BY <4>1
    <3>3. g[n] = Step(f, n)
      <4>1. CASE n = m + 1
        <5> HIDE DEF Step
        <5> QED
          BY <4>1
      <4>2. CASE n # m + 1
        <5>1. n \in 0 .. m
          BY <4>2
        <5> HIDE DEF g, Step
        <5> QED
          BY <2>2, <5>1
      <4> QED
        BY <4>1, <4>2
    <3> HIDE DEF g, Step
    <3> QED
      BY <3>2, <3>3
  <2>4. Defines(g, m + 1)
    <3>1. g = [n \in 0 .. m + 1 |-> g[n]]
      <4> HIDE DEF Step
      <4> QED
        OBVIOUS
    <3> HIDE DEF g, Step
    <3> QED
      BY <2>3, <3>1
  <2>5. m + 1 \in Nat
    OBVIOUS
  <2> HIDE DEF Defines
  <2> QED
    BY <2>4, <2>5
<1>4. Len(list) \in Good
  <2>1. \A n \in 0 .. Len(list) : n < Len(list) /\ n \in Good => n + 1 \in Good
    <3> HIDE DEF Good
    <3> QED
      BY <1>1, <1>3
  <2>2. 0 .. Len(list) \subseteq Good
    <3> HIDE DEF Good
    <3> QED
      BY <1>1, <1>2, <2>1, UpTo
  <2> HIDE DEF Good
  <2> QED
    BY <1>1, <2>2
<1>5. PICK f : Defines(f, Len(list))
  BY <1>4
<1>6. Defines(BestOfFirst(list, ctx), Len(list))
  BY <1>5 DEF BestOfFirst
<1> DEFINE best == BestOfFirst(list, ctx)
<1>7. \A n \in 0 .. Len(list) : best[n] = Step(best, n)
  <2> HIDE DEF Step, best
  <2> QED
    BY <1>6 DEF best
<1> HIDE DEF best
<1>8. best[0] = 0
  BY <1>1, <1>7
<1>9. \A n \in 1 .. Len(list) :
        best[n] = IF MoreConditions(list, n, best[n - 1]) /\ Met(list[n], ctx)
                  THEN n ELSE best[n - 1]
  BY <1>1, <1>7
<1> QED
  BY <1>8, <1>9 DEF best

LEMMA BestIsBest ==
  ASSUME NEW T, NEW list \in Seq(T), NEW ctx, \A r \in T : Len(r.match) \in Nat
  PROVE  IsBest(list, ctx, Len(list), BestConditionalRule(list, ctx))
<1> DEFINE best == BestOfFirst(list, ctx)
           Good == {n \in 0 .. Len(list) : IsBest(list, ctx, n, best[n])}
<1>1. Len(list) \in Nat
  OBVIOUS
<1>2. /\ best[0] = 0
      /\ \A n \in 1 .. Len(list) :
           best[n] = IF MoreConditions(list, n, best[n - 1]) /\ Met(list[n], ctx)
                     THEN n ELSE best[n - 1]
  <2> HIDE DEF Good
  <2> QED
    BY BestSteps
<1> HIDE DEF best
<1>3. 0 \in Good
  BY <1>1, <1>2 DEF IsBest
<1>4. ASSUME NEW n \in 0 .. Len(list), n < Len(list), n \in Good PROVE n + 1 \in Good
  <2> DEFINE b == best[n]
  <2>1. n + 1 \in 1 .. Len(list) /\ n + 1 \in 0 .. Len(list) /\ (n + 1) - 1 = n /\ n \in Nat
    BY <1>1, <1>4
  <2>2. IsBest(list, ctx, n, b)
    BY <1>4
  <2>3. best[n + 1] = IF MoreConditions(list, n + 1, b) /\ Met(list[n + 1], ctx)
                      THEN n + 1 ELSE b
    BY <1>2, <2>1
  <2>4. \A i \in 1 .. n + 1 : Len(list[i].match) \in Nat
    <3> SUFFICES ASSUME NEW i \in 1 .. n + 1 PROVE Len(list[i].match) \in Nat
      OBVIOUS
    <3>1. i \in 1 .. Len(list)
      BY <1>1, <2>1
    <3>2. list[i] \in T
      BY <3>1
    <3> QED
      BY <3>2
  <2> HIDE DEF b, Good
  <2> SUFFICES IsBest(list, ctx, n + 1, best[n + 1])
    BY <2>1 DEF Good
  <2>5. \A i \in 1 .. n + 1 : i = n + 1 \/ (i \in 1 .. n /\ i < n + 1)
    BY <2>1
  <2>6. n + 1 \in 1 .. n + 1 /\ 1 .. n \subseteq 1 .. n + 1
    BY <2>1
  <2>7. CASE b = 0 /\ \A i \in 1 .. n : ~ Met(list[i], ctx)
    <3>1. MoreConditions(list, n + 1, b)
      BY <2>7 DEF MoreConditions
    <3>2. CASE Met(list[n + 1], ctx)
      <4>1. best[n + 1] = n + 1
        BY <2>3, <3>1, <3>2
      <4>2. \A i \in 1 .. n + 1 : Met(list[i], ctx) => i = n + 1
        BY <2>5, <2>7
      <4>3. Len(list[n + 1].match) <= Len(list[n + 1].match) /\ ~ (n + 1 < n + 1)
        BY <2>1, <2>4, <2>6
      <4> QED
        BY <2>6, <3>2, <4>1, <4>2, <4>3 DEF IsBest
    <3>3. CASE ~ Met(list[n + 1], ctx)
      <4>1. best[n + 1] = 0
        BY <2>3, <2>7, <3>3
      <4> QED
        BY <2>5, <2>7, <3>3, <4>1 DEF IsBest
    <3> QED
      BY <3>2, <3>3
  <2>8. CASE /\ b \in 1 .. n /\ Met(list[b], ctx)
             /\ \A i \in 1 .. n :
                  Met(list[i], ctx) => /\ Len(list[i].match) <= Len(list[b].match)
                                       /\ i < b => Len(list[i].match) < Len(list[b].match)
    <3>1. b # 0 /\ b \in 1 .. n + 1
      BY <2>6, <2>8
    <3>2. CASE Met(list[n + 1], ctx) /\ Len(list[n + 1].match) > Len(list[b].match)
      <4>1. best[n + 1] = n + 1
        BY <2>3, <3>2 DEF MoreConditions
      <4>2. \A i \in 1 .. n : Met(list[i], ctx) => Len(list[i].match) < Len(list[n + 1].match)
        BY <2>4, <2>6, <2>8, <3>1, <3>2
      <4>3. Len(list[n + 1].match) <= Len(list[n + 1].match) /\ ~ (n + 1 < n + 1)
        BY <2>1, <2>4, <2>6
      <4>4. \A i \in 1 .. n + 1 :
              Met(list[i], ctx) =>
                /\ Len(list[i].match) <= Len(list[n + 1].match)
                /\ i < n + 1 => Len(list[i].match) < Len(list[n + 1].match)
        BY <2>4, <2>5, <2>6, <4>2, <4>3
      <4> QED
        BY <2>6, <3>2, <4>1, <4>4 DEF IsBest
    <3>3. CASE ~ (Met(list[n + 1], ctx) /\ Len(list[n + 1].match) > Len(list[b].match))
      <4>1. best[n + 1] = b
        BY <2>3, <3>1, <3>3 DEF MoreConditions
      <4>2. Met(list[n + 1], ctx) => Len(list[n + 1].match) <= Len(list[b].match)
        BY <2>4, <2>6, <3>1, <3>3
      <4>3. ~ (n + 1 < b)
        BY <2>1, <2>8
      <4> QED
        BY <2>5, <2>8, <3>1, <4>1, <4>2, <4>3 DEF IsBest
    <3> QED
      BY <3>2, <3>3
  <2> QED
    BY <2>2, <2>7, <2>8 DEF IsBest
<1>5. 0 .. Len(list) \subseteq Good
  <2> HIDE DEF Good
  <2> QED
    BY <1>1, <1>3, <1>4, UpTo
<1>6. IsBest(list, ctx, Len(list), best[Len(list)])
  BY <1>1, <1>5
<1> QED
  BY <1>6 DEF BestConditionalRule, best

-----------------------------------------------------------------------------
(***************************************************************************)
(* Which rule answers.                                                     *)
(***************************************************************************)

\* What the repository holds: rules under ids of their own, older than the next.
Selectable(r) == Len(r.match) \in Nat /\ r.scenario # ""
GoodRule(r) == r.id \in Nat /\ r.id < nextId /\ r.created \in Nat /\ Selectable(r)

StoredRules ==
  /\ IsFiniteSet(rules) /\ nextId \in Nat
  /\ \A r \in rules : GoodRule(r)
  /\ \A r, q \in rules : r.id = q.id => r = q

LEMMA SavedRule ==
  ASSUME NEW body \in RuleBodies, NEW id \in Nat, NEW p, NEW created \in Nat
  PROVE  LET new == [WithScenario(body) EXCEPT !.id = id, !.project = p, !.created = created]
         IN /\ new.id = id /\ new.created = created
            /\ Selectable(new)
<1>1. /\ {"id", "project", "created", "scenario", "match"} \subseteq DOMAIN body
      /\ Len(body.match) \in Nat
  BY RuleBodiesAssumption
<1>2. /\ DOMAIN WithScenario(body) = DOMAIN body
      /\ WithScenario(body).match = body.match
      /\ WithScenario(body).scenario # ""
  BY <1>1 DEF WithScenario
<1> DEFINE w == WithScenario(body)
           new == [w EXCEPT !.id = id, !.project = p, !.created = created]
<1>3. "id" \in DOMAIN w /\ "created" \in DOMAIN w /\ "project" \in DOMAIN w
  BY <1>1, <1>2
<1> HIDE DEF w
<1>4. new.id = id /\ new.created = created
  BY <1>3
<1>5. new.match = w.match /\ new.scenario = w.scenario
  BY <1>3
<1> HIDE DEF new
<1>6. Selectable(new)
  BY <1>1, <1>2, <1>5 DEF w, Selectable
<1> QED
  BY <1>4, <1>6 DEF new, w

LEMMA InitRules == Init => StoredRules
<1> SUFFICES ASSUME Init PROVE StoredRules
  OBVIOUS
<1> DEFINE ids == {0} \cup {r.id : r \in rules}
<1>1. /\ IsFiniteSet(rules)
      /\ \A r \in rules : r.id \in Nat /\ r.created \in Nat /\ Selectable(r)
      /\ \A r, q \in rules : r.id = q.id => r = q
  BY StoredAssumption DEF Init, Selectable
<1>2. ids \subseteq Nat /\ 0 \in ids
  <2>1. \A r \in rules : r.id \in Nat
    BY <1>1
  <2> QED
    BY <2>1
<1>3. IsFiniteSet(ids)
  <2> DEFINE id == [r \in rules |-> r.id]
             those == {r.id : r \in rules}
  <2>1. id \in Surjection(rules, those)
    BY DEF Surjection
  <2>2. IsFiniteSet(those)
    <3> HIDE DEF id, those
    <3> QED
      BY <1>1, <2>1, FS_Surjection
  <2> HIDE DEF those
  <2>3. IsFiniteSet(those \cup {0})
    BY <2>2, FS_AddElement
  <2>4. those \cup {0} = ids
    BY DEF those
  <2> QED
    BY <2>3, <2>4
<1>4. \A r \in rules : r.id \in ids
  OBVIOUS
<1>5. nextId = Max(ids) + 1
  BY DEF Init
<1> HIDE DEF ids
<1>6. PICK m \in Nat : ids \subseteq 0 .. m
  BY <1>2, <1>3, BoundOf
<1>7. PICK x \in ids : \A y \in ids : y <= x
  BY <1>2, <1>6, LargestOf
<1>8. Max(ids) \in ids /\ \A y \in ids : y <= Max(ids)
  <2>1. x \in ids /\ \A y \in ids : x >= y
    BY <1>2, <1>7
  <2>2. Max(ids) \in ids /\ \A y \in ids : Max(ids) >= y
    BY <2>1 DEF Max
  <2> QED
    BY <1>2, <2>2
<1>9. nextId \in Nat /\ \A r \in rules : r.id < nextId
  <2>1. Max(ids) \in Nat /\ nextId = Max(ids) + 1
    BY <1>2, <1>5, <1>8
  <2> HIDE DEF ids
  <2>2. \A r \in rules : r.id \in Nat /\ r.id <= Max(ids)
    BY <1>2, <1>4, <1>8
  <2> QED
    BY <2>1, <2>2
<1> QED
  BY <1>1, <1>9 DEF StoredRules, GoodRule

LEMMA AdministerRules == StoredRules /\ Administer => StoredRules'
<1> SUFFICES ASSUME StoredRules, Administer PROVE StoredRules'
  OBVIOUS
<1>0. /\ IsFiniteSet(rules) /\ nextId \in Nat
      /\ \A r \in rules : GoodRule(r)
      /\ \A r, q \in rules : r.id = q.id => r = q
  BY DEF StoredRules
<1>1. ASSUME NEW p, NEW c, Publish(p, c) PROVE StoredRules'
  BY <1>1 DEF Publish, StoredRules, GoodRule
<1>2. ASSUME NEW p \in Project, NEW body \in RuleBodies, CreateMock(p, body) PROVE StoredRules'
  <2> DEFINE new == [WithScenario(body) EXCEPT !.id = nextId, !.project = p, !.created = nextId]
  <2>1. rules' = rules \cup {new} /\ nextId' = nextId + 1
    BY <1>2 DEF CreateMock
  <2>2. /\ new.id = nextId /\ new.created = nextId
        /\ Selectable(new)
    <3>1. nextId \in Nat
      BY <1>0
    <3> QED
      BY <3>1, SavedRule
  <2> HIDE DEF new
  <2>3. IsFiniteSet(rules') /\ nextId' \in Nat
    BY <1>0, <2>1, FS_AddElement
  <2>4. \A r \in rules' : GoodRule(r)'
    <3>1. /\ new.id \in Nat /\ new.id < nextId' /\ new.created \in Nat
          /\ Selectable(new)
      BY <1>0, <2>1, <2>2
    <3>2. \A r \in rules : GoodRule(r)'
      BY <1>0, <2>1 DEF GoodRule
    <3> QED
      BY <2>1, <3>1, <3>2 DEF GoodRule, Selectable
  <2>5. \A r, q \in rules' : r.id = q.id => r = q
    <3>1. \A r \in rules : r.id # new.id
      BY <1>0, <2>2 DEF GoodRule
    <3> QED
      BY <1>0, <2>1, <3>1
  <2> QED
    BY <2>3, <2>4, <2>5 DEF StoredRules
<1>3. ASSUME NEW r \in rules, NEW body \in RuleBodies, NEW p, NEW created \in Nat,
             UpdateMock(r, body, p, created)
      PROVE  StoredRules'
  <2> DEFINE new == [WithScenario(body) EXCEPT !.id = r.id, !.project = p, !.created = created]
  <2>1. rules' = (rules \ {r}) \cup {new} /\ nextId' = nextId
    BY <1>3 DEF UpdateMock
  <2>2. r.id \in Nat /\ r.id < nextId
    BY <1>0 DEF GoodRule
  <2>3. /\ new.id = r.id /\ new.created = created
        /\ Selectable(new)
    BY <2>2, SavedRule
  <2> HIDE DEF new
  <2>4. IsFiniteSet(rules') /\ nextId' \in Nat
    <3>1. IsFiniteSet(rules \ {r})
      BY <1>0, FS_RemoveElement
    <3> QED
      BY <1>0, <2>1, <3>1, FS_AddElement
  <2>5. \A q \in rules' : GoodRule(q)'
    BY <1>0, <2>1, <2>2, <2>3 DEF GoodRule
  <2>6. \A q, o \in rules' : q.id = o.id => q = o
    BY <1>0, <2>1, <2>3
  <2> QED
    BY <2>4, <2>5, <2>6 DEF StoredRules
<1>4. ASSUME NEW r \in rules, DeleteMock(r) PROVE StoredRules'
  <2>1. rules' = rules \ {r} /\ nextId' = nextId
    BY <1>4 DEF DeleteMock
  <2>2. IsFiniteSet(rules')
    BY <1>0, <2>1, FS_RemoveElement
  <2> QED
    BY <1>0, <2>1, <2>2 DEF StoredRules, GoodRule
<1>5. \A r \in rules : r.created \in Nat
  BY <1>0 DEF GoodRule
<1> QED
  BY <1>1, <1>2, <1>3, <1>4, <1>5 DEF Administer

LEMMA RulesAreGood == Spec => []StoredRules
<1>1. StoredRules /\ [Next]_vars => StoredRules'
  <2> SUFFICES ASSUME StoredRules, [Next]_vars PROVE StoredRules'
    OBVIOUS
  <2>1. CASE Administer
    BY <2>1, AdministerRules
  <2>2. ASSUME UNCHANGED store PROVE StoredRules'
    BY <2>2 DEF store, StoredRules, GoodRule
  <2>3. ASSUME NEW t \in Thread, Receive(t) \/ Serve(t) \/ GiveUp(t) PROVE StoredRules'
    BY <2>2, <2>3, RequestsKeepStore
  <2>4. CASE UNCHANGED vars
    BY <2>2, <2>4 DEF vars
  <2> QED
    BY <2>1, <2>3, <2>4 DEF Next
<1> QED
  BY <1>1, InitRules, PTL DEF Spec

RulesFor(p, tmpl, req) ==
  {r \in rules : r.project = p /\ r.path = tmpl /\ EqualFold(r.method, req.method)}

\* The list FindRule chooses from: the rules of the operation, in their order.
LEMMA OperationLists ==
  ASSUME StoredRules, NEW p, NEW req, NEW tmpl
  PROVE  /\ Ordered(RulesFor(p, tmpl, req))
         /\ \A r \in RulesFor(p, tmpl, req) : Selectable(r)
         /\ Lists(OfOperation(ListMocks(p), tmpl, req), RulesFor(p, tmpl, req))
<1> DEFINE all == {r \in rules : r.project = p}
           list == ListMocks(p)
           S == {r \in Range(list) : EqualFold(r.method, req.method) /\ r.path = tmpl}
           mine == RulesFor(p, tmpl, req)
<1>1. IsFiniteSet(all) /\ Ordered(all)
  <2>1. all \in SUBSET rules
    OBVIOUS
  <2>2. IsFiniteSet(all)
    <3> HIDE DEF all
    <3> QED
      BY <2>1, FS_Subset DEF StoredRules
  <2> QED
    BY <2>2 DEF StoredRules, GoodRule, Ordered
<1>2. Ordered(mine) /\ \A r \in mine : Selectable(r)
  BY DEF StoredRules, GoodRule, Ordered, RulesFor
<1>3. Lists(list, all)
  <2>1. list = [i \in 1 .. Cardinality(all) |->
                  CHOOSE r \in all : Cardinality({q \in all : Before(q, r)}) = i - 1]
    BY DEF ListMocks
  <2> HIDE DEF all, list
  <2> QED
    BY <1>1, <2>1, RanksList
<1>4. Lists(Kept(list, S), all \cap S)
  <2> HIDE DEF all, list, S
  <2> QED
    BY <1>3, KeptLists
<1>5. Range(list) = all
  <2> HIDE DEF all, list
  <2>1. list \in Seq(all) /\ DOMAIN list = 1 .. Len(list)
    BY <1>3 DEF Lists
  <2> QED
    BY <1>3, <2>1 DEF Lists, Range
<1>6. all \cap S = mine
  <2> HIDE DEF list
  <2> QED
    BY <1>5 DEF RulesFor
<1>7. Kept(list, S) = OfOperation(ListMocks(p), tmpl, req)
  BY DEF OfOperation
<1> HIDE DEF all, list, S
<1> QED
  BY <1>2, <1>4, <1>6, <1>7

\* The rules that are met with the most conditions.
MostMet(set, ctx) ==
  LET met == {r \in set : r.match # <<>> /\ MatchesAll(ctx, r.match)}
  IN {r \in met : \A s \in met : Len(s.match) <= Len(r.match)}

LEMMA BestIsFirstOfMost ==
  ASSUME NEW set, Ordered(set), \A r \in set : Selectable(r),
         NEW list, Lists(list, set), NEW ctx
  PROVE  /\ MostMet(set, ctx) = {} => BestConditionalRule(list, ctx) = 0
         /\ MostMet(set, ctx) # {} =>
              /\ BestConditionalRule(list, ctx) \in 1 .. Len(list)
              /\ list[BestConditionalRule(list, ctx)] = FirstRule(MostMet(set, ctx))
<1> DEFINE met == {r \in set : r.match # <<>> /\ MatchesAll(ctx, r.match)}
           most == {r \in met : \A s \in met : Len(s.match) <= Len(r.match)}
           best == BestConditionalRule(list, ctx)
<1>0. most = MostMet(set, ctx) /\ \A r \in set : Len(r.match) \in Nat
  BY DEF MostMet, Selectable
<1>1. /\ list \in Seq(set) /\ Len(list) \in Nat
      /\ \A i, j \in 1 .. Len(list) : i < j => Before(list[i], list[j])
      /\ \A r \in set : \E i \in 1 .. Len(list) : list[i] = r
      /\ \A i \in 1 .. Len(list) : list[i] \in set
  BY DEF Lists
<1>2. IsBest(list, ctx, Len(list), best)
  <2> HIDE DEF best
  <2> QED
    BY <1>0, <1>1, BestIsBest DEF best
<1>3. \A i \in 1 .. Len(list) : Met(list[i], ctx) <=> list[i] \in met
  BY <1>1 DEF Met
<1>4. \A r \in met : r \in set /\ Len(r.match) \in Nat
  BY <1>0
<1> HIDE DEF best, met
<1>5. CASE best = 0 /\ \A i \in 1 .. Len(list) : ~ Met(list[i], ctx)
  <2>1. met = {}
    BY <1>1, <1>3, <1>4, <1>5
  <2>2. most = {}
    BY <2>1
  <2> QED
    BY <1>0, <1>5, <2>2 DEF best, met
<1>6. CASE /\ best \in 1 .. Len(list) /\ Met(list[best], ctx)
           /\ \A i \in 1 .. Len(list) :
                Met(list[i], ctx) => /\ Len(list[i].match) <= Len(list[best].match)
                                     /\ i < best => Len(list[i].match) < Len(list[best].match)
  <2>1. list[best] \in met
    BY <1>3, <1>6
  <2>2. \A s \in met : \E i \in 1 .. Len(list) : list[i] = s /\ Met(list[i], ctx)
    BY <1>1, <1>3, <1>4
  <2>3. \A s \in met : Len(s.match) <= Len(list[best].match)
    BY <1>6, <2>2
  <2>4. list[best] \in most
    BY <2>1, <2>3
  <2>5. \A s \in most : s \in met /\ Len(s.match) = Len(list[best].match)
    BY <1>4, <2>1, <2>3
  <2> HIDE DEF most
  <2>6. \A s \in most : ~ Before(s, list[best])
    <3> SUFFICES ASSUME NEW s \in most PROVE ~ Before(s, list[best])
      OBVIOUS
    <3>1. PICK i \in 1 .. Len(list) : list[i] = s /\ Met(list[i], ctx)
      BY <2>2, <2>5
    <3>2. ~ (i < best)
      BY <1>4, <1>6, <2>1, <2>5, <3>1
    <3>3. i = best \/ Before(list[best], s)
      BY <1>1, <1>6, <3>1, <3>2
    <3>4. s \in set /\ list[best] \in set
      BY <1>4, <2>1, <2>5
    <3> QED
      BY <3>1, <3>3, <3>4, BeforeIsOrder
  <2>7. ASSUME NEW r \in most, \A s \in most : ~ Before(s, r) PROVE r = list[best]
    <3>1. ~ Before(list[best], r) /\ ~ Before(r, list[best])
      BY <2>4, <2>6, <2>7
    <3>2. r \in set /\ list[best] \in set
      BY <1>4, <2>1, <2>5
    <3> QED
      BY <3>1, <3>2, BeforeIsOrder
  <2>8. list[best] = FirstRule(most)
    BY <2>4, <2>6, <2>7 DEF FirstRule
  <2>9. most # {} /\ best \in 1 .. Len(list)
    BY <1>6, <2>4
  <2> QED
    BY <1>0, <2>8, <2>9 DEF best, met, most
<1> QED
  BY <1>2, <1>5, <1>6 DEF IsBest

\* The first choice that is one.
LEMMA FirstChoice ==
  ASSUME NEW list, NEW tmpl, NEW req, NEW ctx
  PROVE  LET rules_ == OfOperation(list, tmpl, req)
             e == ExplicitRule(rules_, req.scenario)
             b == BestConditionalRule(rules_, ctx)
             r == RecordedRule(rules_, ctx)
             d == DefaultRule(rules_)
         IN FindRule(list, tmpl, req, ctx) =
              IF e # 0 THEN rules_[e] ELSE IF b # 0 THEN rules_[b]
              ELSE IF r # 0 THEN rules_[r] ELSE IF d # 0 THEN rules_[d] ELSE NoRule
<1> DEFINE rules_ == OfOperation(list, tmpl, req)
           e == ExplicitRule(rules_, req.scenario)
           b == BestConditionalRule(rules_, ctx)
           r == RecordedRule(rules_, ctx)
           d == DefaultRule(rules_)
           choices == <<e, b, r, d>>
           places == {i \in DOMAIN choices : choices[i] # 0}
<1>1. FindRule(list, tmpl, req, ctx) =
        IF FirstPlace(places) = 0 THEN NoRule ELSE rules_[choices[FirstPlace(places)]]
  BY DEF FindRule
<1> HIDE DEF rules_, e, b, r, d
<1>2. /\ DOMAIN choices = {1, 2, 3, 4}
      /\ choices[1] = e /\ choices[2] = b /\ choices[3] = r /\ choices[4] = d
  OBVIOUS
<1> HIDE DEF choices
<1>3. /\ places \subseteq {1, 2, 3, 4}
      /\ 1 \in places <=> e # 0
      /\ 2 \in places <=> b # 0
      /\ 3 \in places <=> r # 0
      /\ 4 \in places <=> d # 0
  BY <1>2
<1> HIDE DEF places
<1>4. ASSUME NEW x \in places, \A y \in places : x <= y PROVE FirstPlace(places) = x
  <2>1. places # {}
    OBVIOUS
  <2>2. \A z \in places : (\A y \in places : z <= y) => z = x
    BY <1>3, <1>4
  <2>3. Min(places) = x
    BY <1>4, <2>2 DEF Min
  <2> QED
    BY <2>1, <2>3 DEF FirstPlace
<1>5. places = {} => FirstPlace(places) = 0
  BY DEF FirstPlace
<1>6. FindRule(list, tmpl, req, ctx) =
        IF e # 0 THEN rules_[e] ELSE IF b # 0 THEN rules_[b]
        ELSE IF r # 0 THEN rules_[r] ELSE IF d # 0 THEN rules_[d] ELSE NoRule
  <2>1. CASE e # 0
    <3>1. FirstPlace(places) = 1
      BY <1>3, <1>4, <2>1
    <3> QED
      BY <1>1, <1>2, <2>1, <3>1
  <2>2. CASE e = 0 /\ b # 0
    <3>1. FirstPlace(places) = 2
      BY <1>3, <1>4, <2>2
    <3> QED
      BY <1>1, <1>2, <2>2, <3>1
  <2>3. CASE e = 0 /\ b = 0 /\ r # 0
    <3>1. FirstPlace(places) = 3
      BY <1>3, <1>4, <2>3
    <3> QED
      BY <1>1, <1>2, <2>3, <3>1
  <2>4. CASE e = 0 /\ b = 0 /\ r = 0 /\ d # 0
    <3>1. FirstPlace(places) = 4
      BY <1>3, <1>4, <2>4
    <3> QED
      BY <1>1, <1>2, <2>4, <3>1
  <2>5. CASE e = 0 /\ b = 0 /\ r = 0 /\ d = 0
    <3>1. places = {}
      BY <1>3, <2>5
    <3> QED
      BY <1>1, <1>5, <2>5, <3>1
  <2> QED
    BY <2>1, <2>2, <2>3, <2>4, <2>5
<1> QED
  BY <1>6 DEF rules_, e, b, r, d

\* A request is answered by the rule of the highest rank, and within a rank by the
\* first created, but of defaults by the last: whatever rules are saved, updated
\* and deleted, in whichever order, and for every request and template.
THEOREM SelectionIsByRank == Spec => []SelectsByRank
<1>1. StoredRules => SelectsByRank
  <2> SUFFICES ASSUME StoredRules, NEW p \in Project, NEW req \in Requests,
                      NEW tmpl \in Described(p, req)
               PROVE  LET ctx == Context(p, tmpl, req)
                          mine == {r \in rules : /\ r.project = p /\ r.path = tmpl
                                                 /\ EqualFold(r.method, req.method)}
                          named == {r \in mine : /\ req.scenario \notin {"", "default", "recorded"}
                                                 /\ r.scenario = req.scenario}
                          defaults == {r \in mine : r.match = <<>> /\ r.scenario = "default"}
                          met == {r \in mine : r.match # <<>> /\ MatchesAll(ctx, r.match)}
                          most == {r \in met : \A s \in met : Len(s.match) <= Len(r.match)}
                          recorded == {r \in mine : /\ r.recording # NoRecording
                                                    /\ r.recording = RequestKey(ctx)}
                          first(set) == CHOOSE r \in set : \A s \in set : ~ Before(s, r)
                          last(set) == CHOOSE r \in set : \A s \in set : ~ Before(r, s)
                      IN FindRule(ListMocks(p), tmpl, req, ctx) =
                           CASE named # {} -> first(named)
                             [] named = {} /\ req.scenario = "default" /\ defaults # {} ->
                                  last(defaults)
                             [] OTHER -> IF most # {} THEN first(most)
                                         ELSE IF recorded # {} THEN first(recorded)
                                         ELSE IF defaults # {} THEN last(defaults) ELSE NoRule
    BY Zenon DEF SelectsByRank
  <2> DEFINE ctx == Context(p, tmpl, req)
             mine == RulesFor(p, tmpl, req)
             named == {r \in mine : /\ req.scenario \notin {"", "default", "recorded"}
                                    /\ r.scenario = req.scenario}
             defaults == {r \in mine : r.match = <<>> /\ r.scenario = "default"}
             most == MostMet(mine, ctx)
             recorded == {r \in mine : /\ r.recording # NoRecording
                                       /\ r.recording = RequestKey(ctx)}
             list == OfOperation(ListMocks(p), tmpl, req)
             e == ExplicitRule(list, req.scenario)
             b == BestConditionalRule(list, ctx)
             c == RecordedRule(list, ctx)
             d == DefaultRule(list)
  <2>1. Ordered(mine) /\ Lists(list, mine) /\ \A r \in mine : Selectable(r)
    BY OperationLists
  <2>2. \A i \in DOMAIN list : list[i] \in mine
    <3> HIDE DEF list, mine
    <3>1. list \in Seq(mine)
      BY <2>1 DEF Lists
    <3> QED
      BY <3>1
  <2>3. /\ most = {} => b = 0
        /\ most # {} => b \in 1 .. Len(list) /\ list[b] = FirstRule(most)
    <3> HIDE DEF list, mine, ctx
    <3> QED
      BY <2>1, BestIsFirstOfMost
  <2>4. /\ recorded = {} => c = 0
        /\ recorded # {} => c \in 1 .. Len(list) /\ list[c] = FirstRule(recorded)
    <3> DEFINE places == {i \in DOMAIN list : /\ list[i].recording # NoRecording
                                              /\ list[i].recording = RequestKey(ctx)}
    <3>1. c = FirstPlace(places)
      BY DEF RecordedRule
    <3> HIDE DEF list, mine, ctx, c
    <3>2. places = Places(list, recorded) /\ recorded \subseteq mine
      BY <2>2 DEF Places
    <3> HIDE DEF places, recorded
    <3>3. /\ recorded = {} => FirstPlace(places) = 0
          /\ recorded # {} => /\ FirstPlace(places) \in 1 .. Len(list)
                              /\ list[FirstPlace(places)] = FirstRule(recorded)
      BY <2>1, <3>2, FirstPlaceIs
    <3> QED
      BY <3>1, <3>3
  <2>5. /\ defaults = {} => d = 0
        /\ defaults # {} => d \in 1 .. Len(list) /\ list[d] = LastRule(defaults)
    <3> DEFINE places == {i \in DOMAIN list : /\ list[i].match = <<>>
                                              /\ list[i].scenario \in {"", "default"}}
    <3>1. d = LastPlace(places)
      BY DEF DefaultRule
    <3> HIDE DEF list, mine, ctx, d
    <3>2. \A r \in mine : r.scenario # ""
      BY <2>1 DEF Selectable
    <3>3. places = Places(list, defaults) /\ defaults \subseteq mine
      BY <2>2, <3>2 DEF Places
    <3> HIDE DEF places, defaults
    <3>4. /\ defaults = {} => LastPlace(places) = 0
          /\ defaults # {} => /\ LastPlace(places) \in 1 .. Len(list)
                              /\ list[LastPlace(places)] = LastRule(defaults)
      BY <2>1, <3>3, LastPlaceIs
    <3> QED
      BY <3>1, <3>4
  <2>6. /\ req.scenario \in {"", "recorded"} => e = 0
        /\ req.scenario = "default" => e = d
        /\ req.scenario \notin {"", "default", "recorded"} =>
             /\ named = {} => e = 0
             /\ named # {} => e \in 1 .. Len(list) /\ list[e] = FirstRule(named)
    <3> DEFINE places == {i \in DOMAIN list : list[i].scenario = req.scenario}
    <3>1. /\ req.scenario \in {"", "recorded"} => e = 0
          /\ req.scenario = "default" => e = d
          /\ req.scenario \notin {"", "default", "recorded"} => e = FirstPlace(places)
      <4> HIDE DEF list
      <4> QED
        BY DEF ExplicitRule
    <3> HIDE DEF list, mine, ctx, d, e
    <3>2. ASSUME req.scenario \notin {"", "default", "recorded"}
          PROVE  places = Places(list, named) /\ named \subseteq mine
      BY <2>2, <3>2 DEF Places
    <3> HIDE DEF places, named
    <3>3. ASSUME req.scenario \notin {"", "default", "recorded"}
          PROVE  /\ named = {} => e = 0
                 /\ named # {} => e \in 1 .. Len(list) /\ list[e] = FirstRule(named)
      <4>1. places = Places(list, named) /\ named \subseteq mine
        BY <3>2, <3>3
      <4>2. /\ named = {} => FirstPlace(places) = 0
            /\ named # {} => /\ FirstPlace(places) \in 1 .. Len(list)
                             /\ list[FirstPlace(places)] = FirstRule(named)
        BY <2>1, <4>1, FirstPlaceIs
      <4> QED
        BY <3>1, <3>3, <4>2
    <3> QED
      BY <3>1, <3>3
  <2>7. named # {} => req.scenario \notin {"", "default", "recorded"}
    OBVIOUS
  <2>8. FindRule(ListMocks(p), tmpl, req, ctx) =
          IF e # 0 THEN list[e] ELSE IF b # 0 THEN list[b]
          ELSE IF c # 0 THEN list[c] ELSE IF d # 0 THEN list[d] ELSE NoRule
    BY FirstChoice
  <2> HIDE DEF ctx, mine, named, defaults, most, recorded, list, e, b, c, d
  <2>9. /\ most # {} => b # 0
        /\ recorded # {} => c # 0
        /\ defaults # {} => d # 0
        /\ named # {} => e # 0
    <3>1. \A i \in 1 .. Len(list) : i # 0
      OBVIOUS
    <3> QED
      BY <2>3, <2>4, <2>5, <2>6, <2>7, <3>1
  <2>10. FindRule(ListMocks(p), tmpl, req, ctx) =
           CASE named # {} -> FirstRule(named)
             [] named = {} /\ req.scenario = "default" /\ defaults # {} -> LastRule(defaults)
             [] OTHER -> IF most # {} THEN FirstRule(most)
                         ELSE IF recorded # {} THEN FirstRule(recorded)
                         ELSE IF defaults # {} THEN LastRule(defaults) ELSE NoRule
    <3>1. CASE named # {}
      <4>1. e # 0 /\ list[e] = FirstRule(named)
        BY <2>6, <2>7, <2>9, <3>1
      <4> QED
        BY <2>8, <3>1, <4>1
    <3>2. CASE named = {} /\ req.scenario = "default" /\ defaults # {}
      <4>1. e # 0 /\ list[e] = LastRule(defaults)
        BY <2>5, <2>6, <2>9, <3>2
      <4> QED
        BY <2>8, <3>2, <4>1
    <3>3. CASE named = {} /\ ~ (req.scenario = "default" /\ defaults # {})
      <4>1. e = 0
        BY <2>5, <2>6, <3>3
      <4>2. FindRule(ListMocks(p), tmpl, req, ctx) =
              IF most # {} THEN FirstRule(most)
              ELSE IF recorded # {} THEN FirstRule(recorded)
              ELSE IF defaults # {} THEN LastRule(defaults) ELSE NoRule
        BY <2>3, <2>4, <2>5, <2>8, <2>9, <4>1
      <4> QED
        BY <3>3, <4>2
    <3> QED
      BY <3>1, <3>2, <3>3
  <2> QED
    BY Zenon, <2>10
       DEF ctx, mine, named, defaults, most, recorded, RulesFor, MostMet, FirstRule, LastRule
<1> QED
  BY <1>1, RulesAreGood, PTL

-----------------------------------------------------------------------------
(***************************************************************************)
(* The answers of an MCP request.                                          *)
(***************************************************************************)

Outcomes == {"error", "result", "result with warnings"}

\* What a message adds to the answers of a run.
Adds(before, after, msg) ==
  /\ "answers" \in DOMAIN after
  /\ Wants(msg) => \E outcome \in Outcomes :
                     after.answers = Append(before.answers, [id |-> AnswerId(msg), outcome |-> outcome])
  /\ ~ Wants(msg) => after.answers = before.answers

\* What the state of a run always has.
HasAnswers(run) == "answers" \in DOMAIN run

LEMMA AnsweringAdds ==
  ASSUME NEW run, HasAnswers(run), NEW id, NEW outcome \in Outcomes
  PROVE  /\ HasAnswers(Answering(run, [id |-> id, outcome |-> outcome]))
         /\ Answering(run, [id |-> id, outcome |-> outcome]).answers
              = Append(run.answers, [id |-> id, outcome |-> outcome])
<1>1. [id |-> id, outcome |-> outcome] # Silence
  BY DEF Silence, Outcomes
<1>2. Answering(run, [id |-> id, outcome |-> outcome])
        = [run EXCEPT !.answers = Append(run.answers, [id |-> id, outcome |-> outcome])]
  BY <1>1 DEF Answering
<1> QED
  BY <1>2 DEF HasAnswers

\* A response to a request object with a method is an answer, unless the object is
\* a notification.
LEMMA ResponseAdds ==
  ASSUME NEW run, HasAnswers(run), NEW msg, NEW outcome \in Outcomes, msg.shape = "object",
         msg.version = "2.0", msg.method # ""
  PROVE  Adds(run, Answering(run, Respond(msg.id, outcome)), msg)
<1>1. CASE IsNotification(msg.id)
  <2>1. Answering(run, Respond(msg.id, outcome)) = run /\ ~ Wants(msg)
    BY <1>1 DEF Answering, Respond, IsNotification, Wants
  <2> QED
    BY <2>1 DEF Adds, HasAnswers
<1>2. CASE ~ IsNotification(msg.id)
  <2>1. Respond(msg.id, outcome) = [id |-> msg.id, outcome |-> outcome]
    BY <1>2 DEF Respond
  <2>2. Wants(msg) /\ AnswerId(msg) = msg.id
    BY <1>2 DEF IsNotification, Wants, AnswerId
  <2> DEFINE after == Answering(run, [id |-> msg.id, outcome |-> outcome])
  <2>3. HasAnswers(after) /\ after.answers = Append(run.answers, [id |-> msg.id, outcome |-> outcome])
    BY AnsweringAdds
  <2> HIDE DEF after
  <2>4. Adds(run, after, msg)
    BY <2>2, <2>3 DEF Adds, HasAnswers
  <2> QED
    BY <2>1, <2>4 DEF after
<1> QED
  BY <1>1, <1>2

\* What a step before the answer leaves alone.
LEMMA SameAnswersAdd ==
  ASSUME NEW run, NEW other, NEW after, NEW msg, other.answers = run.answers,
         Adds(other, after, msg)
  PROVE  Adds(run, after, msg)
BY DEF Adds

LEMMA CallAdds ==
  ASSUME NEW run, HasAnswers(run), NEW m, NEW msg, NEW opts, msg.shape = "object",
         msg.version = "2.0", msg.method # ""
  PROVE  Adds(run, CallTool(run, m, msg, opts), msg)
<1>1. \A r : HasAnswers(r) => /\ Adds(r, Answering(r, Respond(msg.id, "error")), msg)
                              /\ Adds(r, Answering(r, Respond(msg.id, "result")), msg)
                              /\ Adds(r, Answering(r, Respond(msg.id, "result with warnings")), msg)
  BY ResponseAdds DEF Outcomes
<1>2. \A r, tool, key :
        HasAnswers(r) => /\ HasAnswers(Rolled(r, tool, key).run)
                         /\ Rolled(r, tool, key).run.answers = r.answers
  BY DEF Rolled, HasAnswers
<1>3. ASSUME NEW r, HasAnswers(r), NEW rolled, HasAnswers(rolled.run),
             rolled.run.answers = r.answers, NEW result, NEW bad
      PROVE  Adds(r, AnswerCall(rolled, result, bad, msg, opts), msg)
  <2> DEFINE counted == [rolled.run EXCEPT
                           !.counters = Rendered(rolled.run, result, opts.project, msg.args).counters]
  <2>1. HasAnswers(counted) /\ counted.answers = r.answers
    BY <1>3 DEF HasAnswers
  <2>2. AnswerCall(rolled, result, bad, msg, opts) =
          IF rolled.fault = "error" THEN Answering(rolled.run, Respond(msg.id, "error"))
          ELSE Answering(counted, Respond(msg.id, IF bad THEN "result with warnings" ELSE "result"))
    BY DEF AnswerCall
  <2> HIDE DEF counted
  <2>3. Adds(r, Answering(rolled.run, Respond(msg.id, "error")), msg)
    BY <1>1, <1>3, SameAnswersAdd
  <2>4. /\ Adds(r, Answering(counted, Respond(msg.id, "result")), msg)
        /\ Adds(r, Answering(counted, Respond(msg.id, "result with warnings")), msg)
    BY <1>1, <2>1, SameAnswersAdd
  <2> QED
    BY <2>2, <2>3, <2>4
<1>4. ASSUME NEW tool PROVE Adds(run, CallFound(run, tool, msg, opts), msg)
  <2> DEFINE bad == Check(tool, msg.args, opts)
             checked == IF bad THEN [run EXCEPT !.violations = run.violations + 1] ELSE run
             entry == Resolve(tool, opts.scenario, msg.args)
  <2>1. HasAnswers(checked) /\ checked.answers = run.answers
    BY DEF HasAnswers
  <2>2. CallFound(run, tool, msg, opts) =
          IF (bad /\ opts.enforce) \/ ~ entry.ok
          THEN Answering(checked, Respond(msg.id, "error"))
          ELSE AnswerCall(Rolled(checked, tool, entry.key), entry.result, bad, msg, opts)
    BY DEF CallFound
  <2> HIDE DEF bad, checked, entry
  <2>3. Adds(run, Answering(checked, Respond(msg.id, "error")), msg)
    BY <1>1, <2>1, SameAnswersAdd
  <2>4. Adds(run, AnswerCall(Rolled(checked, tool, entry.key), entry.result, bad, msg, opts), msg)
    <3>1. /\ HasAnswers(Rolled(checked, tool, entry.key).run)
          /\ Rolled(checked, tool, entry.key).run.answers = checked.answers
      BY <1>2, <2>1
    <3>2. Adds(checked, AnswerCall(Rolled(checked, tool, entry.key), entry.result, bad, msg, opts),
               msg)
      BY <1>3, <2>1, <3>1
    <3> QED
      BY <2>1, <3>2, SameAnswersAdd
  <2> QED
    BY <2>2, <2>3, <2>4
<1> DEFINE at == SelectInSeq(m.tools, LAMBDA t : t.name = msg.tool)
<1>5. CallTool(run, m, msg, opts) =
        IF msg.tool = NoTool \/ at = 0 THEN Answering(run, Respond(msg.id, "error"))
        ELSE CallFound(run, m.tools[at], msg, opts)
  BY DEF CallTool
<1> HIDE DEF at
<1> QED
  BY <1>1, <1>4, <1>5

\* Every message adds the one answer it is to get, or none.
LEMMA MessageAdds ==
  ASSUME NEW run, HasAnswers(run), NEW m, NEW msg, NEW opts
  PROVE  Adds(run, ExecuteOne(run, m, msg, opts), msg)
<1>1. CASE msg.shape # "object"
  <2>1. ExecuteOne(run, m, msg, opts) = Answering(run, [id |-> NullId, outcome |-> "error"])
    BY <1>1 DEF ExecuteOne, MarshalErr
  <2>2. Wants(msg) /\ AnswerId(msg) = NullId
    BY <1>1 DEF Wants, AnswerId
  <2> QED
    BY <2>1, <2>2, AnsweringAdds DEF Adds, HasAnswers, Outcomes
<1>2. CASE msg.shape = "object" /\ (msg.version # "2.0" \/ msg.method = "")
  <2>1. ExecuteOne(run, m, msg, opts)
          = Answering(run, [id |-> IdOrNull(msg.id), outcome |-> "error"])
    BY <1>2 DEF ExecuteOne, MarshalErr
  <2>2. Wants(msg) /\ AnswerId(msg) = IdOrNull(msg.id)
    BY <1>2 DEF Wants, AnswerId, IdOrNull
  <2> QED
    BY <2>1, <2>2, AnsweringAdds DEF Adds, HasAnswers, Outcomes
<1>3. CASE msg.shape = "object" /\ msg.version = "2.0" /\ msg.method # ""
  <2>1. \/ ExecuteOne(run, m, msg, opts) = CallTool(run, m, msg, opts)
        \/ ExecuteOne(run, m, msg, opts) = Answering(run, Respond(msg.id, "result"))
        \/ ExecuteOne(run, m, msg, opts) = Answering(run, Respond(msg.id, "error"))
    BY <1>3 DEF ExecuteOne
  <2> QED
    BY <1>3, <2>1, CallAdds, ResponseAdds DEF Outcomes
<1> QED
  BY <1>1, <1>2, <1>3

\* The run after the first n messages: the recursive definition has a function for
\* every batch.
LEMMA RunSteps ==
  ASSUME NEW T, NEW items \in Seq(T), NEW run, NEW manifest, NEW opts
  PROVE  /\ RunOfFirst(run, manifest, items, opts)[0] = run
         /\ \A n \in 1 .. Len(items) :
              RunOfFirst(run, manifest, items, opts)[n]
                = ExecuteOne(RunOfFirst(run, manifest, items, opts)[n - 1], manifest, items[n], opts)
<1> DEFINE Step(f, n) ==
             IF n = 0 THEN run ELSE ExecuteOne(f[n - 1], manifest, items[n], opts)
           Defines(f, m) == f = [n \in 0 .. m |-> Step(f, n)]
           Good == {m \in Nat : \E f : Defines(f, m)}
<1>1. Len(items) \in Nat
  OBVIOUS
<1>2. 0 \in Good
  <2>1. Defines([n \in 0 .. 0 |-> run], 0)
    OBVIOUS
  <2> QED
    BY <2>1
<1>3. ASSUME NEW m \in Nat, m \in Good PROVE m + 1 \in Good
  <2>1. PICK f : Defines(f, m)
    BY <1>3
  <2> DEFINE g == [n \in 0 .. m + 1 |-> IF n = m + 1 THEN Step(f, m + 1) ELSE f[n]]
  <2>2. \A n \in 0 .. m : g[n] = f[n] /\ f[n] = Step(f, n)
    <3>1. \A n \in 0 .. m : f[n] = Step(f, n)
      <4> HIDE DEF Step
      <4> QED
        BY <2>1
    <3>2. \A n \in 0 .. m : g[n] = f[n]
      <4> HIDE DEF Step
      <4> QED
        OBVIOUS
    <3> HIDE DEF g, Step
    <3> QED
      BY <3>1, <3>2
  <2>3. \A n \in 0 .. m + 1 : g[n] = Step(g, n)
    <3> SUFFICES ASSUME NEW n \in 0 .. m + 1 PROVE g[n] = Step(g, n)
      OBVIOUS
    <3>1. n = 0 \/ n - 1 \in 0 .. m
      OBVIOUS
    <3>2. Step(g, n) = Step(f, n)
      <4>1. n = 0 \/ g[n - 1] = f[n - 1]
        <5> HIDE DEF g, Step
        <5> QED
          BY <2>2, <3>1
      <4> HIDE DEF g
      <4> QED
        BY <4>1
    <3>3. g[n] = Step(f, n)
      <4>1. CASE n = m + 1
        <5> HIDE DEF Step
        <5> QED
          BY <4>1
      <4>2. CASE n # m + 1
        <5>1. n \in 0 .. m
          BY <4>2
        <5> HIDE DEF g, Step
        <5> QED
          BY <2>2, <5>1
      <4> QED
        BY <4>1, <4>2
    <3> HIDE DEF g, Step
    <3> QED
      BY <3>2, <3>3
  <2>4. Defines(g, m + 1)
    <3>1. g = [n \in 0 .. m + 1 |-> g[n]]
      <4> HIDE DEF Step
      <4> QED
        OBVIOUS
    <3> HIDE DEF g, Step
    <3> QED
      BY <2>3, <3>1
  <2>5. m + 1 \in Nat
    OBVIOUS
  <2> HIDE DEF Defines
  <2> QED
    BY <2>4, <2>5
<1>4. Len(items) \in Good
  <2>1. \A n \in 0 .. Len(items) : n < Len(items) /\ n \in Good => n + 1 \in Good
    <3> HIDE DEF Good
    <3> QED
      BY <1>1, <1>3
  <2>2. 0 .. Len(items) \subseteq Good
    <3> HIDE DEF Good
    <3> QED
      BY <1>1, <1>2, <2>1, UpTo
  <2> HIDE DEF Good
  <2> QED
    BY <1>1, <2>2
<1>5. PICK f : Defines(f, Len(items))
  BY <1>4
<1>6. Defines(RunOfFirst(run, manifest, items, opts), Len(items))
  BY <1>5 DEF RunOfFirst
<1> DEFINE ran == RunOfFirst(run, manifest, items, opts)
<1>7. \A n \in 0 .. Len(items) : ran[n] = Step(ran, n)
  <2> HIDE DEF Step, ran
  <2> QED
    BY <1>6 DEF ran
<1> HIDE DEF ran
<1>8. ran[0] = run
  BY <1>1, <1>7
<1>9. \A n \in 1 .. Len(items) : ran[n] = ExecuteOne(ran[n - 1], manifest, items[n], opts)
  BY <1>1, <1>7
<1> QED
  BY <1>8, <1>9 DEF ran

\* The answers to these messages, in their order.
AnswersTo(answers, wanted) ==
  /\ Len(answers) = Len(wanted)
  /\ \A i \in 1 .. Len(wanted) : answers[i].id = AnswerId(wanted[i])

Answers(T) == [id : {AnswerId(m) : m \in T}, outcome : Outcomes]

LEMMA OneMoreAnswer ==
  ASSUME NEW T, NEW answers \in Seq(Answers(T)), NEW wanted \in Seq(T),
         AnswersTo(answers, wanted), NEW answer \in Answers(T), NEW msg \in T,
         answer.id = AnswerId(msg)
  PROVE  AnswersTo(Append(answers, answer), Append(wanted, msg))
<1> DEFINE A == Answers(T)
           k == Len(wanted) + 1
<1>1. Len(wanted) \in Nat /\ Len(answers) = Len(wanted) /\ 1 .. k = 1 .. Len(wanted) \cup {k}
  BY DEF AnswersTo
<1>2. /\ Len(Append(answers, answer)) = k /\ Append(answers, answer)[k] = answer
      /\ \A i \in 1 .. Len(wanted) : Append(answers, answer)[i] = answers[i]
  <2> HIDE DEF A
  <2>1. answers \in Seq(A) /\ answer \in A
    BY DEF A
  <2> QED
    BY <1>1, <2>1
<1>3. /\ Len(Append(wanted, msg)) = k /\ Append(wanted, msg)[k] = msg
      /\ \A i \in 1 .. Len(wanted) : Append(wanted, msg)[i] = wanted[i]
  BY <1>1
<1> HIDE DEF k
<1> QED
  BY <1>1, <1>2, <1>3 DEF AnswersTo

\* A batch is answered message by message: by induction on how many were executed.
LEMMA BatchIsAnswered ==
  ASSUME NEW T, NEW items \in Seq(T), NEW run, HasAnswers(run), run.answers = <<>>,
         NEW manifest, NEW opts
  PROVE  LET after == RunOfFirst(run, manifest, items, opts)[Len(items)]
         IN /\ after.answers \in Seq(Answers(T))
            /\ AnswersTo(after.answers, Kept(items, {m \in T : Wants(m)}))
<1> DEFINE ran == RunOfFirst(run, manifest, items, opts)
           W == {m \in T : Wants(m)}
           kept == KeptOfFirst(items, W)
           Good == {n \in 0 .. Len(items) : /\ HasAnswers(ran[n])
                                            /\ ran[n].answers \in Seq(Answers(T))
                                            /\ AnswersTo(ran[n].answers, kept[n])}
<1>1. Len(items) \in Nat
  OBVIOUS
<1>2. /\ ran[0] = run
      /\ \A n \in 1 .. Len(items) : ran[n] = ExecuteOne(ran[n - 1], manifest, items[n], opts)
  <2> HIDE DEF Good, kept
  <2> QED
    BY RunSteps
<1>3. /\ kept[0] = <<>>
      /\ \A n \in 1 .. Len(items) :
           kept[n] = IF items[n] \in W THEN Append(kept[n - 1], items[n]) ELSE kept[n - 1]
      /\ \A n \in 0 .. Len(items) : kept[n] \in Seq(T)
  <2> HIDE DEF Good, ran, W
  <2>1. \A n \in 0 .. Len(items) : kept[n] \in Seq(T \cap W)
    BY KeptType
  <2>2. \A w : w \in Seq(T \cap W) => w \in Seq(T)
    OBVIOUS
  <2>3. /\ kept[0] = <<>>
        /\ \A n \in 1 .. Len(items) :
             kept[n] = IF items[n] \in W THEN Append(kept[n - 1], items[n]) ELSE kept[n - 1]
    BY KeptSteps
  <2> HIDE DEF kept
  <2> QED
    BY <2>1, <2>2, <2>3
<1> HIDE DEF ran, kept
<1>4. 0 \in Good
  <2>1. 0 \in 0 .. Len(items) /\ Len(<<>>) = 0 /\ 1 .. 0 = {}
    BY <1>1
  <2>2. <<>> \in Seq(Answers(T))
    OBVIOUS
  <2>3. AnswersTo(<<>>, <<>>)
    BY <2>1 DEF AnswersTo
  <2> QED
    BY <1>2, <1>3, <2>1, <2>2, <2>3
<1>5. ASSUME NEW n \in 0 .. Len(items), n < Len(items), n \in Good PROVE n + 1 \in Good
  <2> DEFINE msg == items[n + 1]
             before == ran[n]
             after == ran[n + 1]
  <2>1. n + 1 \in 1 .. Len(items) /\ n + 1 \in 0 .. Len(items) /\ (n + 1) - 1 = n
    BY <1>1, <1>5
  <2>2. msg \in T /\ (msg \in W <=> Wants(msg))
    BY <2>1
  <2>3. /\ HasAnswers(before) /\ before.answers \in Seq(Answers(T))
        /\ AnswersTo(before.answers, kept[n]) /\ kept[n] \in Seq(T)
    BY <1>3, <1>5
  <2>4. after = ExecuteOne(before, manifest, msg, opts)
    BY <1>2, <2>1
  <2>5. kept[n + 1] = IF Wants(msg) THEN Append(kept[n], msg) ELSE kept[n]
    BY <1>3, <2>1, <2>2
  <2> HIDE DEF msg, before, after, W, Good
  <2>6. Adds(before, after, msg)
    BY <2>3, <2>4, MessageAdds
  <2>7. HasAnswers(after)
    BY <2>6 DEF Adds, HasAnswers
  <2>8. after.answers \in Seq(Answers(T)) /\ AnswersTo(after.answers, kept[n + 1])
    <3>1. CASE Wants(msg)
      <4>1. PICK outcome \in Outcomes :
              after.answers = Append(before.answers, [id |-> AnswerId(msg), outcome |-> outcome])
        BY <2>6, <3>1 DEF Adds
      <4> DEFINE answer == [id |-> AnswerId(msg), outcome |-> outcome]
      <4>2. answer \in Answers(T) /\ answer.id = AnswerId(msg)
        BY <2>2 DEF Answers
      <4> HIDE DEF answer
      <4>3. after.answers = Append(before.answers, answer)
        BY <4>1 DEF answer
      <4>4. AnswersTo(Append(before.answers, answer), Append(kept[n], msg))
        BY <2>2, <2>3, <4>2, OneMoreAnswer
      <4>5. Append(before.answers, answer) \in Seq(Answers(T))
        BY <2>3, <4>2
      <4> QED
        BY <2>5, <3>1, <4>3, <4>4, <4>5
    <3>2. CASE ~ Wants(msg)
      BY <2>3, <2>5, <2>6, <3>2 DEF Adds
    <3> QED
      BY <3>1, <3>2
  <2> QED
    BY <2>1, <2>7, <2>8 DEF Good, after
<1>6. Len(items) \in Good
  <2>1. 0 .. Len(items) \subseteq Good
    <3> HIDE DEF Good
    <3> QED
      BY <1>1, <1>4, <1>5, UpTo
  <2>2. Len(items) \in 0 .. Len(items)
    BY <1>1
  <2> HIDE DEF Good
  <2> QED
    BY <2>1, <2>2
<1> QED
  BY <1>6 DEF ran, kept, Kept

\* The answers of a request are the right ones for its payload.
RightAnswers(payload, answers) ==
  LET ids == [i \in DOMAIN answers |-> answers[i].id]
  IN IF payload.shape = "other" \/ payload.items = <<>> THEN ids = <<NullId>>
     ELSE ids = [i \in DOMAIN Wanting(payload) |-> AnswerId(Wanting(payload)[i])]

\* What an engine without messages to execute answers.
LEMMA RefusalIsRight ==
  ASSUME NEW payload, payload.shape = "other" \/ payload.items = <<>>,
         NEW run, HasAnswers(run), run.answers = <<>>
  PROVE  RightAnswers(payload, Answering(run, MarshalErr(NullId)).answers)
<1> DEFINE answers == Answering(run, MarshalErr(NullId)).answers
<1>1. answers = <<[id |-> NullId, outcome |-> "error"]>>
  <2>1. answers = Append(<<>>, [id |-> NullId, outcome |-> "error"])
    BY AnsweringAdds DEF MarshalErr, Outcomes
  <2> HIDE DEF answers
  <2> QED
    BY <2>1
<1> HIDE DEF answers
<1>2. [i \in DOMAIN answers |-> answers[i].id] = <<NullId>>
  BY <1>1
<1> QED
  BY <1>2 DEF RightAnswers, answers

LEMMA RunAnswersRightly ==
  ASSUME NEW sent \in Messages, NEW run, HasAnswers(run), run.answers = <<>>,
         NEW manifest, NEW opts
  PROVE  RightAnswers(sent.payload, Run(run, manifest, sent.payload, opts).answers)
<1> DEFINE payload == sent.payload
           items == payload.items
           T == Range(items)
           after == RunOfFirst(run, manifest, items, opts)[Len(items)]
           wanted == Wanting(payload)
<1>1. /\ payload.shape \in {"one", "batch", "other"} /\ items \in Seq(T)
      /\ payload.shape = "one" => Len(items) = 1
  BY MessagesAssumption
<1>2. CASE payload.shape = "other" \/ items = <<>>
  <2>1. ~ (payload.shape = "one" /\ items = <<>>)
    BY <1>1
  <2>2. Run(run, manifest, payload, opts) = Answering(run, MarshalErr(NullId))
    BY <1>1, <1>2, <2>1 DEF Run, ExecuteBatch
  <2> QED
    BY <1>2, <2>2, RefusalIsRight
<1>3. CASE payload.shape \in {"one", "batch"} /\ items # <<>>
  <2>1. Run(run, manifest, payload, opts) = after
    <3>1. CASE payload.shape = "batch"
      <4>1. Run(run, manifest, payload, opts) = ExecuteBatch(run, manifest, items, opts)
        BY <3>1 DEF Run
      <4>2. ExecuteBatch(run, manifest, items, opts) = after
        BY <1>3 DEF ExecuteBatch
      <4> QED
        BY <4>1, <4>2
    <3>2. CASE payload.shape = "one"
      <4>1. Run(run, manifest, payload, opts) = ExecuteOne(run, manifest, items[1], opts)
        BY <3>2 DEF Run
      <4>2. Len(items) = 1 /\ 1 \in 1 .. Len(items) /\ 1 - 1 = 0
        <5>1. Len(items) = 1
          BY <1>1, <3>2
        <5> HIDE DEF items
        <5> QED
          BY <5>1
      <4>3. /\ RunOfFirst(run, manifest, items, opts)[0] = run
            /\ \A n \in 1 .. Len(items) :
                 RunOfFirst(run, manifest, items, opts)[n]
                   = ExecuteOne(RunOfFirst(run, manifest, items, opts)[n - 1], manifest, items[n],
                                opts)
        <5> HIDE DEF items, T
        <5> QED
          BY <1>1, RunSteps
      <4>4. after = ExecuteOne(run, manifest, items[1], opts)
        BY <4>2, <4>3
      <4> QED
        BY <4>1, <4>4
    <3> QED
      BY <1>3, <3>1, <3>2
  <2>2. wanted = Kept(items, {m \in T : Wants(m)})
    BY DEF Wanting
  <2>3. after.answers \in Seq(Answers(T)) /\ AnswersTo(after.answers, wanted)
    <3> HIDE DEF items, T, wanted
    <3> QED
      BY <1>1, <2>2, BatchIsAnswered
  <2>4. wanted \in Seq(T)
    <3>1. wanted \in Seq(T \cap {m \in T : Wants(m)})
      <4> HIDE DEF items, T, wanted
      <4> QED
        BY <1>1, <2>2, KeptType
    <3>2. T \cap {m \in T : Wants(m)} \subseteq T
      OBVIOUS
    <3> HIDE DEF T, wanted
    <3> QED
      BY <3>1, <3>2
  <2> HIDE DEF after, wanted, T
  <2>5. DOMAIN after.answers = DOMAIN wanted /\ DOMAIN wanted = 1 .. Len(wanted)
    BY <2>3, <2>4 DEF AnswersTo
  <2>6. [i \in DOMAIN after.answers |-> after.answers[i].id]
          = [i \in DOMAIN wanted |-> AnswerId(wanted[i])]
    BY <2>3, <2>5 DEF AnswersTo
  <2>7. RightAnswers(payload, after.answers)
    BY <1>3, <2>6 DEF RightAnswers, wanted
  <2> QED
    BY <2>1, <2>7
<1> QED
  BY <1>1, <1>2, <1>3

\* An MCP call that is answered, and not refused for its project, holds the payload
\* and the right answers to it.
AnsweredRightly(c) ==
  c.at = "latency" /\ c.kind = "mcp" /\ c.logged \notin {400, 404} =>
    {"payload", "answers"} \subseteq DOMAIN c /\ RightAnswers(c.payload, c.answers)

CallsAnswered == \A t \in Thread : AnsweredRightly(call[t])

LEMMA AnsweredStep ==
  ASSUME CallsAnswered, Calls, NEW t \in Thread, NEW c, AnsweredRightly(c), To(t, c)
  PROVE  CallsAnswered'
BY DEF CallsAnswered, Calls, To

\* What is not an MCP call with an answer.
LEMMA OtherCall ==
  ASSUME CallsAnswered, Calls, NEW t \in Thread, NEW c,
         c.at # "latency" \/ c.kind # "mcp" \/ c.logged \in {400, 404}, To(t, c)
  PROVE  CallsAnswered'
<1>1. AnsweredRightly(c)
  BY DEF AnsweredRightly
<1> QED
  BY <1>1, AnsweredStep

LEMMA ReceiveAnswers ==
  ASSUME CallsAnswered, Calls, NEW t \in Thread, Receive(t)
  PROVE  CallsAnswered'
<1>1. ASSUME NEW resp, Finish(t, "rest", resp) PROVE CallsAnswered'
  <2> DEFINE c == [at |-> "latency", kind |-> "rest", resp |-> resp, logged |-> resp.status,
                   gone |-> FALSE]
  <2>1. To(t, c) /\ c.kind # "mcp"
    BY <1>1 DEF Finish
  <2> HIDE DEF c
  <2> QED
    BY <2>1, OtherCall
<1>2. ASSUME NEW p, NEW req, NotDescribed(t, p, req) \/ RejectInvalidRequest(t, p, req)
      PROVE  CallsAnswered'
  BY <1>1, <1>2 DEF NotDescribed, RejectInvalidRequest
<1>3. ASSUME NEW p, NEW req, NEW tmpl, RespondWithExample(t, p, req, tmpl) PROVE CallsAnswered'
  BY <1>1, <1>3 DEF RespondWithExample
<1>4. ASSUME NEW p, NEW req, NEW tmpl, RespondFromRule(t, p, req, tmpl) PROVE CallsAnswered'
  <2>1. \/ \E resp : Finish(t, "rest", resp)
        \/ \E ctx, parts, resp : To(t, [at |-> "rendering", project |-> p, ctx |-> ctx,
                                        parts |-> parts, scan |-> Scanning, resp |-> resp])
    BY <1>4 DEF RespondFromRule
  <2>2. ASSUME NEW ctx, NEW parts, NEW resp,
               To(t, [at |-> "rendering", project |-> p, ctx |-> ctx, parts |-> parts,
                      scan |-> Scanning, resp |-> resp])
        PROVE  CallsAnswered'
    BY <2>2, OtherCall
  <2> QED
    BY <1>1, <2>1, <2>2
<1>5. ASSUME NEW p, RefuseProject(t, p) PROVE CallsAnswered'
  <2> DEFINE resp == [Response(NotMcpStatus(p), "") EXCEPT !.body = "error"]
             c == [at |-> "latency", kind |-> "mcp", resp |-> resp, logged |-> resp.status,
                   gone |-> FALSE]
  <2>1. To(t, c)
    BY <1>5 DEF RefuseProject, Finish
  <2>2. resp.status = NotMcpStatus(p)
    BY DEF Response
  <2>3. NotMcpStatus(p) \in {400, 404}
    <3>1. NotMcpStatus(p) # 0
      BY <1>5 DEF RefuseProject
    <3> QED
      BY <3>1 DEF NotMcpStatus
  <2> HIDE DEF resp
  <2>4. c.logged \in {400, 404}
    BY <2>2, <2>3
  <2> HIDE DEF c
  <2> QED
    BY <2>1, <2>4, OtherCall
<1>6. ASSUME NEW p, NEW sent \in Messages, NEW draws, Handle(t, p, sent, draws)
      PROVE  CallsAnswered'
  <2> DEFINE new == NewRun(counters.mcp, draws)
             run == Run(new, ContractOf[active[p]].manifest, sent.payload,
                        McpOptions(p, sent.scenario))
  <2>1. PICK resp, logged, matched :
          To(t, [at |-> "latency", kind |-> "mcp", resp |-> resp, payload |-> sent.payload,
                 answers |-> run.answers, logged |-> logged, matched |-> matched, gone |-> FALSE])
    BY <1>6 DEF Handle
  <2> DEFINE c == [at |-> "latency", kind |-> "mcp", resp |-> resp, payload |-> sent.payload,
                   answers |-> run.answers, logged |-> logged, matched |-> matched, gone |-> FALSE]
  <2>2. HasAnswers(new) /\ new.answers = <<>>
    BY DEF NewRun, HasAnswers
  <2> HIDE DEF new
  <2>3. RightAnswers(sent.payload, run.answers)
    BY <2>2, RunAnswersRightly
  <2> HIDE DEF run
  <2>4. AnsweredRightly(c)
    BY <2>3 DEF AnsweredRightly
  <2> HIDE DEF c
  <2>5. To(t, c)
    BY <2>1 DEF c
  <2> QED
    BY <2>4, <2>5, AnsweredStep
<1> QED
  BY <1>2, <1>3, <1>4, <1>5, <1>6 DEF Receive

LEMMA ServeAnswers ==
  ASSUME CallsAnswered, Calls, NEW t \in Thread, Serve(t)
  PROVE  CallsAnswered'
<1>1. CASE RenderNext(t)
  <2>1. PICK parts, scan : /\ call[t].at = "rendering"
                           /\ To(t, [call[t] EXCEPT !.parts = parts, !.scan = scan])
    BY <1>1, RenderMoves
  <2> DEFINE c == [call[t] EXCEPT !.parts = parts, !.scan = scan]
  <2>2. "at" \in DOMAIN call[t]
    BY <2>1 DEF Calls, GoodCall
  <2>3. c.at = "rendering"
    BY <2>1, <2>2
  <2> HIDE DEF c
  <2>4. To(t, c)
    BY <2>1 DEF c
  <2> QED
    BY <2>3, <2>4, OtherCall
<1>2. CASE FinishRendered(t)
  <2>1. PICK resp : Finish(t, "rest", resp)
    BY <1>2 DEF FinishRendered
  <2> DEFINE c == [at |-> "latency", kind |-> "rest", resp |-> resp, logged |-> resp.status,
                   gone |-> FALSE]
  <2>2. To(t, c) /\ c.kind # "mcp"
    BY <2>1 DEF Finish
  <2> HIDE DEF c
  <2> QED
    BY <2>2, OtherCall
<1>3. ASSUME call[t].at = "latency", NEW at \in {"holding", "writing"}, After(t, at)
      PROVE  CallsAnswered'
  <2> DEFINE c == [call[t] EXCEPT !.at = at]
  <2>1. "at" \in DOMAIN call[t]
    BY <1>3 DEF Calls, GoodCall
  <2>2. c.at # "latency"
    BY <2>1
  <2> HIDE DEF c
  <2>3. To(t, c)
    BY <1>3 DEF After, c
  <2> QED
    BY <2>2, <2>3, OtherCall
<1>4. ASSUME NEW wire, NEW status, Closed(t, wire, status) PROVE CallsAnswered'
  BY <1>4, OtherCall DEF Closed
<1>5. CASE Slept(t)
  BY <1>3, <1>4, <1>5 DEF Slept
<1>6. CASE Interrupted(t) \/ Held(t)
  BY <1>4, <1>6 DEF Interrupted, Held
<1>7. CASE Write(t)
  BY <1>4, <1>7 DEF Write, WriteTruncated
<1>8. CASE Return(t)
  BY <1>8, OtherCall DEF Return, Idle
<1> QED
  BY <1>1, <1>2, <1>5, <1>6, <1>7, <1>8 DEF Serve

LEMMA GiveUpAnswers ==
  ASSUME CallsAnswered, Calls, NEW t \in Thread, GiveUp(t)
  PROVE  CallsAnswered'
<1> DEFINE c == [call[t] EXCEPT !.gone = TRUE]
<1>1. /\ call[t].at \in {"latency", "holding", "writing"} /\ To(t, c) /\ GoodCall(call[t])
      /\ AnsweredRightly(call[t])
  BY DEF GiveUp, Calls, CallsAnswered
<1>2. {"at", "kind", "resp", "logged", "gone"} \subseteq DOMAIN call[t]
  BY <1>1 DEF GoodCall
<1>3. /\ c.at = call[t].at /\ c.kind = call[t].kind /\ c.logged = call[t].logged
      /\ DOMAIN c = DOMAIN call[t]
      /\ {"payload", "answers"} \subseteq DOMAIN call[t]
           => c.payload = call[t].payload /\ c.answers = call[t].answers
  BY <1>2
<1> HIDE DEF c
<1>4. AnsweredRightly(c)
  BY <1>1, <1>3 DEF AnsweredRightly
<1> QED
  BY <1>1, <1>4, AnsweredStep

\* Every message of an MCP request that is to be answered has its one answer, under
\* its id and in its place, and the others have none: for every batch, of whatever
\* messages, whatever the manifest says of its tools and the draws of their faults.
THEOREM EveryRequestAnsweredOnce == Spec => []OneAnswerPerRequest
<1>1. Init => CallsAnswered
  BY DEF Init, CallsAnswered, AnsweredRightly, Idle
<1>2. CallsAnswered /\ Calls /\ [Next]_vars => CallsAnswered'
  <2> SUFFICES ASSUME CallsAnswered, Calls, [Next]_vars PROVE CallsAnswered'
    OBVIOUS
  <2>1. CASE Administer
    <3>1. UNCHANGED call
      BY <2>1 DEF Administer, Publish, CreateMock, UpdateMock, DeleteMock
    <3> QED
      BY <3>1 DEF CallsAnswered
  <2>2. ASSUME NEW t \in Thread, Receive(t) \/ Serve(t) \/ GiveUp(t) PROVE CallsAnswered'
    BY <2>2, ReceiveAnswers, ServeAnswers, GiveUpAnswers
  <2>3. CASE UNCHANGED vars
    BY <2>3 DEF vars, CallsAnswered
  <2> QED
    BY <2>1, <2>2, <2>3 DEF Next
<1>3. CallsAnswered => OneAnswerPerRequest
  BY DEF CallsAnswered, AnsweredRightly, RightAnswers, OneAnswerPerRequest
<1> QED
  BY <1>1, <1>2, <1>3, CallsAreGood, PTL DEF Spec
=============================================================================
