------------------------------ MODULE MockServer ------------------------------
(***************************************************************************)
(* The mock server for REST and MCP contracts, from the HTTP request to    *)
(* the last byte: the handlers (adapter/httpapi/handlers_mockserver.go,    *)
(* handlers_mcp.go, handlers_mocks.go), the services behind them           *)
(* (usecase/mockserving_service.go, usecase/mcp.go, usecase/mock_service.go*)
(* with the repository's mock rules), and the counters of the templates.   *)
(*                                                                         *)
(* Each thread is a handler goroutine.  A repository call and a use of a   *)
(* counter hold a mutex and are one step; the latency, the hold of a       *)
(* timeout and the writes to the connection are steps of their own, during *)
(* which the client may give up.  Random numbers are drawn by \E.          *)
(* Recording and the stored state are left to RecordReplay and StateStore: *)
(* a request that no rule answers is answered with the schema's example.   *)
(***************************************************************************)
EXTENDS MockRules, McpEngine

CONSTANTS
  Thread,
  Project,
  ContractOf,    \* [contract -> [format, ops, manifest]]
  Uploads,       \* pairs <<project, contract>>: what may be published
  RuleBodies,    \* the rules clients send
  Stored,        \* [rules, active]: what the repository may hold at the start
  Requests,      \* the requests clients send to a REST mock
  Messages,      \* [payload, scenario]: what clients send to an MCP mock
  Violating,     \* the requests that violate the contract
  ModesAtStart,  \* the validation modes the projects may have
  MaxEvents,     \* bound: requests begun, rules changed, contracts published
  None,          \* no contract
  NoProject      \* the project of a rule whose body named none

\* A rule is decoded into a struct, which has all its fields; its conditions are a
\* list.
ASSUME RuleBodiesAssumption ==
  \A body \in RuleBodies :
    /\ DOMAIN body = {"id", "project", "method", "path", "scenario", "match", "recording", "status",
                      "type", "header", "body", "raw", "settings", "created"}
    /\ Len(body.match) \in Nat

\* The repository holds rules that were saved: under ids of their own, with a
\* scenario.
ASSUME StoredAssumption ==
  \A s \in Stored :
    /\ DOMAIN s.active = Project
    /\ IsFiniteSet(s.rules)
    /\ \A r \in s.rules : /\ r.id \in Nat /\ r.created \in Nat /\ Len(r.match) \in Nat
                          /\ r.scenario # ""
    /\ \A r, q \in s.rules : r.id = q.id => r = q

\* A payload is one message, an array of messages, or what is neither.
ASSUME MessagesAssumption ==
  \A sent \in Messages :
    /\ sent.payload.shape \in {"one", "batch", "other"}
    /\ sent.payload.items \in Seq(Range(sent.payload.items))
    /\ sent.payload.shape = "one" => Len(sent.payload.items) = 1

VARIABLES
  rules,      \* the mock rules, a set
  active,     \* the active contract of each project, or None
  mode,       \* the projects' validation mode
  counters,   \* the counters, of the REST and of the MCP service's own engine
  call,       \* what each thread is at
  nextId,     \* the id, and the time, of the next rule
  events,     \* requests begun, rules changed, contracts published
  shown       \* history: every use of a counter, and the number it gave

store == <<rules, active, nextId>>
vars == <<store, mode, counters, call, events, shown>>

Idle == [at |-> "idle"]
To(t, c) == call' = [call EXCEPT ![t] = c]

\* The order of the project's list.  Paths are compared as texts; the rules of one
\* path stand in the order of their creation, then of their ids.
Before(r, s) == r.created < s.created \/ (r.created = s.created /\ r.id < s.id)

\* The i-th rule is the one with i - 1 rules before it.
ListMocks(p) ==
  LET mine == {r \in rules : r.project = p}
  IN [i \in 1 .. Cardinality(mine) |->
        CHOOSE r \in mine : Cardinality({q \in mine : Before(q, r)}) = i - 1]
-----------------------------------------------------------------------------
(* The administration of rules and contracts                                 *)

Event == events < MaxEvents /\ events' = events + 1

\* POST: the project is the URL's, the id and the time are new.
CreateMock(p, body) ==
  /\ Event
  /\ ValidateRule(body)
  /\ rules' = rules \cup {[WithScenario(body) EXCEPT !.id = nextId, !.project = p,
                                                     !.created = nextId]}
  /\ nextId' = nextId + 1
  /\ UNCHANGED <<active, mode, counters, call, shown>>

\* PUT: the body takes the place of the stored rule, also in what it leaves out: the
\* project and the time of creation.
UpdateMock(r, body, p, created) ==
  /\ Event
  /\ ValidateRule(body)
  /\ rules' = (rules \ {r}) \cup {[WithScenario(body) EXCEPT !.id = r.id, !.project = p,
                                                            !.created = created]}
  /\ UNCHANGED <<active, mode, counters, call, nextId, shown>>

DeleteMock(r) ==
  /\ Event
  /\ rules' = rules \ {r}
  /\ UNCHANGED <<active, mode, counters, call, nextId, shown>>

\* A contract of MCP is published when its manifest parses.
Publishable(c) ==
  ContractOf[c].format = "mcp" => ValidateManifest(ContractOf[c].manifest).valid

Publish(p, c) ==
  /\ Event
  /\ Publishable(c)
  /\ active' = [active EXCEPT ![p] = c]
  /\ UNCHANGED <<rules, mode, counters, call, nextId, shown>>
-----------------------------------------------------------------------------
(* A request to the REST mock                                                *)

Begin(t) == call[t] = Idle /\ Event

\* finish: the request is logged, and the response is ready.
Finish(t, kind, resp) ==
  To(t, [at |-> "latency", kind |-> kind, resp |-> resp, logged |-> resp.status, gone |-> FALSE])

\* The templates of the contract that may be found for a request; a contract of
\* another format describes no operation.
Described(p, req) ==
  IF active[p] = None THEN {}
  ELSE FindOperation(ContractOf[active[p]].ops, Upper[req.method], req.path)

NotDescribed(t, p, req) ==
  /\ Begin(t) /\ Described(p, req) = {}
  /\ Finish(t, "rest", [Response(404, "") EXCEPT !.body = "error"])
  /\ UNCHANGED <<store, mode, counters, shown>>

Violations(p, req) == mode[p] # "off" /\ req \in Violating

RejectInvalidRequest(t, p, req) ==
  /\ Begin(t) /\ Described(p, req) # {}
  /\ Violations(p, req) /\ mode[p] = "enforce"
  /\ Finish(t, "rest", [Response(400, "request-validation") EXCEPT !.body = "error"])
  /\ UNCHANGED <<store, mode, counters, shown>>

WithWarnings(resp, violated) == [resp EXCEPT !.warned = violated]

Accepted(t, p, req) ==
  /\ Begin(t)
  /\ ~ (Violations(p, req) /\ mode[p] = "enforce")

\* No rule answers: an example of the schema.
RespondWithExample(t, p, req, tmpl) ==
  /\ Accepted(t, p, req) /\ tmpl \in Described(p, req)
  /\ FindRule(ListMocks(p), tmpl, req, Context(p, tmpl, req)) = NoRule
  /\ Finish(t, "rest", WithWarnings(Response(200, "schema-example"), Violations(p, req)))
  /\ UNCHANGED <<store, mode, counters, shown>>

\* The rule is chosen, its latency and its fault are drawn, and a status for an error.
RespondFromRule(t, p, req, tmpl) ==
  LET ctx == Context(p, tmpl, req)
      warned(resp) == WithWarnings(resp, Violations(p, req))
  IN /\ Accepted(t, p, req) /\ tmpl \in Described(p, req)
     /\ \E r \in {FindRule(ListMocks(p), tmpl, req, ctx)} :
          /\ r # NoRule
          /\ \E delay \in Latencies(r.settings), roll \in 0..(PercentBase - 1) :
               LET fault == RollFault(r.settings, roll)
               IN IF fault \in Replacing
                  THEN \E status \in IF fault = "error" THEN ErrorStatus(r.settings) ELSE {0} :
                         Finish(t, "rest", warned(FaultResponse(r, fault, delay, status)))
                  ELSE To(t, [at |-> "rendering", project |-> p, ctx |-> ctx, parts |-> Parts(r),
                              scan |-> Scanning, resp |-> warned(RuleResponse(r, fault, delay))])
     /\ UNCHANGED <<store, mode, counters, shown>>

\* The next element of what is rendered; a counter moves under the engine's mutex.
RenderNext(t) ==
  LET c == call[t]
      part == Head(c.parts)
      elem == Head(part.src)
      ctx == [c.ctx EXCEPT !.json = part.json]
      after == CountersAfter(elem, ctx, counters.rest)
  IN /\ c.at = "rendering" /\ c.parts # <<>>
     /\ IF part.src = <<>>
        THEN /\ To(t, [c EXCEPT !.parts = Tail(c.parts), !.scan = Scanning])
             /\ UNCHANGED <<counters, shown>>
        ELSE /\ To(t, [c EXCEPT !.parts[1].src = Tail(part.src),
                                !.scan = RenderElement(c.scan, elem, ctx, counters.rest)])
             /\ counters' = [counters EXCEPT !.rest = after]
             /\ shown' = IF Moves(elem)
                         THEN Append(shown, <<c.project, CounterName(elem.args),
                                              Value(elem, ctx, counters.rest).value>>)
                         ELSE shown
     /\ UNCHANGED <<store, mode, events>>

FinishRendered(t) ==
  /\ call[t].at = "rendering" /\ call[t].parts = <<>>
  /\ Finish(t, "rest", call[t].resp)
  /\ UNCHANGED <<store, mode, counters, events, shown>>
-----------------------------------------------------------------------------
(* A request to the MCP mock                                                 *)

\* The status of a project without an active MCP contract, or 0.
NotMcpStatus(p) ==
  CASE active[p] = None -> 404
    [] active[p] # None -> IF ContractOf[active[p]].format # "mcp" THEN 400 ELSE 0

RefuseProject(t, p) ==
  /\ Begin(t) /\ NotMcpStatus(p) # 0
  /\ Finish(t, "mcp", [Response(NotMcpStatus(p), "") EXCEPT !.body = "error"])
  /\ UNCHANGED <<store, mode, counters, shown>>

McpOptions(p, scenario) ==
  [project |-> p, scenario |-> scenario, validate |-> mode[p] # "off",
   enforce |-> mode[p] = "enforce"]

\* The manifest is executed, with its draws; the client is told of violations in a
\* header.
Handle(t, p, sent, draws) ==
  /\ Begin(t) /\ NotMcpStatus(p) = 0
  /\ \E run \in {Run(NewRun(counters.mcp, draws), ContractOf[active[p]].manifest, sent.payload,
                     McpOptions(p, sent.scenario))} :
       LET applied == Apply(run)
       IN /\ counters' = [counters EXCEPT !.mcp = run.counters]
          /\ To(t, [at |-> "latency", kind |-> "mcp",
                    resp |-> [Response(applied.status, "") EXCEPT
                                !.fault = applied.fault, !.delay = applied.delay,
                                !.hold = applied.hold, !.body = applied.body,
                                !.warned = run.violations > 0],
                    payload |-> sent.payload, answers |-> run.answers,
                    logged |-> applied.status, matched |-> Matched(sent.payload, run),
                    gone |-> FALSE])
  /\ UNCHANGED <<store, mode, shown>>
-----------------------------------------------------------------------------
(* The end of both handlers                                                  *)

After(t, at) == To(t, [call[t] EXCEPT !.at = at])

\* wire: what the client has got when the connection ends, and status: the status
\* it was sent, or 0.
Closed(t, wire, status) ==
  To(t, [at |-> "closed", kind |-> call[t].kind, wire |-> wire, status |-> status,
         resp |-> call[t].resp, logged |-> call[t].logged, gone |-> call[t].gone])

\* The client goes away; its context is cancelled.
GiveUp(t) ==
  /\ call[t].at \in {"latency", "holding", "writing"} /\ ~ call[t].gone
  /\ To(t, [call[t] EXCEPT !.gone = TRUE])
  /\ UNCHANGED <<store, mode, counters, events, shown>>

SleepContext(t) == call[t].resp.delay > 0 => ~ call[t].gone

\* injectConnectionFault: the latency is over; a fault of the connection ends the
\* request here.
Slept(t) ==
  /\ call[t].at = "latency" /\ SleepContext(t)
  /\ CASE call[t].resp.fault = "drop" -> Closed(t, "reset", 0)
       [] call[t].resp.fault = "timeout" -> After(t, "holding")
       [] OTHER -> After(t, "writing")
  /\ UNCHANGED <<store, mode, counters, events, shown>>

\* The client gave up while the mock was slow.
Interrupted(t) ==
  /\ call[t].at = "latency" /\ ~ SleepContext(t)
  /\ Closed(t, "nothing", 0)
  /\ UNCHANGED <<store, mode, counters, events, shown>>

HeldUntilGone(t) == call[t].at = "holding" /\ call[t].gone
HoldEnds(t) == call[t].at = "holding"

\* The hold is over, or the client gave up: the connection is dropped.
Held(t) ==
  /\ HoldEnds(t)
  /\ Closed(t, "reset", 0)
  /\ UNCHANGED <<store, mode, counters, events, shown>>

WriteInFull(t, status) == Closed(t, "whole", status)

\* The whole length is promised, half of it sent, and the connection dropped.
WriteTruncated(t, status) == Closed(t, "half", status)

\* An MCP request without an answer is closed with 202 and no body, whatever the
\* faults made of its status.
Write(t) ==
  LET resp == call[t].resp
      unanswered == call[t].kind = "mcp" /\ resp.body = "none"
  IN /\ call[t].at = "writing"
     /\ IF unanswered THEN Closed(t, "whole", 202)
        ELSE IF resp.fault = "truncated" THEN WriteTruncated(t, resp.status)
        ELSE Closed(t, "whole", resp.status)
     /\ UNCHANGED <<store, mode, counters, events, shown>>

Return(t) ==
  /\ call[t].at = "closed"
  /\ To(t, Idle)
  /\ UNCHANGED <<store, mode, counters, events, shown>>
-----------------------------------------------------------------------------
Init ==
  /\ \E s \in Stored : rules = s.rules /\ active = s.active
  /\ \A r \in rules : ValidateRule(r)
  /\ \A p \in Project : active[p] # None => Publishable(active[p])
  /\ mode \in ModesAtStart
  /\ counters = [rest |-> NoCounters, mcp |-> NoCounters]
  /\ call = [t \in Thread |-> Idle]
  /\ events = 0
  /\ nextId = Max({0} \cup {r.id : r \in rules}) + 1
  /\ shown = <<>>

Administer ==
  \/ \E u \in Uploads : Publish(u[1], u[2])
  \/ \E p \in Project, body \in RuleBodies : CreateMock(p, body)
  \/ \E r \in rules, body \in RuleBodies :
       \/ UpdateMock(r, body, r.project, r.created)
       \/ UpdateMock(r, body, NoProject, 0)
  \/ \E r \in rules : DeleteMock(r)

Draws(n) == [1..n -> [roll : 0..(PercentBase - 1), jitter : {0}, status : {503}]]

Receive(t) ==
  \E p \in Project :
    \/ \E req \in Requests :
         \/ NotDescribed(t, p, req)
         \/ RejectInvalidRequest(t, p, req)
         \/ \E tmpl \in Described(p, req) :
              \/ RespondWithExample(t, p, req, tmpl)
              \/ RespondFromRule(t, p, req, tmpl)
    \/ RefuseProject(t, p)
    \/ \E sent \in Messages : \E draws \in Draws(CallsOf(sent.payload)) : Handle(t, p, sent, draws)

Serve(t) ==
  \/ RenderNext(t) \/ FinishRendered(t) \/ Slept(t) \/ Interrupted(t) \/ Held(t)
  \/ Write(t) \/ Return(t)

Next == Administer \/ \E t \in Thread : Receive(t) \/ Serve(t) \/ GiveUp(t)

\* A handler that can take a step takes it: goroutines are scheduled, timers fire.
Spec == Init /\ [][Next]_vars /\ \A t \in Thread : WF_vars(Serve(t))
-----------------------------------------------------------------------------
(* What the mock server promises                                             *)

\* What is said of the rules alone is checked while no request is open: rules change
\* in the same way whether one is or not.
Quiet == \A t \in Thread : call[t] = Idle

\* The rules that could answer a request, the strongest claim first: a rule asked
\* for by name, the default when it is asked for, rules whose conditions are met,
\* the one with the most of them before the others, the recording of the very
\* request, the default.  The first created one wins within a rank, but of
\* defaults the last one ("An explicit scenario wins; otherwise the rule with the
\* most conditions that all match the request; otherwise the rule recorded for
\* exactly this request; otherwise the unconditional default rule",
\* mockserving_service.go, findRule).
SelectsByRank == Quiet =>
  \A p \in Project, req \in Requests : \A tmpl \in Described(p, req) :
    LET ctx == Context(p, tmpl, req)
        mine == {r \in rules : /\ r.project = p /\ r.path = tmpl
                               /\ EqualFold(r.method, req.method)}
        named == {r \in mine : /\ req.scenario \notin {"", "default", "recorded"}
                               /\ r.scenario = req.scenario}
        defaults == {r \in mine : r.match = <<>> /\ r.scenario = "default"}
        met == {r \in mine : r.match # <<>> /\ MatchesAll(ctx, r.match)}
        most == {r \in met : \A s \in met : Len(s.match) <= Len(r.match)}
        recorded == {r \in mine : /\ r.recording # NoRecording
                                  /\ r.recording = RequestKey(ctx)}
        first(set) == CHOOSE r \in set : \A s \in set : ~ Before(s, r)
        last(set) == CHOOSE r \in set : \A s \in set : ~ Before(r, s)
    IN FindRule(ListMocks(p), tmpl, req, ctx) =
         CASE named # {} -> first(named)
           [] named = {} /\ req.scenario = "default" /\ defaults # {} -> last(defaults)
           [] OTHER -> IF most # {} THEN first(most)
                       ELSE IF recorded # {} THEN first(recorded)
                       ELSE IF defaults # {} THEN last(defaults) ELSE NoRule

\* A fault hits exactly as many of the rolls as its rate says, for every rule that
\* was saved and every fault of a published manifest ("The rates are exclusive
\* slices of one 0-99 roll", usecase/fault.go, rollFault).
SlicesExact(s) ==
  LET hits(fault) == Cardinality({roll \in 0..(PercentBase - 1) : RollFault(s, roll) = fault})
      f == FaultOf(s)
  IN /\ hits("drop") = f.drop /\ hits("timeout") = f.timeout /\ hits("error") = s.error
     /\ hits(MalformedFault(f.mode)) = f.malformed

FaultSlicesExact == Quiet =>
  /\ \A r \in rules : SlicesExact(r.settings)
  /\ \A p \in Project : active[p] # None /\ ContractOf[active[p]].format = "mcp" =>
       \A tool \in Range(ContractOf[active[p]].manifest.tools) :
         \A f \in {tool.fault} \cup {e.fault : e \in Range(tool.entries)} :
           f # NoFault => SlicesExact(Settings(f))

\* A body that was saved as JSON is JSON once it is rendered, whatever the request
\* ("the body has to be valid JSON once they are filled in", mock_service.go).
\* Not of a body where a backslash stands before a placeholder: what is filled in
\* becomes the escape's character.
SavedBodiesStayJson == Quiet =>
  \A r \in rules : r.type # "text" /\ ~ r.raw /\ r.body # <<>> =>
    \/ \E i \in 1..(Len(r.body) - 1) : r.body[i] = Char("backslash") /\ r.body[i + 1].tag # ""
    \/ \A req \in Requests :
         ValidJson(Render(r.body, [Context(r.project, r.path, req) EXCEPT !.json = TRUE],
                          NoCounters).s.out)

\* The n-th use of a counter in a project gives n, however many responses are
\* rendered at once and whatever other projects do ("per-project counter, +1 on
\* every use", usecase/template.go).
CountersCountUses ==
  \A i \in DOMAIN shown :
    shown[i][3] = Number(2 * Cardinality({j \in 1..i : /\ shown[j][1] = shown[i][1]
                                                       /\ shown[j][2] = shown[i][2]}))

\* The messages of a payload that are to be answered, in their order: requests with
\* an id, and what is not a valid request at all.
Wants(m) ==
  m.shape # "object" \/ m.version # "2.0" \/ m.method = "" \/ m.id \notin {NoId, NullId}

Wanting(payload) == Kept(payload.items, {m \in Range(payload.items) : Wants(m)})

\* An answer goes by the message's id, where it has one.
AnswerId(m) == IF m.shape # "object" \/ m.id = NoId THEN NullId ELSE m.id

\* A payload is answered once for each request in it, in their order, and not at all
\* for a notification ("JSON-RPC 2.0 forbids replying to notifications", engine.go);
\* one that does not decode, or is empty, has one answer.
OneAnswerPerRequest ==
  \A t \in Thread : call[t].at = "latency" /\ call[t].kind = "mcp" /\ call[t].logged \notin {400, 404} =>
    LET payload == call[t].payload
        ids == [i \in DOMAIN call[t].answers |-> call[t].answers[i].id]
    IN IF payload.shape = "other" \/ payload.items = <<>> THEN ids = <<NullId>>
       ELSE ids = [i \in DOMAIN Wanting(payload) |-> AnswerId(Wanting(payload)[i])]

\* What the log says is what the client got, unless it gave up while it waited for
\* the latency: a reset for a drop or a timeout, half the body for a truncated
\* one, and else the whole answer with the status that was logged.  Not for an MCP
\* request without an answer, which gets 202 whatever was logged.
ClientGetsWhatIsLogged ==
  \A t \in Thread : call[t].at = "closed" =>
    LET c == call[t]
    IN \/ c.wire = "nothing" /\ c.gone
       \/ c.wire = "reset" /\ c.resp.fault \in {"drop", "timeout"} /\ c.logged = 0
       \/ c.wire = "half" /\ c.resp.fault = "truncated" /\ c.status = c.logged
       \/ c.wire = "whole" /\ c.resp.fault \notin {"drop", "timeout", "truncated"}
                           /\ c.status = c.logged
       \/ c.wire = "whole" /\ c.kind = "mcp" /\ c.resp.body = "none" /\ c.status = 202

\* Every request ends: the latency and the hold of a fault do.
EveryRequestEnds == \A t \in Thread : call[t].at # "idle" ~> call[t].at = "idle"
=============================================================================
