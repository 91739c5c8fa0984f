------------------------------ MODULE MockRules ------------------------------
(***************************************************************************)
(* The rules of the REST mock server: what may be saved                    *)
(* (usecase/mock_service.go), which rule answers a request and what it     *)
(* answers (usecase/mockserving_service.go, usecase/proxy.go).             *)
(*                                                                         *)
(* A rule is [id, project, method, path, scenario, match, recording,       *)
(* status, type, header, body, raw, settings, created].  type is the       *)
(* content type as far as JSON goes; header is the value of the one header *)
(* a rule sets; header and body are sources of placeholders; created is    *)
(* its time of creation, 0 for the zero time.  A request is [method, path, *)
(* scenario, query, header, body].                                         *)
(***************************************************************************)
EXTENDS Templates, Faults, PathTemplates, Sublists

CONSTANTS Upper,       \* [methods as written -> the method in upper case]
          NoRule,      \* no rule is found
          NoRecording  \* a rule that is not a recording

EqualFold(a, b) == Upper[a] = Upper[b]

Context(project, tmpl, req) ==
  [project |-> project, method |-> Upper[req.method], path |-> req.path,
   params |-> PathParams(tmpl, req.path), query |-> req.query, header |-> req.header,
   body |-> req.body, json |-> FALSE]
-----------------------------------------------------------------------------
(* What may be saved *)

Sample ==
  [project |-> "", method |-> "", path |-> <<>>, params |-> NoKeys, query |-> NoKeys,
   header |-> NoKeys, body |-> [kind |-> "absent"], json |-> TRUE]

NoCounters == [k \in {} |-> 0]

Verbatim(src) == FoldLeft(LAMBDA s, e : Copy(s, e, TRUE), Scanning,
                          FlattenSeq([i \in DOMAIN src |->
                                        IF src[i].tag = "" THEN <<src[i]>> ELSE src[i].chars]))

NotWithPlaceholders(body) ==
  (\E i \in DOMAIN body : body[i].tag # "") \/ body = <<>> \/ ValidJson(Verbatim(body).out)

\* Placeholders are rendered first, for an empty request and on counters that
\* are thrown away.
ValidateJSONBody(body) == body = <<>> \/ ValidJson(Render(body, Sample, NoCounters).s.out)

ValidateRuleBody(r) ==
  IF r.raw THEN r.type = "json" => r.body = <<>> \/ ValidJson(Verbatim(r.body).out)
  ELSE ValidateJSONBody(r.body)

ValidateRule(r) ==
  /\ ValidateRuleBody(r)
  /\ ValidateMatch(r.match)
  /\ ValidateFault(r.settings)

WithScenario(r) == IF r.scenario = "" THEN [r EXCEPT !.scenario = "default"] ELSE r
-----------------------------------------------------------------------------
(* Which rule answers *)

\* JSON bodies are compared structurally, other ones as they are; of the query,
\* the order of the parameters does not matter.
NormalizeBody(body) == body
RequestKey(ctx) == <<ctx.method, ctx.path, ctx.query, NormalizeBody(ctx.body)>>

\* Where a list has what is looked for, as the place of a rule in it: the loops
\* over the rules keep the first or the last place, 0 when there is none.
FirstPlace(places) == IF places = {} THEN 0 ELSE Min(places)
LastPlace(places) == IF places = {} THEN 0 ELSE Max(places)

DefaultRule(list) ==
  LastPlace({i \in DOMAIN list : list[i].match = <<>> /\ list[i].scenario \in {"", "default"}})

\* "default" is not a way around the conditions, and a recording answers the
\* request it was recorded from, not a name.
ExplicitRule(list, scenario) ==
  CASE scenario \in {"", "recorded"} -> 0
    [] scenario = "default" -> DefaultRule(list)
    [] OTHER -> FirstPlace({i \in DOMAIN list : list[i].scenario = scenario})

AsManyConditions(list, i, best) == best = 0 \/ Len(list[i].match) >= Len(list[best].match)
MoreConditions(list, i, best) == best = 0 \/ Len(list[i].match) > Len(list[best].match)

Met(r, ctx) == r.match # <<>> /\ MatchesAll(ctx, r.match)

\* The best of the first n rules.
BestOfFirst(list, ctx) ==
  LET best[n \in 0 .. Len(list)] ==
        IF n = 0 THEN 0
        ELSE IF MoreConditions(list, n, best[n - 1]) /\ Met(list[n], ctx) THEN n ELSE best[n - 1]
  IN best

BestConditionalRule(list, ctx) == BestOfFirst(list, ctx)[Len(list)]

RecordedRule(list, ctx) ==
  FirstPlace({i \in DOMAIN list : /\ list[i].recording # NoRecording
                                /\ list[i].recording = RequestKey(ctx)})

\* The rules of the operation, in the order of the project's list.
OfOperation(list, tmpl, req) ==
  Kept(list, {r \in Range(list) : EqualFold(r.method, req.method) /\ r.path = tmpl})

FindRule(list, tmpl, req, ctx) ==
  LET rules == OfOperation(list, tmpl, req)
      choices == <<ExplicitRule(rules, req.scenario), BestConditionalRule(rules, ctx),
                   RecordedRule(rules, ctx), DefaultRule(rules)>>
      found == FirstPlace({i \in DOMAIN choices : choices[i] # 0})
  IN IF found = 0 THEN NoRule ELSE rules[choices[found]]
-----------------------------------------------------------------------------
(* What it answers *)

\* A response is [status, source, fault, delay, hold, header, body, rule, warned].
\* Of a body it matters whether it is whole.
Response(status, source) ==
  [status |-> status, source |-> source, fault |-> "none", delay |-> 0, hold |-> 0,
   header |-> <<>>, body |-> "whole", rule |-> NoRule, warned |-> FALSE]

Replacing == {"drop", "timeout", "error"}

\* Faults that replace the rule's own response altogether.
FaultResponse(r, fault, delay, status) ==
  [Response(IF fault = "error" THEN status ELSE 0,
            CASE fault = "drop" -> "chaos-drop"
              [] fault = "timeout" -> "chaos-timeout"
              [] fault = "error" -> "chaos-injection")
     EXCEPT !.fault = fault, !.delay = delay, !.rule = r.id,
            !.hold = IF fault = "timeout" THEN HoldMs(r.settings) ELSE 0,
            !.body = IF fault = "error" THEN "error" ELSE "none"]

\* The truncated body is left whole here: the handler sends half of it.
BrokenBody(body, fault) ==
  CASE fault = "empty" -> "none"
    [] fault = "garbage" -> "garbage"
    [] OTHER -> body

BreakBody(resp, fault) ==
  IF fault = "none" THEN resp
  ELSE [resp EXCEPT !.fault = fault, !.source = "chaos-malformed",
                    !.body = BrokenBody(resp.body, fault)]

\* A rule's own response; header and body are rendered by now.
RuleResponse(r, fault, delay) ==
  BreakBody([Response(IF r.status = 0 THEN 200 ELSE r.status, "rule")
               EXCEPT !.delay = delay, !.rule = r.id],
            fault)

\* What is rendered of a rule, one after the other: the header as text, the body
\* for its content type.
Parts(r) ==
  IF r.raw THEN <<>>
  ELSE <<[src |-> r.header, json |-> FALSE], [src |-> r.body, json |-> r.type # "text"]>>
=============================================================================
