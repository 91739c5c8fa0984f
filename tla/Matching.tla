------------------------------ MODULE Matching ------------------------------
(***************************************************************************)
(* The conditions of mock rules and of MCP responses: domain/match.go,     *)
(* usecase/match.go and adapter/mcp/match.go.                              *)
(*                                                                         *)
(* A condition is [source, name, op, value]: name is a path into the body, *)
(* or the name of a parameter as a path of one segment.  Texts are opaque: *)
(* what "contains" and "regex" find in them is given by two relations, and *)
(* the texts that are numbers by a function.                               *)
(***************************************************************************)
EXTENDS JsonValues

CONSTANTS Within,        \* pairs <<part, text>>: the texts that contain another
          RegexMatches,  \* pairs <<pattern, text>>
          BadRegex,      \* the patterns that do not compile
          NumberOf       \* the texts that are plain numbers, with their halves

EmptyText == ""
Sources == {"body", "query", "header", "path"}
Normalized(c) == IF c.op = "" THEN [c EXCEPT !.op = "equals"] ELSE c

\* A name is needed, but for the whole body; contains and regex need a value.
Validate(cond) ==
  LET c == Normalized(cond)
  IN /\ c.source \in Sources
     /\ c.source = "body" \/ c.name # <<>>
     /\ CASE c.op \in {"exists", "not_exists", "equals", "not_equals"} -> TRUE
          [] c.op = "contains" -> c.value # EmptyText
          [] c.op = "regex" -> c.value # EmptyText /\ c.value \notin BadRegex
          [] OTHER -> FALSE

ValidateMatch(conds) == \A i \in DOMAIN conds : Validate(conds[i])

\* A value's text; objects and arrays are told apart by their own value.
ValueText(v) ==
  CASE v.kind = "null" -> EmptyText
    [] v.kind = "leaf" -> v.value
    [] v.kind = "number" -> CHOOSE t \in DOMAIN NumberOf : NumberOf[t] = v.halves
    [] OTHER -> "json"

Compare(c, text) ==
  CASE c.op = "equals" -> text = c.value
    [] c.op = "contains" -> text = c.value \/ <<c.value, text>> \in Within
    [] c.op = "regex" -> <<c.value, text>> \in RegexMatches /\ c.value \notin BadRegex
    [] OTHER -> FALSE

\* A null counts as present, but does not satisfy exists.
Matches(cond, v) ==
  LET c == Normalized(cond)
  IN CASE c.op = "exists" -> v.found /\ v.value # Null
       [] c.op = "not_exists" -> ~ v.found \/ v.value = Null
       [] c.op = "not_equals" -> ~ v.found \/ ValueText(v.value) # c.value
       [] OTHER -> v.found /\ Compare(c, ValueText(v.value))
-----------------------------------------------------------------------------
(* Conditions on an HTTP request: [body, query, header, params]            *)

FirstOf(map, name) ==
  IF name \in DOMAIN map /\ map[name] # <<>> THEN Found(Leaf(Head(map[name]))) ELSE Missing

ParamOf(map, name) == IF name \in DOMAIN map THEN Found(Leaf(map[name])) ELSE Missing

\* The request's body: what was sent, [kind |-> "absent"], or a text that is not
\* JSON, [kind |-> "text"].  Inside a body that is not JSON nothing is found, and
\* the body null is found as a text.
BodyLookup(body, path) ==
  CASE body.kind = "absent" -> IF path = <<>> THEN Missing ELSE LookupJSONPath(Null, path)
    [] body.kind = "text" ->
         IF path = <<>> THEN Found(Leaf(body.text)) ELSE LookupJSONPath(Null, path)
    [] body.kind = "null" /\ path = <<>> -> Found(Leaf("null"))
    [] OTHER -> LookupJSONPath(body, path)

\* Only the first value of a repeated query parameter or header is looked at.
ConditionValue(req, c) ==
  CASE c.source = "body" -> BodyLookup(req.body, c.name)
    [] c.source = "query" -> FirstOf(req.query, c.name[1])
    [] c.source = "header" -> FirstOf(req.header, c.name[1])
    [] c.source = "path" -> ParamOf(req.params, c.name[1])
    [] OTHER -> Missing

MatchesAll(req, conds) ==
  \A i \in DOMAIN conds : Matches(conds[i], ConditionValue(req, conds[i]))
-----------------------------------------------------------------------------
(* Conditions of an MCP response.  An entry of a manifest's mockResponses is *)
(* [match, fault, body]; match is None's record [shape |-> "none"], an       *)
(* object of pairs that must be equal, an array of conditions, or another    *)
(* shape.                                                                    *)

BodyCondition(path, op, value) == [source |-> "body", name |-> path, op |-> op, value |-> value]

\* [ok, conds]: the conditions written in an entry.
ParseConditions(match) ==
  LET conds ==
        CASE match.shape = "object" ->
               SetToSeq({BodyCondition(p, "equals", match.pairs[p]) : p \in DOMAIN match.pairs})
          [] match.shape = "array" ->
               [i \in DOMAIN match.specs |->
                  BodyCondition(match.specs[i].path, match.specs[i].op, match.specs[i].value)]
          [] OTHER -> <<>>
      missing == match.shape = "array" /\
        \E i \in DOMAIN match.specs : /\ match.specs[i].value = EmptyText
                                      /\ match.specs[i].op \notin {"exists", "not_exists"}
  IN [ok |-> match.shape # "other" /\ ~ missing /\ ValidateMatch(conds), conds |-> conds]

SplitMatch(entry) ==
  IF entry.match.shape = "none" THEN [ok |-> TRUE, conds |-> <<>>]
  ELSE ParseConditions(entry.match)

\* Arguments that are not JSON, or not given, hold no value at all.
MatchesArguments(conds, args) ==
  LET doc == IF args.kind \in {"absent", "text"} THEN Null ELSE args
  IN \A i \in DOMAIN conds : Matches(conds[i], LookupJSONPath(doc, conds[i].name))
=============================================================================
