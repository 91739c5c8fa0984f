------------------------------ MODULE McpEngine ------------------------------
(***************************************************************************)
(* The MCP engine (internal/adapter/mcp): manifests, JSON-RPC requests and *)
(* batches, and the choice of a tool's response; and what                  *)
(* internal/usecase/mcp.go makes of its answer.                            *)
(*                                                                         *)
(* A manifest is [layout, name, tools]; a tool is [name, schema, entries,  *)
(* fault], and an entry of its mockResponses [key, match, fault, body].    *)
(* The entries stand in the order of their keys, as texts.                 *)
(* A message is [shape, version, method, id, tool, args]: shape tells a    *)
(* request object from what does not decode.                               *)
(***************************************************************************)
EXTENDS Templates, Faults

CONSTANTS NoId,         \* the id of a message without one
          NullId,       \* the id null
          NoTool,       \* the tool of a call without params.name
          BadArguments, \* pairs <<schema, arguments>> that violate the schema
          RenderDecoded(_, _, _)  \* RenderValue of module DecodedTemplates

-----------------------------------------------------------------------------
(* Manifests *)

NoSettings == [delay |-> 0, error |-> 0, fault |-> NoFault]

\* A fault of the manifest, or NoFault: [delay, error, fail, fault, known], known
\* when it has no field of another name.
Settings(f) == [delay |-> f.delay, error |-> McpErrorRate(f), fault |-> f.fault]

ParseFault(f) == f.known /\ ValidateFault(Settings(f))

CheckFaults(tool) ==
  /\ tool.fault # NoFault => ParseFault(tool.fault)
  /\ \A i \in DOMAIN tool.entries :
       tool.entries[i].fault # NoFault => ParseFault(tool.entries[i].fault)

CheckMatches(tool) == \A i \in DOMAIN tool.entries : SplitMatch(tool.entries[i]).ok

ValidateTools(tools) ==
  /\ \A i \in DOMAIN tools : tools[i].name # "" /\ CheckMatches(tools[i]) /\ CheckFaults(tools[i])
  /\ \A i, j \in DOMAIN tools : tools[i].name = tools[j].name => i = j

\* Either layout has its tools; a document with neither is not a manifest.
ParsesManifest(m) ==
  m.layout \in {"mcpServer", "flat"} /\ m.tools # <<>> /\ ValidateTools(m.tools)

ValidateManifest(m) ==
  [valid |-> ParsesManifest(m), toolCount |-> IF ParsesManifest(m) THEN Len(m.tools) ELSE 0]

-----------------------------------------------------------------------------
(* The response of a tool *)

NoEntry == [ok |-> FALSE, key |-> "", result |-> Null]

IsCallToolResult(obj) == DOMAIN obj.fields \cap {"content", "structuredContent", "isError"} # {}

\* A stored value becomes the result: as it is, or wrapped in one.
DecodeMock(key, body) ==
  CASE body = Null -> NoEntry
    [] body.kind = "object" /\ IsCallToolResult(body) -> [ok |-> TRUE, key |-> key, result |-> body]
    [] OTHER -> [ok |-> TRUE, key |-> key,
                 result |-> Object(Put(IF body.kind = "object"
                                       THEN Put(NoKeys, "structuredContent", body) ELSE NoKeys,
                                       "content", Array(<<body>>)))]

Entry(tool, key) ==
  LET at == SelectInSeq(tool.entries, LAMBDA e : e.key = key)
  IN IF at = 0 \/ ~ SplitMatch(tool.entries[at]).ok THEN NoEntry
     ELSE DecodeMock(key, tool.entries[at].body)

Conds(e) == SplitMatch(e).conds

\* The key of the entry with the most conditions, all of them met; the first one
\* on a tie, and "" when no entry is met.
BestMatch(tool, args) ==
  FoldLeft(LAMBDA best, e :
             IF Len(Conds(e)) > best.conds /\ MatchesArguments(Conds(e), args)
             THEN [key |-> e.key, conds |-> Len(Conds(e))] ELSE best,
           [key |-> "", conds |-> 0], tool.entries)

LoneResponse(tool) ==
  LET free == SelectSeq(tool.entries, LAMBDA e : Conds(e) = <<>>)
  IN IF Len(free) = 1 THEN Entry(tool, free[1].key) ELSE NoEntry

\* The scenario that was asked for, else the best conditional entry, else the
\* default, and the lone response when no scenario was asked for.
Resolve(tool, scenario, args) ==
  CASE scenario # "" /\ Entry(tool, scenario).ok -> Entry(tool, scenario)
    [] ~ (scenario # "" /\ Entry(tool, scenario).ok) ->
         CASE BestMatch(tool, args).conds > 0 -> Entry(tool, BestMatch(tool, args).key)
           [] BestMatch(tool, args).conds = 0 ->
                IF Entry(tool, "default").ok THEN Entry(tool, "default")
                ELSE IF scenario = "" THEN LoneResponse(tool) ELSE NoEntry

\* The entry's own fault, else the tool's.
FaultFor(tool, key) ==
  LET own == SelectSeq(tool.entries, LAMBDA e : e.key = key /\ e.fault # NoFault)
  IN IF own # <<>> THEN own[1].fault ELSE tool.fault
-----------------------------------------------------------------------------
(* One message.  What a message is answered with: [id, outcome], or Silence.  *)
(* The state of a request's run is [answers, violations, counters, faults,    *)
(* draws], draws being the random numbers of the calls still to come.         *)

Silence == [id |-> NoId, outcome |-> "silence"]

NullIsNotification(id) == id = NullId
IsNotification(id) == id \in {NoId, NullId}
IdOrNull(id) == IF id = NoId THEN NullId ELSE id

Respond(id, outcome) ==
  IF IsNotification(id) THEN Silence ELSE [id |-> id, outcome |-> outcome]

MarshalErr(id) == [id |-> id, outcome |-> "error"]

Answering(run, answer) ==
  IF answer = Silence THEN run ELSE [run EXCEPT !.answers = Append(run.answers, answer)]

\* The arguments are checked against the tool's schema, unless it has none.
Check(tool, args, opts) == opts.validate /\ <<tool.schema, args>> \in BadArguments

\* One roll for a call whose tool or entry declares a fault.
Rolled(run, tool, key) ==
  LET f == FaultFor(tool, key)
      draw == Head(run.draws)
      s == Settings(f)
  IN IF f = NoFault THEN [run |-> run, fault |-> "none"]
     ELSE LET fault == RollFault(s, draw.roll)
          IN [run |-> [run EXCEPT !.faults = McpRoll(run.faults, s, fault, s.delay + draw.jitter,
                                                    draw.status),
                                  !.draws = Tail(run.draws)],
              fault |-> fault]

\* A result that is not an object after rendering is left as it was.
Rendered(run, result, project, args) ==
  RenderDecoded(result, [project |-> project, method |-> "tools/call", path |-> <<>>,
                         params |-> NoKeys, query |-> NoKeys, header |-> NoKeys, body |-> args,
                         json |-> FALSE], run.counters)

\* The call is answered with the error its fault asks for, or the rendered result.
AnswerCall(rolled, result, bad, msg, opts) ==
  LET rendered == Rendered(rolled.run, result, opts.project, msg.args)
  IN IF rolled.fault = "error" THEN Answering(rolled.run, Respond(msg.id, "error"))
     ELSE Answering([rolled.run EXCEPT !.counters = rendered.counters],
                    Respond(msg.id, IF bad THEN "result with warnings" ELSE "result"))

\* A tool that is there: its arguments are checked, its response chosen.
CallFound(run, tool, msg, opts) ==
  LET bad == Check(tool, msg.args, opts)
      checked == IF bad THEN [run EXCEPT !.violations = run.violations + 1] ELSE run
      entry == Resolve(tool, opts.scenario, msg.args)
  IN IF (bad /\ opts.enforce) \/ ~ entry.ok
     THEN Answering(checked, Respond(msg.id, "error"))
     ELSE AnswerCall(Rolled(checked, tool, entry.key), entry.result, bad, msg, opts)

CallTool(run, m, msg, opts) ==
  LET at == SelectInSeq(m.tools, LAMBDA t : t.name = msg.tool)
  IN IF msg.tool = NoTool \/ at = 0 THEN Answering(run, Respond(msg.id, "error"))
     ELSE CallFound(run, m.tools[at], msg, opts)

ExecuteOne(run, m, msg, opts) ==
  CASE msg.shape # "object" -> Answering(run, MarshalErr(NullId))
    [] msg.shape = "object" /\ (msg.version # "2.0" \/ msg.method = "") ->
         Answering(run, MarshalErr(IdOrNull(msg.id)))
    [] msg.shape = "object" /\ msg.version = "2.0" /\ msg.method # "" ->
         CASE msg.method \in {"initialize", "ping", "tools/list"} ->
                Answering(run, Respond(msg.id, "result"))
           [] msg.method = "tools/call" -> CallTool(run, m, msg, opts)
           [] OTHER -> Answering(run, Respond(msg.id, "error"))
-----------------------------------------------------------------------------
(* One request: a message, a batch of them, or what does not decode           *)

NewRun(counters, draws) ==
  [answers |-> <<>>, violations |-> 0, counters |-> counters, faults |-> NoRun, draws |-> draws]

\* The run after the first n messages.
RunOfFirst(run, m, items, opts) ==
  LET ran[n \in 0 .. Len(items)] ==
        IF n = 0 THEN run ELSE ExecuteOne(ran[n - 1], m, items[n], opts)
  IN ran

ExecuteBatch(run, m, items, opts) ==
  IF items = <<>> THEN Answering(run, MarshalErr(NullId))
  ELSE RunOfFirst(run, m, items, opts)[Len(items)]

Run(run, m, payload, opts) ==
  CASE payload.shape = "batch" -> ExecuteBatch(run, m, payload.items, opts)
    [] payload.shape = "one" -> ExecuteOne(run, m, payload.items[1], opts)
    [] OTHER -> Answering(run, MarshalErr(NullId))

CallsOf(payload) ==
  IF payload.shape \in {"one", "batch"}
  THEN Len(SelectSeq(payload.items, LAMBDA msg : msg.method = "tools/call")) ELSE 0

HasJSONRPCError(answers) == \E i \in DOMAIN answers : answers[i].outcome = "error"

\* The engine's answer with the faults of the run: [status, fault, delay, hold,
\* body].  A body that is not there cannot be broken.
Apply(run) ==
  LET f == run.faults
      none == run.answers = <<>>
  IN [status |-> CASE f.fault \in {"drop", "timeout"} -> 0
                   [] f.fault = "error" -> f.status
                   [] OTHER -> IF none THEN 202 ELSE 200,
      fault |-> f.fault, delay |-> f.delay, hold |-> f.hold,
      body |-> IF none THEN "none"
               ELSE CASE f.fault = "garbage" -> "garbage"
                      [] f.fault = "empty" -> "empty"
                      [] OTHER -> "whole"]

\* What the request log says: a broken body of a single answer does not decode,
\* and does not count as an error; one of a batch does.
Matched(payload, run) ==
  CASE Apply(run).body = "empty" -> TRUE
    [] Apply(run).body = "garbage" -> payload.shape # "batch" \/ payload.items = <<>>
    [] OTHER -> ~ HasJSONRPCError(run.answers)
=============================================================================
