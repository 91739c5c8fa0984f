----------------------------- MODULE MCMockServer -----------------------------
(***************************************************************************)
(* MockServer for TLC: two projects with rules and contracts from an       *)
(* earlier run of the program, two handlers, and a roll in 0..3.           *)
(***************************************************************************)
EXTENDS MockServer, DecodedTemplates

CONSTANTS p1, p2, api, tools, doubled, overrated, t1, t2

MCUpper == [m \in {"GET", "get", "POST"} |-> IF m = "get" THEN "GET" ELSE m]
MCNumberOf == [t \in {"1", "7"} |-> IF t = "1" THEN 2 ELSE 14]
MCWithin == {<<"a", "ab">>}
MCRegexMatches == {<<"^a", "a">>, <<"^a", "ab">>}
MCBadRegex == {"("}

NoFields == [k \in {} |-> Null]
Absent == [kind |-> "absent"]
-----------------------------------------------------------------------------
(* Rules                                                                     *)

Users == <<Static("users")>>
User == <<Static("users"), Param("id")>>
Me == <<Static("users"), Static("me")>>

Cond(source, name, op, value) ==
  [source |-> source, name |-> name, op |-> op, value |-> value]

Plain(scenario, match) ==
  [id |-> 0, project |-> p1, method |-> "GET", path |-> User, scenario |-> scenario,
   match |-> match, recording |-> NoRecording, status |-> 0, type |-> "", header |-> <<>>,
   body |-> <<>>, raw |-> FALSE, settings |-> NoSettings, created |-> 0]

Faulty(error, drop, timeout, malformed, mode2) ==
  [delay |-> 1, error |-> error,
   fault |-> [ZeroFault EXCEPT !.drop = drop, !.timeout = timeout, !.malformed = malformed,
                               !.mode = mode2, !.statuses = <<500, 503>>]]

Counter == Tag("counter", <<>>, <<>>)
Quoted(elem) == <<Char("quote"), elem, Char("quote")>>

IsA == Cond("query", <<"q">>, "equals", "a")
InBody == Cond("body", <<"role">>, "exists", "")

Counting == [Plain("", <<>>) EXCEPT !.body = <<Char("open"), Counter, Char("comma")>>
                                       \o Quoted(Tag("request", <<"query", "q">>, <<>>))
                                       \o <<Char("close")>>]
ForA == [Plain("default", <<IsA>>) EXCEPT !.method = "get", !.header = <<Counter>>,
                                          !.settings = Faulty(1, 1, 1, 1, "truncated")]
ByPath == [Plain("default", <<Cond("path", <<"id">>, "regex", "^a")>>) EXCEPT
             !.body = <<Tag("path", <<"id">>, <<>>)>>, !.status = 201,
             !.settings = Faulty(0, 0, 0, 3, "")]
Slow == Plain("slow", <<IsA, InBody>>)
Recorded == [Plain("recorded", <<>>) EXCEPT !.raw = TRUE, !.type = "json",
               !.recording = <<"GET", <<"users", "a">>, "q" :> <<"a">>, Absent>>]

MCRuleBodies ==
  {Counting, ForA, ByPath, Slow,
   \* Refused: too many faults, bodies that are not JSON, a pattern, no value.
   [Plain("", <<>>) EXCEPT !.settings = Faulty(2, 2, 1, 0, "")],
   [Plain("", <<>>) EXCEPT !.body = Quoted(Char("quote"))],
   [Plain("", <<>>) EXCEPT !.body = <<Char("open"), Counter, Counter>>],
   Plain("", <<Cond("query", <<"q">>, "regex", "(")>>),
   Plain("", <<Cond("body", <<>>, "contains", "")>>)}

\* Rules of an earlier run, as the repository holds them.
StoredAs(body, n) == [WithScenario(body) EXCEPT !.id = n, !.created = n]
Holding(list, at2) ==
  [rules |-> {StoredAs(list[i], i) : i \in DOMAIN list},
   active |-> [p \in Project |-> IF p = p1 THEN api ELSE at2]]

MCStored ==
  {Holding(<<>>, None), Holding(<<Counting, ForA, Counting>>, tools),
   Holding(<<Slow, Recorded, ByPath>>, api),
   Holding(<<Counting, [Counting EXCEPT !.project = p2]>>, api)}
-----------------------------------------------------------------------------
(* Requests                                                                  *)

Get(path, scenario, query, body) ==
  [method |-> "GET", path |-> path, scenario |-> scenario, query |-> query,
   header |-> NoFields, body |-> body]

Admin == Object("role" :> Leaf("admin"))

MCRequests ==
  {Get(<<"users", "a">>, "", "q" :> <<"a">>, Absent),
   Get(<<"users", "a">>, "default", "q" :> <<"a">>, Admin),
   Get(<<"users", "7">>, "", "q" :> <<"a">>, Admin),
   Get(<<"users", "7">>, "slow", NoFields, [kind |-> "text", text |-> "a"]),
   Get(<<"nowhere">>, "", NoFields, Absent)}

MCViolating == {r \in MCRequests : r.scenario = "slow"}
-----------------------------------------------------------------------------
(* Contracts and messages                                                    *)

EntryOf(key, match, fault, body) == [key |-> key, match |-> match, fault |-> fault, body |-> body]
Free == [shape |-> "none"]
McpFault(error, drop, mode2) ==
  [delay |-> 0, error |-> error, fail |-> 1, known |-> TRUE,
   fault |-> [ZeroFault EXCEPT !.drop = drop, !.malformed = 1, !.mode = mode2]]

Weather ==
  [name |-> "weather", schema |-> "city", fault |-> NoFault,
   entries |-> <<EntryOf("default", Free, NoFault, [kind |-> "template", src |-> <<Counter>>]),
                 EntryOf("oslo", [shape |-> "object", pairs |-> <<"city">> :> "oslo"],
                         McpFault(1, 1, "truncated"), Object("isError" :> Leaf("true")))>>]

Lone ==
  [name |-> "lone", schema |-> "none", fault |-> McpFault(0, 0, "garbage"),
   entries |-> <<EntryOf("only", Free, NoFault, Object("t" :> [kind |-> "template",
                            src |-> <<Char("other"), Counter>>]))>>]

Manifest(list) == [layout |-> "mcpServer", tools |-> list]

MCContractOf ==
  [c \in {api, tools, doubled, overrated} |->
     IF c = api
     THEN [format |-> "openapi",
           ops |-> {[method |-> "GET", path |-> User], [method |-> "GET", path |-> Me]},
           manifest |-> Manifest(<<>>)]
     ELSE [format |-> "mcp", ops |-> {},
           manifest |-> Manifest(CASE c = tools -> <<Weather, Lone>>
                                   [] c = doubled -> <<Lone, Lone>>
                                   [] c = overrated ->
                                        <<[Lone EXCEPT !.fault = McpFault(3, 2, "")]>>)]]

MCUploads == {<<p1, tools>>, <<p2, api>>, <<p2, doubled>>, <<p2, overrated>>}

Msg(method, id) ==
  [shape |-> "object", version |-> "2.0", method |-> method, id |-> id, tool |-> NoTool,
   args |-> Absent]
Call(tool, id, args) == [Msg("tools/call", id) EXCEPT !.tool = tool, !.args = args]
Oslo == Object("city" :> Leaf("oslo"))

Batch(items) == [shape |-> "batch", items |-> items]
One(msg) == [shape |-> "one", items |-> <<msg>>]

MCMessages ==
  {[payload |-> x, scenario |-> ""] :
     x \in {One(Msg("initialize", "1")), One(Msg("notifications/initialized", NoId)),
            Batch(<<Call("weather", "1", Oslo), Call("lone", "2", Absent)>>),
            Batch(<<Call("weather", NoId, Oslo)>>),
            Batch(<<[Msg("ping", NoId) EXCEPT !.version = "1.0"], Msg("ping", NullId),
                    [Msg("ping", "3") EXCEPT !.shape = "other"], Msg("tools/list", "4")>>),
            Batch(<<>>), [shape |-> "other", items |-> <<>>]}}
  \cup {[payload |-> One(Call("weather", "5", Absent)), scenario |-> "oslo"],
        [payload |-> One(Call("unknown", "6", Absent)), scenario |-> "oslo"]}

MCModes == {[p \in {p1, p2} |-> IF p = p1 THEN "warn" ELSE "enforce"]}

MCBadArguments == {<<"city", Absent>>}
=============================================================================
