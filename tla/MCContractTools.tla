--------------------------- MODULE MCContractTools ---------------------------
(***************************************************************************)
(* ContractClients for TLC: all pairs of a hundred small documents and     *)
(* of the texts of up to four lines, hundreds of command lines, and the    *)
(* languages of up to three requests.                                      *)
(***************************************************************************)
EXTENDS ContractClients, TLC

Nobody == [x \in {} |-> NoSchema]
Leafy(types, enum) == [types |-> types, enum |-> enum, props |-> Nobody, required |-> {},
                       items |-> NoSchema, allOf |-> <<>>]
Obj(props, required) == [Leafy({"object"}, {}) EXCEPT !.props = props, !.required = required]

Is(s) == [Leafy({}, {}) EXCEPT !.allOf = <<s>>]

\* Tree and grove refer to themselves; some schemas have nothing but an allOf, or say
\* something else than theirs.
MCSchemaOf ==
  [ str |-> Leafy({"string"}, {}), int |-> Leafy({"integer"}, {}), free |-> Leafy({}, {}),
    ab |-> Leafy({"string"}, {"a", "b"}), bc |-> Leafy({"string"}, {"b", "c"}),
    base |-> Obj("x" :> "str", {"x"}),
    opt |-> Obj("x" :> "str", {}), both |-> Obj("x" :> "str" @@ "y" :> "int", {"x"}),
    strict |-> Obj("x" :> "str" @@ "y" :> "int", {"x", "y"}),
    listed |-> Obj("x" :> "ab", {}), relisted |-> Obj("x" :> "bc", {}),
    other |-> Obj("x" :> "int", {}), ghost |-> Obj("x" :> "str", {"z"}),
    heir |-> [Obj("y" :> "int", {}) EXCEPT !.allOf = <<"base">>],
    tree |-> Obj("x" :> "str" @@ "kid" :> "tree", {}),
    grove |-> Obj("x" :> "str" @@ "kid" :> "grove", {"x"}),
    strs |-> [Leafy({"array"}, {}) EXCEPT !.items = "str"],
    ints |-> [Leafy({"array"}, {}) EXCEPT !.items = "int"],
    either |-> Leafy({"string", "integer"}, {}), mixed |-> Leafy({"integer", "array"}, {}),
    some |-> Leafy({"string", "integer"}, {"a", "b"}),
    isAb |-> Is("ab"), isBc |-> Is("bc"), isInt |-> Is("int"), isInts |-> Is("ints"),
    onlyB |-> [Leafy({"string"}, {"a", "b"}) EXCEPT !.allOf = <<"bc">>],
    holdsAb |-> Obj("x" :> "isAb", {}), holdsBc |-> Obj("x" :> "isBc", {}),
    twice |-> [Obj("x" :> "str", {}) EXCEPT !.allOf = <<"listed">>],
    again |-> [Obj("x" :> "str", {}) EXCEPT !.allOf = <<"relisted">>],
    bcs |-> [Leafy({"array"}, {}) EXCEPT !.items = "bc"],
    eithers |-> [Leafy({"array"}, {}) EXCEPT !.items = "either"] ]

Str(v) == [kind |-> "string", value |-> v]
Int7 == [kind |-> "integer"]
Dict(fields) == [kind |-> "object", fields |-> fields]
List(items) == [kind |-> "array", items |-> items]

MCValues ==
  {Str("a"), Str("b"), Str("c"), Int7, Dict([x \in {} |-> 0]), Dict("x" :> Str("a")),
   Dict("x" :> Str("c")), Dict("x" :> Int7), Dict("x" :> Str("b") @@ "y" :> Int7),
   Dict("kid" :> Dict([x \in {} |-> 0])), Dict("x" :> Str("a") @@ "kid" :> Dict([x \in {} |-> 0])),
   Dict("x" :> Str("a") @@ "z" :> Int7), Dict("z" :> Int7), List(<<>>), List(<<Str("a")>>), List(<<Int7>>)}
-----------------------------------------------------------------------------
Param(required, schema) == [required |-> required, schema |-> schema]
Ok200 == "200" :> ("json" :> "base")
Op(params, body, responses) == [params |-> params, body |-> body, responses |-> responses]
Doc(op) == "GET /u" :> op

Schemas == DOMAIN MCSchemaOf

MCParams ==
  {Nobody, "q" :> Param(FALSE, "int"), "q" :> Param(TRUE, "int"), "q" :> Param(TRUE, "str"),
   "q" :> Param(FALSE, NoSchema), "q" :> Param(FALSE, "either"), "q" :> Param(FALSE, "ab"),
   "q" :> Param(FALSE, "bc"), "q" :> Param(FALSE, "isInt"), "q" :> Param(FALSE, "int") @@ "r" :> Param(TRUE, "str")}

Bodies == {NoBody} \cup {[required |-> TRUE, content |-> "json" :> s] : s \in Schemas}
            \cup {[required |-> FALSE, content |-> "json" :> s] : s \in {"base", "str", "free", "tree"}}
            \cup {[required |-> TRUE, content |-> "xml" :> "str"]}

Responses ==
  {"200" :> ("json" :> s) : s \in Schemas}
  \cup {"404" :> ("json" :> "str"), Ok200 @@ ("404" :> ("json" :> "str")),
        "200" :> ("json" :> "base" @@ "xml" :> "str"), "200" :> Nobody}

MCDocs ==
  {Doc(Op(p, NoBody, Ok200)) : p \in MCParams}
  \cup {Doc(Op(Nobody, b, Ok200)) : b \in Bodies}
  \cup {Doc(Op(Nobody, NoBody, r)) : r \in Responses}
  \cup {Doc(Op(p, [required |-> TRUE, content |-> "json" :> s], "200" :> ("json" :> s))) :
          p \in {Nobody, "q" :> Param(TRUE, "int")}, s \in {"strict", "listed", "heir"}}
  \cup {"POST /u" :> Op(Nobody, NoBody, Ok200),
        "POST /u" :> Op(Nobody, NoBody, Ok200) @@ "GET /u" :> Op(Nobody, NoBody, Ok200)}

OpenAPI(doc) == [format |-> "openapi", lines |-> <<>>, doc |-> doc]
Text(lines) == [format |-> "mcp", lines |-> lines, doc |-> NoDoc]
Texts == {Text(lines) : lines \in UNION {[1..n -> {"k", "l"}] : n \in 0..4}}
-----------------------------------------------------------------------------
DiffOf(versions, from, to) == [tool |-> "diff", versions |-> versions, from |-> from, to |-> to]

MCFiles ==
  [f \in {"old", "new", "same", "text", "none"} |->
     CASE f = "old" -> OpenAPI(Doc(Op(Nobody, NoBody, Ok200)))
       [] f = "new" -> OpenAPI("POST /u" :> Op(Nobody, NoBody, Ok200))
       [] f = "same" -> OpenAPI(Doc(Op(Nobody, NoBody, Ok200)))
       [] f = "text" -> Text(<<"k">>)
       [] f = "none" -> Unreadable]

Arguments == {"old", "new", "text", "none", "--fail-on-breaking", "--format", "--format=xml", "-h", "-x"}

MCTasks ==
  {DiffOf(<<OpenAPI(o), OpenAPI(n)>>, 1, Latest) : o \in MCDocs, n \in MCDocs}
  \cup {DiffOf(<<o, n>>, 1, 2) : o \in Texts, n \in Texts}
  \cup {DiffOf(<<Text(<<"k">>)>>, f, t) : f \in 1..2, t \in {2, Latest}}
  \cup {[tool |-> "command", args |-> a] : a \in UNION {[1..n -> Arguments] : n \in 0..3}}
  \cup {[tool |-> "generate", versions |-> v, languages |-> l] :
          v \in {<<>>, <<Text(<<"k">>)>>, <<MCFiles["old"]>>},
          l \in UNION {[1..n -> {"go", "java", "cobol"}] : n \in 0..3}}
=============================================================================
