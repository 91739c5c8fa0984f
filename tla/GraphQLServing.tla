--------------------------- MODULE GraphQLServing ---------------------------
(***************************************************************************)
(* Requests against published GraphQL contracts: the handler serveGraphQL  *)
(* (internal/adapter/httpapi/handlers_graphql.go) and GraphQLServingService*)
(* (internal/usecase/graphql.go), composed with the engine's schema cache  *)
(* (SchemaCache) and with what it makes of a query (GraphQLEngine).        *)
(* Every action takes one action of SchemaCache or leaves its variables    *)
(* alone.  Contracts are published, and validated, while queries are open. *)
(***************************************************************************)
EXTENDS GraphQLEngine, SchemaCache

CONSTANTS Project,
          FormatOf,      \* [Contract -> format]
          Compiled,      \* [Contract -> schema]: what gqlparser makes of it
          Asked,         \* [Handler -> [Contract -> the requests it may be sent]]
          MaxRequests    \* bound: requests made altogether

VARIABLES
  active,    \* the active contract of each project, or None
  call,      \* what each handler is at
  asked      \* requests made so far

vars == <<active, call, asked, cacheVars>>

Idle == [at |-> "idle"]

\* for: what the loaded schema is wanted for; of the requests that submit a
\* contract, project is the one it is published in.
LoadingFor(what, p) == [at |-> "loading", for |-> what, project |-> p]

\* logged: what the request log says, matched or not, or None without an entry.
LogResult(matched) == matched

\* Of what is asked of a project only queries are logged.
LogFailure(what) == IF what = "query" THEN LogResult(FALSE) ELSE None

Answered(status, logged, body) ==
  [at |-> "answered", status |-> status, logged |-> logged, body |-> body]

TypeOK ==
  /\ CacheTypeOK
  /\ active \in [Project -> Contract \cup {None}]
  /\ \A h \in Handler : call[h].at \in {"idle", "loading", "answered"}
  /\ asked \in 0..MaxRequests

Init ==
  /\ active = [p \in Project |-> None]
  /\ call = [h \in Handler |-> Idle]
  /\ asked = 0
  /\ CacheInit

Answer(h, a) == call' = [call EXCEPT ![h] = a]

Arrive(h) == call[h] = Idle /\ asked < MaxRequests /\ asked' = asked + 1
-----------------------------------------------------------------------------
(* Contracts are published and validated *)

\* A contract of another format goes through another engine, which takes it
\* here.
PublishOther(h, p, c) ==
  /\ Arrive(h) /\ FormatOf[c] # "graphql"
  /\ active' = [active EXCEPT ![p] = c]
  /\ Answer(h, Answered(201, None, None))
  /\ UNCHANGED cacheVars

Submit(h, p, c, what) ==
  /\ Arrive(h) /\ FormatOf[c] = "graphql"
  /\ StartLoad(h, c)
  /\ Answer(h, LoadingFor(what, p))
  /\ UNCHANGED active

Publish(h) ==
  /\ call[h].at = "loading" /\ call[h].for = "publish"
  /\ Leave(h)
  /\ active' = [active EXCEPT ![call[h].project] = load[h].contract]
  /\ Answer(h, Answered(201, None, None))
  /\ UNCHANGED asked

ValidateContract(h) ==
  /\ call[h].at = "loading" /\ call[h].for = "validate"
  /\ Leave(h)
  /\ Answer(h, Answered(200, None, [kind |-> "report", of |-> Validate(Compiled[load[h].contract])]))
  /\ UNCHANGED <<active, asked>>
-----------------------------------------------------------------------------
(* Queries *)

\* A body without a query is refused before the service is asked.
RefuseBody(h) ==
  /\ Arrive(h)
  /\ Answer(h, Answered(400, None, None))
  /\ UNCHANGED <<active, cacheVars>>

\* The status of a project without an active GraphQL contract, or 0.
RefusedStatus(p) ==
  CASE active[p] = None -> 404
    [] active[p] # None -> IF FormatOf[active[p]] # "graphql" THEN 400 ELSE 0

RefuseProject(h, p, what) ==
  /\ Arrive(h) /\ RefusedStatus(p) # 0
  /\ Answer(h, Answered(RefusedStatus(p), LogFailure(what), None))
  /\ UNCHANGED <<active, cacheVars>>

\* The project's active contract is read, and the engine loads its schema.
Request(h, p, what) ==
  /\ Arrive(h) /\ RefusedStatus(p) = 0
  /\ StartLoad(h, active[p])
  /\ Answer(h, LoadingFor(what, p))
  /\ UNCHANGED active

Load(h) ==
  /\ Hit(h) \/ Miss(h) \/ Compile(h) \/ Existing(h) \/ Insert(h)
  /\ UNCHANGED <<active, call, asked>>

\* A contract that does not compile is not published, and reported as invalid.
Fail(h) ==
  /\ FailToCompile(h)
  /\ Answer(h, CASE call[h].for = "publish" -> Answered(422, None, None)
                 [] call[h].for = "validate" ->
                      Answered(200, None, [kind |-> "report", of |-> InvalidSchema])
                 [] OTHER -> Answered(500, LogFailure(call[h].for), None))
  /\ UNCHANGED <<active, asked>>

\* The query is executed.  The document sent is looked at only here, so it is
\* drawn here.  A query's own errors are answered with 200 and an errors array,
\* and logged as not matched.
Serve(h, r) ==
  LET c == load[h].contract
      body == Execute(Compiled[c], r.doc, r.name, r.vars)
  IN /\ call[h].at = "loading" /\ call[h].for = "query" /\ r \in Asked[h][c]
     /\ Leave(h)
     /\ Answer(h, Answered(200, LogResult(body.kind = "data"), body)
                    @@ [contract |-> c, request |-> r])
     /\ UNCHANGED <<active, asked>>

Operations(h) ==
  /\ call[h].at = "loading" /\ call[h].for = "operations"
  /\ Leave(h)
  /\ Answer(h, Answered(200, None,
                 [kind |-> "operations", list |-> ListOperations(Compiled[load[h].contract])]))
  /\ UNCHANGED <<active, asked>>

Return(h) ==
  /\ call[h].at = "answered"
  /\ call' = [call EXCEPT ![h] = Idle]
  /\ UNCHANGED <<active, asked, cacheVars>>

Next ==
  \E h \in Handler :
    \/ \E p \in Project, c \in Contract :
         \/ PublishOther(h, p, c)
         \/ \E what \in {"publish", "validate"} : Submit(h, p, c, what)
    \/ Publish(h)
    \/ ValidateContract(h)
    \/ RefuseBody(h)
    \/ \E p \in Project, what \in {"query", "operations"} :
         RefuseProject(h, p, what) \/ Request(h, p, what)
    \/ Load(h)
    \/ Fail(h)
    \/ \E r \in UNION {Asked[h][c] : c \in Contract} : Serve(h, r)
    \/ Operations(h)
    \/ Return(h)

Spec == Init /\ [][Next]_vars
-----------------------------------------------------------------------------
(* What an answer promises *)

RECURSIVE Collect(_, _, _, _)

\* The fields a selection set asks of an object, with its fragments expanded:
\* for each, the definition it is resolved against and the selection.
Collect(s, frags, def, set) ==
  FlattenSeq([i \in DOMAIN set |->
    CASE set[i].sel = "field" -> <<[def |-> def, sel |-> set[i]]>>
      [] set[i].sel = "spread" ->
           Collect(s, frags, ResolveTypeCondition(s, def, frags[set[i].name].on),
                   frags[set[i].name].set)
      [] set[i].sel = "inline" ->
           Collect(s, frags, ResolveTypeCondition(s, def, set[i].on), set[i].set)])

RECURSIVE SpecObject(_, _, _, _)

RECURSIVE SpecValue(_, _, _, _, _)

SpecValue(s, doc, type, set, args) ==
  IF type.lists > 0
  THEN Array([i \in 1..ListSize(args) |->
                SpecValue(s, doc, [type EXCEPT !.lists = @ - 1], set, args)])
  ELSE IF set = <<>> THEN LeafValue(s, type, args)
  ELSE SpecObject(s, doc, s.types[type.named], set)

\* The answer of the GraphQL specification: the sub-selections of every field
\* with the same response key are merged first, and the merged selection set is
\* answered once.
SpecObject(s, doc, def, set) ==
  LET fields == Collect(s, doc.frags, def, set)
      value(k) ==
        LET same == SelectSeq(fields, LAMBDA f : ResponseKey(f.sel) = k)
            one == Head(same)
        IN IF one.sel.name = "__typename" THEN Leaf(Last(same).def.name)
           ELSE SpecValue(s, doc, FindField(one.def, one.sel.name).type,
                          FlattenSeq([i \in DOMAIN same |-> same[i].sel.set]),
                          ResolveArgs(FindField(one.def, one.sel.name), one.sel.args, doc.vars))
  IN Object([k \in {ResponseKey(f.sel) : f \in Range(fields)} |-> value(k)])

RECURSIVE ListsBelow(_)

\* How deep arrays are nested in one another, with objects between them.
ListsBelow(v) ==
  CASE v.kind = "array" -> Max({0} \cup {ListsBelow(x) : x \in Range(v.items)}) + 1
    [] v.kind = "object" -> Max({0} \cup {ListsBelow(v.fields[k]) : k \in DOMAIN v.fields})
    [] OTHER -> 0

SpecAnswer(c, r) ==
  LET s == Compiled[c]
      op == SelectOperation(r.doc, r.name)
  IN SpecObject(s, [frags |-> r.doc.frags, vars |-> CoerceVariables(op, r.vars)],
                s.types[RootDefinition(s, op)], op.set)

Answers == {call[h] : h \in {g \in Handler : /\ call[g].at = "answered"
                                             /\ call[g].body # None}}
DataAnswers == {a \in Answers : a.body.kind = "data"}

\* The answer has every field that was selected, whatever mixture of aliases,
\* fragments and repeated keys asked for it ("Fields sharing the same response
\* key have their sub-selections merged per spec", engine.go, buildSelSet).
\* Here: as long as no list of objects lies below a top-level field.
TopLevelMergedPerSpec ==
  \A a \in DataAnswers :
    (\A k \in DOMAIN a.body.data : ListsBelow(a.body.data[k])
                                     <= IF a.body.data[k].kind = "array" THEN 1 ELSE 0)
      => Object(a.body.data) = SpecAnswer(a.contract, a.request)

\* The same of every answer, which the comment claims.
MergedPerSpec ==
  \A a \in DataAnswers : Object(a.body.data) = SpecAnswer(a.contract, a.request)

RECURSIVE Nested(_, _)

\* The fields of a selection set and of everything nested in it, each with the
\* number of selections around it.
Nested(set, frags) ==
  UNION {CASE set[i].sel = "field" ->
                {<<set[i].name, 1>>} \cup
                  {<<n[1], n[2] + 1>> : n \in Nested(set[i].set, frags)}
           [] set[i].sel = "inline" -> {<<n[1], n[2] + 1>> : n \in Nested(set[i].set, frags)}
           [] set[i].sel = "spread" ->
                {<<n[1], n[2] + 1>> : n \in Nested(frags[set[i].name].set, frags)}
         : i \in DOMAIN set}

\* What is answered with data is neither introspection ("returning mock garbage
\* for them would silently break GraphiQL", engine.go) nor nested deeper than
\* the engine walks, also where a fragment hides it.
RefusesWhatItCannotServe ==
  \A a \in DataAnswers :
    LET fields == Nested(SelectOperation(a.request.doc, a.request.name).set,
                         a.request.doc.frags)
    IN \A f \in fields : ~ IsIntrospection(f[1]) /\ f[2] <= MaxQueryDepth
=============================================================================
