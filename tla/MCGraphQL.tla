------------------------------ MODULE MCGraphQL ------------------------------
(***************************************************************************)
(* GraphQLServing for TLC: a cache of two schemas that three               *)
(* contracts compete for, and one handler that is sent every document      *)
(* below, the other a plain one.                                           *)
(***************************************************************************)
EXTENDS GraphQLServing

CONSTANTS people, pings, pongs, broken, rest, h1, h2

Type(name) == [lists |-> 0, named |-> name]
ListOf(name) == [lists |-> 1, named |-> name]
Limit(default) == <<[name |-> "limit", default |-> default]>>
FieldDef(name, type) == [name |-> name, type |-> type, args |-> <<>>]
Def(name, kind, fields) ==
  [name |-> name, kind |-> kind, fields |-> fields, members |-> <<>>, values |-> <<>>,
   builtIn |-> FALSE]

Scalar(name) == [Def(name, "scalar", <<>>) EXCEPT !.builtIn = TRUE]

Users ==
  [n \in {"Int", "String", "ID", "Role", "User", "Post", "Node", "Hit", "Query"} |->
     CASE n \in {"Int", "String", "ID"} -> Scalar(n)
       [] n = "Role" -> [Def("Role", "enum", <<>>) EXCEPT !.values = <<"ADMIN", "GUEST">>]
       [] n = "User" -> Def("User", "object",
            <<FieldDef("id", Type("ID")), FieldDef("name", Type("String")),
              FieldDef("role", Type("Role")), FieldDef("friend", Type("User")),
              FieldDef("posts", ListOf("Post"))>>)
       [] n = "Post" -> Def("Post", "object",
            <<FieldDef("id", Type("ID")), FieldDef("title", Type("String"))>>)
       [] n = "Node" -> Def("Node", "interface", <<FieldDef("id", Type("ID"))>>)
       [] n = "Hit" -> [Def("Hit", "union", <<>>) EXCEPT !.members = <<"User", "Post">>]
       [] n = "Query" -> Def("Query", "object",
            <<FieldDef("user", Type("User")), FieldDef("node", Type("Node")),
              FieldDef("find", Type("Hit")),
              [name |-> "users", type |-> ListOf("User"), args |-> Limit(Number(6))]>>)]

Ping ==
  [n \in {"String", "Query"} |->
     IF n = "String" THEN Scalar(n)
     ELSE Def("Query", "object", <<FieldDef("ping", Type("String"))>>)]

Schema(types) ==
  [types |-> types, query |-> "Query", mutation |-> None, subscription |-> None]

MCCompiles == {people, pings, pongs}

MCFormatOf == [x \in {people, pings, pongs, broken, rest} |-> IF x = rest THEN "openapi" ELSE "graphql"]
\* pings and pongs compile to the same schema, another one than people, and broken does not compile.
MCCompiled ==
  [x \in {people, pings, pongs, broken, rest} |->
     IF x = people THEN Schema(Users) ELSE Schema(Ping)]

NoArgs == [k \in {} |-> Null]
F(name, set) == [sel |-> "field", name |-> name, alias |-> None, args |-> NoArgs, set |-> set]
As(alias, f) == [f EXCEPT !.alias = alias]
With(f, limit) == [f EXCEPT !.args = "limit" :> limit]
Spread(name) == [sel |-> "spread", name |-> name]
Inline(on, set) == [sel |-> "inline", on |-> on, set |-> set]

Frags ==
  [n \in {"onUser", "hidden", "loop"} |->
     CASE n = "onUser" -> [on |-> "User", set |-> <<F("name", <<>>), F("friend", <<F("role", <<>>)>>)>>]
       [] n = "hidden" -> [on |-> "Query", set |-> <<F("__schema", <<F("types", <<>>)>>)>>]
       [] n = "loop" -> [on |-> "User", set |-> <<Spread("loop")>>]]

\* What is asked of a user, and of the query itself.
OfUser ==
  {<<F("id", <<>>)>>, <<As("n", F("name", <<>>)), F("__typename", <<>>)>>,
   <<F("friend", <<F("id", <<>>)>>)>>, <<F("friend", <<F("friend", <<F("name", <<>>)>>)>>)>>,
   <<F("posts", <<F("id", <<>>)>>)>>, <<F("posts", <<F("title", <<>>)>>)>>,
   <<Spread("onUser")>>, <<Inline(None, <<F("friend", <<F("name", <<>>)>>)>>)>>,
   <<Spread("loop")>>}

OfQuery ==
  {F("user", set) : set \in OfUser}
    \cup {With(F("users", set), [kind |-> "var", var |-> "n"])
            : set \in {<<F("id", <<>>)>>, <<Spread("onUser")>>, <<F("posts", <<F("id", <<>>)>>)>>}}
    \cup {F("find", <<Inline("User", <<F("name", <<>>)>>), Inline("Post", <<F("title", <<>>)>>)>>),
          As("all", F("users", <<F("name", <<>>)>>)), Spread("hidden"), F("__type", <<>>),
          As("f", With(F("users", <<F("id", <<>>)>>), Number(1))), F("ping", <<>>),
          Inline(None, <<F("user", <<F("role", <<>>)>>)>>)}

Op(name, set) ==
  [name |-> name, kind |-> "query", set |-> set,
   vars |-> <<[name |-> "n", required |-> FALSE, default |-> None]>>]

Doc(ops) == [parses |-> TRUE, ops |-> ops, frags |-> Frags]
Ask(doc) == [doc |-> doc, name |-> None, vars |-> "n" :> Number(200)]

\* Every pair of selections; and the documents with another number of operations.
Documents ==
  {Ask(Doc(<<Op(None, <<x, y>>)>>)) : x, y \in OfQuery}
    \cup {Ask(Doc(<<>>)), Ask([Doc(<<>>) EXCEPT !.parses = FALSE]),
          [Ask(Doc(<<Op("x", <<F("node", <<F("id", <<>>)>>)>>), Op("y", <<F("node", <<F("id", <<>>)>>)>>)>>))
             EXCEPT !.name = "x"],
          [Ask(Doc(<<[Op(None, <<F("node", <<F("id", <<>>)>>)>>)
                        EXCEPT !.vars = <<[name |-> "m", required |-> TRUE, default |-> None]>>]>>))
             EXCEPT !.vars = NoArgs],
          Ask(Doc(<<[Op(None, <<F("ping", <<>>)>>) EXCEPT !.kind = "mutation"]>>))}

Plain == {Ask(Doc(<<Op(None, <<F("ping", <<>>)>>)>>))}

MCAsked ==
  [h \in Handler |-> [x \in Contract |-> IF h = h1 /\ x = people THEN Documents ELSE Plain]]
=============================================================================
