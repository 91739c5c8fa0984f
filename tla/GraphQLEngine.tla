--------------------------- MODULE GraphQLEngine ---------------------------
(***************************************************************************)
(* What internal/adapter/graphql/engine.go does with a compiled schema and *)
(* a parsed query: choosing the operation, refusing the documents it does  *)
(* not serve, and building a mock answer shaped by the selection set.      *)
(*                                                                         *)
(* A schema is a record [types, query, mutation, subscription]:            *)
(* types is a function from names to definitions, the roots are names or   *)
(* None.  A definition is [name, kind, fields, members, values, builtIn];  *)
(* a field of it is [name, type, args], an argument [name, default] and a  *)
(* type [lists, named]: named inside that many list brackets.              *)
(*                                                                         *)
(* A document is [parses, ops, frags]; an operation is                     *)
(* [name, kind, set, vars], and a selection set a sequence of              *)
(*   [sel |-> "field", name, alias, args, set],                            *)
(*   [sel |-> "spread", name], [sel |-> "inline", on, set].                *)
(*                                                                         *)
(* The parser and the validator are gqlparser's, outside src/: of them     *)
(* only what the engine relies on is here.                                 *)
(***************************************************************************)
EXTENDS JsonValues

CONSTANTS None,             \* an absent name: no alias, no condition, no root
          MaxQueryDepth,    \* maxQueryDepth
          MaxMockListSize   \* maxMockListSize

ASSUME DepthAssumption == MaxQueryDepth \in Nat \ {0}
ASSUME ListAssumption == MaxMockListSize \in Nat \ {0}
-----------------------------------------------------------------------------
(* The schema's look-ups *)

TypeNamed(s, name) == IF name \in DOMAIN s.types THEN s.types[name] ELSE None

FindField(def, name) ==
  LET named == {i \in DOMAIN def.fields : def.fields[i].name = name}
  IN IF def = None \/ named = {} THEN None ELSE def.fields[Min(named)]

IsComposite(def) == def.kind \in {"object", "interface", "union"}

ResolveTypeCondition(s, parent, on) ==
  IF on = None \/ TypeNamed(s, on) = None THEN parent ELSE TypeNamed(s, on)

CntTypes(s) == Cardinality({n \in DOMAIN s.types : ~ s.types[n].builtIn})

IsIntrospection(name) == name \in {"__schema", "__type"}

OwnFields(s, root) ==
  IF root = None THEN <<>>
  ELSE SelectSeq(s.types[root].fields, LAMBDA f : ~ IsIntrospection(f.name))

CntFields(s, root) == Len(OwnFields(s, root))

\* The root fields, one group per kind of operation, by name within a group:
\* "mutation" before "query" before "subscription".
ListOperations(s) ==
  LET group(kind, root) ==
        {[type |-> kind, field |-> OwnFields(s, root)[i]] : i \in DOMAIN OwnFields(s, root)}
  IN  group("mutation", s.mutation) \cup group("query", s.query)
        \cup group("subscription", s.subscription)
-----------------------------------------------------------------------------
(* Arguments *)

\* The declared defaults, then the arguments given.  A variable without a value
\* counts as null, and as given.
ResolveArgs(field, args, vars) ==
  LET value(v) == IF v.kind # "var" THEN v
                  ELSE IF v.var \in DOMAIN vars THEN vars[v.var] ELSE Null
      defaulted == {a \in Range(field.args) : a.default # None}
  IN  [n \in DOMAIN args |-> value(args[n])]
        @@ [n \in {a.name : a \in defaulted} |->
              (CHOOSE a \in defaulted : a.name = n).default]

\* The limit argument clamped; the conversion to an integer cuts a fraction off.
ListSize(args) ==
  IF "limit" \in DOMAIN args /\ args["limit"].kind = "number" /\ args["limit"].halves > 0
  THEN Min({args["limit"].halves, 2 * MaxMockListSize}) \div 2
  ELSE 2
-----------------------------------------------------------------------------
(* Leaves *)

ScalarValue(def) ==
  CASE def.name = "Int" -> Number(2)
    [] def.name = "Float" -> Number(2)
    [] def.name = "Boolean" -> Leaf(TRUE)
    [] def.name = "ID" -> Leaf("1")
    [] def.name = "String" -> Leaf("example")
    [] OTHER -> Leaf("mock")

EnumValue(def) == IF def.values = <<>> THEN Null ELSE Leaf(def.values[1])

RECURSIVE LeafValue(_, _, _)

\* The shape of a composite type without a selection set: a fallback, which a
\* validated query never reaches.
ObjShape(s, def, args) ==
  LET shaped == IF def.kind = "union" /\ def.members # <<>>
                THEN TypeNamed(s, def.members[1]) ELSE def
      fields == {f \in Range(shaped.fields) : f.name # "__typename"}
  IN  IF shaped = None THEN Object(NoKeys)
      ELSE IF fields = {} THEN Object("__typename" :> Leaf(shaped.name))
      ELSE Object([n \in {f.name : f \in fields} |->
                     LeafValue(s, FindField(shaped, n).type, args)])

InputShape(s, def, args) ==
  LET value(f) == IF f.default # None THEN f.default ELSE LeafValue(s, f.type, args)
  IN  IF def.fields = <<>> THEN Object("__typename" :> Leaf(def.name))
      ELSE Object([n \in {f.name : f \in Range(def.fields)} |-> value(FindField(def, n))])

LeafValue(s, type, args) ==
  LET def == TypeNamed(s, type.named)
  IN CASE type.lists > 0 ->
            Array([i \in 1..ListSize(args) |->
                     LeafValue(s, [type EXCEPT !.lists = @ - 1], args)])
       [] type.lists = 0 /\ def = None -> Null
       [] type.lists = 0 /\ def # None ->
            (CASE def.kind = "scalar" -> ScalarValue(def)
               [] def.kind = "enum" -> EnumValue(def)
               [] IsComposite(def) -> ObjShape(s, def, args)
               [] def.kind = "input" -> InputShape(s, def, args))
-----------------------------------------------------------------------------
(* Merging the values of a response key that is selected twice *)

RECURSIVE MergeResponseMaps(_, _)

\* Objects are merged, key by key; for every other pair src's value wins.
MergeResponseMaps(dst, src) ==
  [k \in DOMAIN dst \cup DOMAIN src |->
     IF k \notin DOMAIN src THEN dst[k]
     ELSE IF k \in DOMAIN dst /\ dst[k].kind = "object" /\ src[k].kind = "object"
     THEN Object(MergeResponseMaps(dst[k].fields, src[k].fields))
     ELSE src[k]]

Mergeable(a, b) ==
  \/ a.kind = "object" /\ b.kind = "object"
  \/ a.kind = "array" /\ b.kind = "array" /\ Len(a.items) = Len(b.items)

MergeResponseValues(a, b) ==
  IF a.kind = "object" THEN Object(MergeResponseMaps(a.fields, b.fields))
  ELSE Array([i \in DOMAIN a.items |->
         IF a.items[i].kind = "object" /\ b.items[i].kind = "object"
         THEN Object(MergeResponseMaps(a.items[i].fields, b.items[i].fields))
         ELSE a.items[i]])

LastOneWins(map, k, v) == Put(map, k, v)

\* One value put under a key of the answer: merged when both sides allow it.
Merge(map, k, v) ==
  Put(map, k, IF k \in DOMAIN map /\ Mergeable(map[k], v)
              THEN MergeResponseValues(map[k], v) ELSE v)

MergeSelSet(dst, src) == FoldSet(LAMBDA k, map : Merge(map, k, src[k]), dst, DOMAIN src)
-----------------------------------------------------------------------------
(* The answer to a selection set *)

RECURSIVE BuildSelSet(_, _, _, _, _)

RECURSIVE FieldValue(_, _, _, _, _, _)

FieldValue(s, frags, type, set, args, vars) ==
  LET def == TypeNamed(s, type.named)
  IN CASE type.lists > 0 ->
            Array([i \in 1..ListSize(args) |->
                     FieldValue(s, frags, [type EXCEPT !.lists = @ - 1], set, args, vars)])
       [] type.lists = 0 /\ set = <<>> -> LeafValue(s, type, args)
       [] type.lists = 0 /\ set # <<>> ->
            IF def # None /\ IsComposite(def)
            THEN Object(BuildSelSet(s, frags, def, set, vars)) ELSE Null

ResponseKey(sel) == IF sel.alias = None THEN sel.name ELSE sel.alias

ApplyField(s, frags, def, result, sel, vars) ==
  LET field == FindField(def, sel.name)
  IN IF sel.name = "__typename"
     THEN Put(result, ResponseKey(sel), Leaf(def.name))
     ELSE IF field = None THEN Put(result, ResponseKey(sel), Null)
     ELSE Merge(result, ResponseKey(sel),
            FieldValue(s, frags, field.type, sel.set,
                       ResolveArgs(field, sel.args, vars), vars))

ApplyFragmentSpread(s, frags, def, result, sel, vars) ==
  IF sel.name \notin DOMAIN frags THEN result
  ELSE MergeSelSet(result,
         BuildSelSet(s, frags, ResolveTypeCondition(s, def, frags[sel.name].on),
                     frags[sel.name].set, vars))

ApplyInlineFragment(s, frags, def, result, sel, vars) ==
  MergeSelSet(result,
    BuildSelSet(s, frags, ResolveTypeCondition(s, def, sel.on), sel.set, vars))

BuildSelSet(s, frags, def, set, vars) ==
  FoldLeft(LAMBDA result, sel :
             CASE sel.sel = "field" -> ApplyField(s, frags, def, result, sel, vars)
               [] sel.sel = "spread" -> ApplyFragmentSpread(s, frags, def, result, sel, vars)
               [] sel.sel = "inline" -> ApplyInlineFragment(s, frags, def, result, sel, vars),
           NoKeys, set)
-----------------------------------------------------------------------------
(* What the engine refuses to serve *)

RECURSIVE SelSetDepth(_, _, _)

SelSetDepth(set, frags, depth) ==
  LET below(sel) ==
        CASE sel.sel \in {"field", "inline"} -> SelSetDepth(sel.set, frags, depth + 1)
          [] sel.sel = "spread" /\ sel.name \in DOMAIN frags ->
               SelSetDepth(frags[sel.name].set, frags, depth + 1)
          [] OTHER -> depth
  IN Max({depth} \cup {below(sel) : sel \in Range(set)})

FieldsOnly(set, frags, visited) ==
  \E sel \in Range(set) : sel.sel = "field" /\ IsIntrospection(sel.name)

RECURSIVE HasIntrospectionField(_, _, _)

\* visited are the fragments expanded above.  The code shares one set over the
\* whole scan: a fragment is scanned the first time it is met, and a second
\* scan of it would answer the same.
HasIntrospectionField(set, frags, visited) ==
  \E sel \in Range(set) :
    \/ sel.sel = "field" /\ IsIntrospection(sel.name)
    \/ sel.sel \in {"field", "inline"} /\ HasIntrospectionField(sel.set, frags, visited)
    \/ /\ sel.sel = "spread" /\ sel.name \in DOMAIN frags \ visited
       /\ HasIntrospectionField(frags[sel.name].set, frags, visited \cup {sel.name})

SelectOperation(doc, name) ==
  LET named == {i \in DOMAIN doc.ops : doc.ops[i].name = name}
  IN IF name # None
     THEN IF named = {} THEN None ELSE doc.ops[Min(named)]
     ELSE IF Len(doc.ops) = 1 THEN doc.ops[1] ELSE None

\* The root type of the operation's kind: a type's name, or None.
RootDefinition(s, op) ==
  CASE op.kind = "query" -> s.query
    [] op.kind = "mutation" -> s.mutation
    [] op.kind = "subscription" -> s.subscription

\* The values of the operation's variables: a declared default, overridden by
\* the request; a required variable without either is an error (None).
CoerceVariables(op, vars) ==
  LET given == {v \in Range(op.vars) : v.name \in DOMAIN vars}
      defaulted == {v \in Range(op.vars) \ given : v.default # None}
  IN IF \E v \in Range(op.vars) \ (given \cup defaulted) : v.required THEN None
     ELSE [n \in {v.name : v \in given} |-> vars[n]]
            @@ [n \in {v.name : v \in defaulted} |->
                  (CHOOSE v \in defaulted : v.name = n).default]
-----------------------------------------------------------------------------
(* gqlparser's validation, as far as the engine relies on it *)

RECURSIVE Sound(_, _, _, _, _)

\* Every field exists on its type and has a selection set exactly when its type
\* is composite; every spread names a fragment outside the ones being expanded.
Sound(s, frags, def, set, expanding) ==
  \A sel \in Range(set) :
    CASE sel.sel = "spread" ->
           /\ sel.name \in DOMAIN frags \ expanding
           /\ Sound(s, frags, ResolveTypeCondition(s, def, frags[sel.name].on),
                    frags[sel.name].set, expanding \cup {sel.name})
      [] sel.sel = "inline" ->
           Sound(s, frags, ResolveTypeCondition(s, def, sel.on), sel.set, expanding)
      [] sel.sel = "field" /\ sel.name = "__typename" -> sel.set = <<>>
      [] sel.sel = "field" /\ IsIntrospection(sel.name) -> def.name = s.query
      [] OTHER ->
           LET field == FindField(def, sel.name)
               type == IF field = None THEN None ELSE TypeNamed(s, field.type.named)
           IN /\ type # None
              /\ IsComposite(type) = (sel.set # <<>>)
              /\ sel.set # <<>> => Sound(s, frags, type, sel.set, expanding)

ValidDocument(s, doc) ==
  \A op \in Range(doc.ops) :
    RootDefinition(s, op) # None =>
      Sound(s, doc.frags, s.types[RootDefinition(s, op)], op.set, {})
-----------------------------------------------------------------------------
(* Execute, on the schema that loadSchema returned *)

Data(v) == [kind |-> "data", data |-> v]
QueryError(why) == [kind |-> "queryError", why |-> why]

Execute(s, doc, name, vars) ==
  LET op == SelectOperation(doc, name)
      coerced == CoerceVariables(op, vars)
      root == RootDefinition(s, op)
  IN IF ~ doc.parses THEN QueryError("parse")
     ELSE IF op = None THEN QueryError("operation")
     ELSE IF ~ ValidDocument(s, doc) THEN QueryError("invalid")
     ELSE IF SelSetDepth(op.set, doc.frags, 0) > MaxQueryDepth THEN QueryError("depth")
     ELSE IF HasIntrospectionField(op.set, doc.frags, {}) THEN QueryError("introspection")
     ELSE IF coerced = None THEN QueryError("variables")
     ELSE IF root = None THEN QueryError("root")
     ELSE Data(BuildSelSet(s, doc.frags, s.types[root], op.set, coerced))

\* What Validate reports of a schema that compiles, and of one that does not.
InvalidSchema == [valid |-> FALSE, types |-> 0, queries |-> 0, mutations |-> 0]

Validate(s) ==
  [valid |-> TRUE, types |-> CntTypes(s), queries |-> CntFields(s, s.query),
   mutations |-> CntFields(s, s.mutation)]
=============================================================================
