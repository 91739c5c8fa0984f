--------------------------- MODULE BreakingChanges ---------------------------
(***************************************************************************)
(* The breaking-change detector: adapter/openapi/breaking.go.              *)
(*                                                                         *)
(* A document is a function from its operations to [params, body,          *)
(* responses]: params maps a parameter to [required, schema], body is      *)
(* NoBody or [required, content], and responses maps a code to content,    *)
(* which maps a media type to the name of a schema.  A schema is [types,   *)
(* enum, props, required, items, allOf]; schemas refer to each other by    *)
(* name, also in circles.  Changes are a set, their wording is left out.   *)
(***************************************************************************)
EXTENDS Integers, SequencesExt, FiniteSetsExt, Folds

CONSTANTS SchemaOf,        \* [names -> schemas]
          NoBody,          \* an operation without a request body
          NoSchema,        \* a parameter or a media type without a schema
          SuccessCodes,    \* the codes that start with a number in 200..299
          MaxChanges,      \* maxChanges
          MaxSchemaDepth   \* maxSchemaDepth

Change(kind, severity, at) == [kind |-> kind, severity |-> severity, at |-> at]
Breaking(kind, at) == {Change(kind, "breaking", at)}
Warning(kind, at) == {Change(kind, "warning", at)}

Added(old, new) == DOMAIN new \ DOMAIN old
Removed(old, new) == DOMAIN old \ DOMAIN new
InBoth(old, new) == DOMAIN old \cap DOMAIN new

TypesOf(s) == IF s = NoSchema THEN {} ELSE SchemaOf[s].types

\* Types are compared only where both versions declare one.
TypeChanged(o, n) == TypesOf(o) # {} /\ TypesOf(n) # {} /\ TypesOf(o) # TypesOf(n)
-----------------------------------------------------------------------------
(* Schemas *)

Nothing == [props |-> [x \in {} |-> NoSchema], required |-> {}]

OwnProperties(s, depth) ==
  [props |-> SchemaOf[s].props, required |-> SchemaOf[s].required]

RECURSIVE CollectProperties(_, _)

\* The properties of a schema and of those in its allOf; its own come last and win.
CollectProperties(s, depth) ==
  IF depth > MaxSchemaDepth THEN Nothing
  ELSE LET sub(acc, name) ==
             LET c == CollectProperties(name, depth + 1)
             IN [props |-> c.props @@ acc.props, required |-> acc.required \cup c.required]
           inherited == FoldLeft(sub, Nothing, SchemaOf[s].allOf)
       IN [props |-> SchemaOf[s].props @@ inherited.props,
           required |-> inherited.required \cup SchemaOf[s].required]

Properties(s) == CollectProperties(s, 0)

\* Fewer values for what is sent, more of them in what is received; nothing is said
\* when only one version lists values.
CompareEnum(at, o, n, request) ==
  LET old == SchemaOf[o].enum
      new == SchemaOf[n].enum
  IN IF old = {} \/ new = {} THEN {}
     ELSE IF request THEN UNION {Breaking("enum-removed", Append(at, v)) : v \in old \ new}
     ELSE UNION {Warning("enum-added", Append(at, v)) : v \in new \ old}

RequirednessSwapped(at, request, was, is) ==
  IF request = (was /\ ~ is) /\ was # is THEN Breaking("requiredness", at) ELSE {}

CompareRequiredness(at, request, was, is) ==
  CASE request /\ ~ was /\ is -> Breaking("field-required", at)
    [] ~ request /\ was /\ ~ is -> Breaking("field-optional", at)
    [] OTHER -> {}

RemovedField(at, request) ==
  IF request THEN Warning("field-removed", at) ELSE Breaking("field-removed", at)

RECURSIVE CompareSchema(_, _, _, _, _, _)

CompareProperties(at, o, n, request, depth, seen) ==
  LET old == Properties(o)
      new == Properties(n)
      kept(name) ==
        CompareRequiredness(Append(at, name), request, name \in old.required, name \in new.required)
        \cup CompareSchema(Append(at, name), old.props[name], new.props[name], request,
                           depth + 1, seen)
      added == IF request THEN Added(old.props, new.props) \cap new.required ELSE {}
  IN UNION {RemovedField(Append(at, name), request) : name \in Removed(old.props, new.props)}
     \cup UNION {kept(name) : name \in InBoth(old.props, new.props)}
     \cup UNION {Breaking("field-added-required", Append(at, name)) : name \in added}

\* seen holds the pairs that are being compared, so circles end.
CompareSchema(at, o, n, request, depth, seen) ==
  IF depth > MaxSchemaDepth \/ <<o, n>> \in seen THEN {}
  ELSE IF TypeChanged(o, n) THEN Breaking("type-changed", at)
  ELSE LET now == seen \cup {<<o, n>>}
           items == IF NoSchema \in {SchemaOf[o].items, SchemaOf[n].items} THEN {}
                    ELSE CompareSchema(Append(at, "[]"), SchemaOf[o].items, SchemaOf[n].items,
                                       request, depth + 1, now)
       IN CompareEnum(at, o, n, request)
          \cup CompareProperties(at, o, n, request, depth, now)
          \cup items
-----------------------------------------------------------------------------
(* Operations *)

CompareParam(at, o, n) ==
  (IF ~ o.required /\ n.required THEN Breaking("param-required", at) ELSE {})
  \cup (IF TypeChanged(o.schema, n.schema) THEN Breaking("type-changed", at) ELSE {})

CompareAddedParams(at, old, new) ==
  UNION {Breaking("param-added-required", Append(at, p)) :
           p \in {q \in Added(old, new) : new[q].required}}

CompareParams(at, old, new) ==
  UNION {Warning("param-removed", Append(at, p)) : p \in Removed(old, new)}
  \cup UNION {CompareParam(Append(at, p), old[p], new[p]) : p \in InBoth(old, new)}
  \cup CompareAddedParams(at, old, new)

\* A media type that is gone matters in a successful response.
CompareContent(at, old, new, request, success) ==
  LET compared == {mt \in InBoth(old, new) : NoSchema \notin {old[mt], new[mt]}}
      gone == IF ~ request /\ success THEN Removed(old, new) ELSE {}
  IN UNION {Breaking("media-type-removed", Append(at, mt)) : mt \in gone}
     \cup UNION {CompareSchema(Append(at, mt), old[mt], new[mt], request, 0, {}) : mt \in compared}

CompareBody(at, old, new) ==
  CASE old = NoBody -> IF new # NoBody /\ new.required THEN Breaking("body-required", at) ELSE {}
    [] old # NoBody /\ new = NoBody -> Warning("body-removed", at)
    [] OTHER -> (IF ~ old.required /\ new.required THEN Breaking("body-required", at) ELSE {})
                \cup CompareContent(at, old.content, new.content, TRUE, FALSE)

RemovedResponse(at, success) ==
  IF success THEN Breaking("response-removed", at) ELSE Warning("response-removed", at)

CompareResponses(at, old, new) ==
  UNION {RemovedResponse(Append(at, c), c \in SuccessCodes) : c \in Removed(old, new)}
  \cup UNION {CompareContent(Append(at, c), old[c], new[c], FALSE, c \in SuccessCodes) :
                c \in InBoth(old, new)}

CompareOperation(at, old, new) ==
  CompareParams(at, old.params, new.params)
  \cup CompareBody(Append(at, "body"), old.body, new.body)
  \cup CompareResponses(at, old.responses, new.responses)

CompareDocs(old, new) ==
  UNION {Breaking("operation-removed", <<op>>) : op \in Removed(old, new)}
  \cup UNION {CompareOperation(<<op>>, old[op], new[op]) : op \in InBoth(old, new)}

\* What may be reported: of more changes than fit, the first ones.  Which these are,
\* an order of the operations and of the names in them, is left open.
BreakingChanges(old, new) ==
  LET all == CompareDocs(old, new)
  IN IF Cardinality(all) <= MaxChanges THEN {all} ELSE kSubset(MaxChanges, all)
=============================================================================
