--------------------------- MODULE ContractClients ---------------------------
(***************************************************************************)
(* The comparison of ContractTools with the detector of BreakingChanges,   *)
(* against what the clients of a contract notice: which requests it takes  *)
(* and which responses it describes, by a reference that follows schemas   *)
(* and not the detector's rules.                                           *)
(***************************************************************************)
EXTENDS ContractTools, BreakingChanges

CONSTANT Values   \* decoded JSON values a client may send or receive, [kind, ...]

RECURSIVE Parts(_), Accepts(_, _, _)

\* A schema and what its allOf adds to it.
Parts(s) == {s} \cup UNION {Parts(q) : q \in Range(SchemaOf[s].allOf)}

Named(s) == UNION {DOMAIN SchemaOf[q].props \cup SchemaOf[q].required : q \in Parts(s)}

AcceptsPart(s, v, declared) ==
  /\ SchemaOf[s].types # {} => v.kind \in SchemaOf[s].types
  /\ SchemaOf[s].enum # {} => v.kind = "string" /\ v.value \in SchemaOf[s].enum
  /\ v.kind = "object" =>
       /\ SchemaOf[s].required \subseteq DOMAIN v.fields
       /\ \A f \in InBoth(v.fields, SchemaOf[s].props) :
            Accepts(SchemaOf[s].props[f], v.fields[f], declared)
  /\ v.kind = "array" /\ SchemaOf[s].items # NoSchema =>
       \A i \in DOMAIN v.items : Accepts(SchemaOf[s].items, v.items[i], declared)

\* The schema accepts the value; declared: with fields it names only.
Accepts(s, v, declared) ==
  /\ \A q \in Parts(s) : AcceptsPart(q, v, declared)
  /\ declared /\ v.kind = "object" => DOMAIN v.fields \subseteq Named(s)

\* The values a schema takes, and those it describes.
Taken == [s \in DOMAIN SchemaOf |-> {v \in Values : Accepts(s, v, FALSE)}]
Described == [s \in DOMAIN SchemaOf |-> {v \in Values : Accepts(s, v, TRUE)}]

RECURSIVE SchemaPairs(_, _, _)

Declared(s) == UNION {DOMAIN SchemaOf[q].props : q \in Parts(s)}
Under(s, f) == {SchemaOf[q].props[f] : q \in {p \in Parts(s) : f \in DOMAIN SchemaOf[p].props}}

\* The schemas of two versions at the same places.
SchemaPairs(o, n, depth) ==
  LET items == {SchemaOf[o].items} \X {SchemaOf[n].items}
      fields == UNION {Under(o, f) \X Under(n, f) : f \in Declared(o) \cap Declared(n)}
  IN IF depth = 0 THEN {}
     ELSE {<<o, n>>} \cup UNION {SchemaPairs(p[1], p[2], depth - 1) :
                                   p \in {q \in items \cup fields : NoSchema \notin {q[1], q[2]}}}

ContentPairs(old, new) == UNION {SchemaPairs(old[mt], new[mt], 4) : mt \in InBoth(old, new)}

ParamPairs(old, new) == {<<old[p].schema, new[p].schema>> : p \in InBoth(old, new)}

BodyPairs(old, new) ==
  IF NoBody \in {old, new} THEN {} ELSE ContentPairs(old.content, new.content)

ResponsePairs(old, new) == UNION {ContentPairs(old[c], new[c]) : c \in InBoth(old, new)}

\* What a schema itself says of types, values and items, and what its allOf adds.
Says(s) ==
  [types |-> {SchemaOf[s].types} \ {{}}, enum |-> {SchemaOf[s].enum} \ {{}},
   items |-> {SchemaOf[s].items} \ {NoSchema}]

Adds(s) == [k \in DOMAIN Says(s) |-> UNION {Says(q)[k] : q \in Parts(s)} \ Says(s)[k]]

\* No part of a schema narrows what another says, and what it says of objects, values
\* and items is said of something it accepts.
Plain(s) ==
  LET fits(kind) == \A q \in Parts(s) : SchemaOf[q].types # {} => kind \in SchemaOf[q].types
      said(k) == Says(s)[k] \cup Adds(s)[k]
  IN /\ \A k \in DOMAIN Says(s) : Cardinality(said(k)) <= 1
     /\ \A f \in Declared(s) : Cardinality(Under(s, f)) = 1
     /\ Named(s) # {} => fits("object")
     /\ said("enum") # {} => fits("string")
     /\ said("items") # {} => fits("array")

PlainSchemas == {s \in DOMAIN SchemaOf : Plain(s)}

\* What the detector does not compare: what is said of types, values and items by an
\* allOf, or by only one version; all but one of several declarations of a field; and
\* required names that are no fields.
Comparable(o, n) ==
  /\ {o, n} \subseteq PlainSchemas
  /\ Adds(o) = Adds(n)
  /\ \A k \in DOMAIN Says(o) : (Says(o)[k] = {}) = (Says(n)[k] = {})
  /\ Named(o) = Declared(o) /\ Named(n) = Declared(n)

ComparablePairs == {p \in (DOMAIN SchemaOf) \X (DOMAIN SchemaOf) : Comparable(p[1], p[2])}

\* Of a parameter it compares the types alone.
ComparableParam(o, n) ==
  \/ o = n
  \/ /\ NoSchema \notin {o, n}
     /\ (TypesOf(o) = {}) = (TypesOf(n) = {})
     /\ [SchemaOf[o] EXCEPT !.types = {}] = [SchemaOf[n] EXCEPT !.types = {}]

\* Nor does it say anything of a media type that a request body no longer has.
ComparableDocs(old, new) ==
  \A op \in InBoth(old, new) :
    LET o == old[op]
        n == new[op]
    IN /\ \A p \in ParamPairs(o.params, n.params) : ComparableParam(p[1], p[2])
       /\ BodyPairs(o.body, n.body) \cup ResponsePairs(o.responses, n.responses)
            \subseteq ComparablePairs
       /\ NoBody \notin {o.body, n.body} => DOMAIN o.body.content \subseteq DOMAIN n.body.content

ParamsSent(params) == UNION {[ps -> Values] : ps \in SUBSET DOMAIN params}
ParamsOk(params, sent) ==
  /\ \A p \in DOMAIN params : params[p].required => p \in DOMAIN sent
  /\ \A p \in (DOMAIN params) \cap (DOMAIN sent) :
       params[p].schema # NoSchema => sent[p] \in Taken[params[p].schema]

BodiesSent(body) == IF body = NoBody THEN {} ELSE (DOMAIN body.content) \X Values
BodyOk(body, sent) ==
  body = NoBody \/ (sent[1] \in DOMAIN body.content => sent[2] \in Described[body.content[sent[1]]])
BodyTaken(body, sent) ==
  sent[1] \in DOMAIN body.content => sent[2] \in Taken[body.content[sent[1]]]
MayOmit(body) == body = NoBody \/ ~ body.required

\* A request that was fine is not any more.
SenderBroken(old, new) ==
  \/ \E sent \in ParamsSent(old.params) : ParamsOk(old.params, sent) /\ ~ ParamsOk(new.params, sent)
  \/ MayOmit(old.body) /\ ~ MayOmit(new.body)
  \/ \E sent \in BodiesSent(old.body) : /\ BodyOk(old.body, sent)
                                        /\ new.body # NoBody /\ ~ BodyTaken(new.body, sent)

\* A response that may come is not one the old contract describes, or one that was
\* offered is gone.  Values that were not listed are only worth a warning.
Unlisted(o, n) == ~ Described[n] \subseteq Taken[o]

ReaderBroken(old, new) ==
  \/ \E c \in SuccessCodes : c \in Removed(old, new)
  \/ \E c \in SuccessCodes \cap InBoth(old, new) : Removed(old[c], new[c]) # {}
  \/ \E c \in InBoth(old, new) : \E mt \in InBoth(old[c], new[c]) : Unlisted(old[c][mt], new[c][mt])

ClientsBroken(old, new) ==
  \/ Removed(old, new) # {}
  \/ \E op \in InBoth(old, new) : \/ SenderBroken(old[op], new[op])
                                \/ ReaderBroken(old[op].responses, new[op].responses)

OpenAPIPairs == {p \in Compared : p[1].format = "openapi" /\ p[2].format = "openapi"}

\* A change that breaks a client is reported as breaking, or at least told of when
\* it is a new value in a response ("lists the differences that affect clients",
\* breaking.go), unless the list is full or the documents differ in what the
\* detector does not compare.
BreaksAreReported ==
  \A p \in OpenAPIPairs :
    ClientsBroken(p[1].doc, p[2].doc) /\ ComparableDocs(p[1].doc, p[2].doc)
      => \/ \E c \in out.changes : c.severity = "breaking" \/ c.kind = "enum-added"
         \/ Cardinality(out.changes) = MaxChanges

\* A type that is changed is reported from either side: also when all that a client
\* may send is taken as before, or when all that it may get it might have got before.
\* Types do not tell where values are listed.
Looser(from, to) ==
  /\ NoSchema \notin {from, to}
  /\ TypesOf(from) \subseteq TypesOf(to) \/ SchemaOf[from].enum # {}

TypesLoosened(old, new) ==
  \E op \in InBoth(old, new) :
    \/ \E p \in ParamPairs(old[op].params, new[op].params)
                  \cup BodyPairs(old[op].body, new[op].body) :
         TypeChanged(p[1], p[2]) /\ Looser(p[1], p[2])
    \/ \E p \in ResponsePairs(old[op].responses, new[op].responses) :
         TypeChanged(p[1], p[2]) /\ Looser(p[2], p[1])

AllPlain(old, new) ==
  \A op \in InBoth(old, new) :
    \A p \in ParamPairs(old[op].params, new[op].params)
               \cup BodyPairs(old[op].body, new[op].body)
               \cup ResponsePairs(old[op].responses, new[op].responses) :
      {p[1], p[2]} \subseteq PlainSchemas \cup {NoSchema}

\* What is reported as breaking does break some client: "judged from the client's
\* side" (breaking.go), where no part of a schema contradicts another.  A field that is
\* removed from a response counts whether clients could rely on it or not, and a type
\* that is only loosened counts as changed.
BreakingIsReal ==
  \A p \in OpenAPIPairs :
    /\ AllPlain(p[1].doc, p[2].doc)
    /\ \E c \in out.changes :
         /\ c.severity = "breaking" /\ c.kind # "field-removed"
         /\ c.kind = "type-changed" => ~ TypesLoosened(p[1].doc, p[2].doc)
    => ClientsBroken(p[1].doc, p[2].doc)
=============================================================================
