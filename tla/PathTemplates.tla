---------------------------- MODULE PathTemplates ----------------------------
(***************************************************************************)
(* The paths of a contract, and how a request's path is matched with them: *)
(* adapter/openapi/match.go, and pathParams of                             *)
(* usecase/mockserving_service.go.                                         *)
(*                                                                         *)
(* A path is the sequence of its segments.  Those of a template are        *)
(* [param, name]: a parameter, or a static text.                           *)
(***************************************************************************)
EXTENDS Naturals, SequencesExt, FiniteSetsExt

Static(text) == [param |-> FALSE, name |-> text]
Param(name) == [param |-> TRUE, name |-> name]

CountStaticSegments(tmpl) == Len(SelectSeq(tmpl, LAMBDA seg : ~ seg.param))

MatchPath(tmpl, path) ==
  /\ Len(tmpl) = Len(path)
  /\ \A i \in DOMAIN tmpl : tmpl[i].param \/ tmpl[i].name = path[i]

\* The templates of doc that have the operation and match the path.  An operation
\* is [method, path].
Candidates(doc, method, path) ==
  {op.path : op \in {o \in doc : o.method = method /\ MatchPath(o.path, path)}}

\* The walk over the paths keeps the first one with the most static segments.  It
\* is a walk over a map, so the first of several may be any of them.
MostStatic(tmpls) ==
  {t \in tmpls : \A u \in tmpls : CountStaticSegments(t) >= CountStaticSegments(u)}

\* The templates that may be found; none without an operation.
FindOperation(doc, method, path) == MostStatic(Candidates(doc, method, path))

\* The segments of the path that stand at a parameter, by its name.
PathParams(tmpl, path) ==
  LET at == {i \in DOMAIN tmpl : tmpl[i].param /\ i \in DOMAIN path}
  IN [name \in {tmpl[i].name : i \in at} |->
        path[Max({i \in at : tmpl[i].name = name})]]
=============================================================================
