--------------------------- MODULE DecodedTemplates ---------------------------
(***************************************************************************)
(* RenderValue of usecase/template.go: the placeholders of a decoded JSON  *)
(* value.  It is what the parameter RenderDecoded of McpEngine stands for. *)
(***************************************************************************)
EXTENDS Templates

RECURSIVE RenderValue(_, _, _)

\* [value, counters]: every string of the value, with the counters it moved; the
\* fields of an object in some order, the code's being that of a map.
RenderValue(v, ctx, counters) ==
  CASE v.kind = "template" -> RenderString(v.src, ctx, counters)
    [] v.kind = "array" ->
         LET all == FoldLeft(LAMBDA acc, x :
                      LET r == RenderValue(x, ctx, acc.counters)
                      IN [items |-> Append(acc.items, r.value), counters |-> r.counters],
                      [items |-> <<>>, counters |-> counters], v.items)
         IN [value |-> Array(all.items), counters |-> all.counters]
    [] v.kind = "object" ->
         LET all == FoldLeft(LAMBDA acc, k :
                      LET r == RenderValue(v.fields[k], ctx, acc.counters)
                      IN [fields |-> Put(acc.fields, k, r.value), counters |-> r.counters],
                      [fields |-> NoKeys, counters |-> counters], SetToSeq(DOMAIN v.fields))
         IN [value |-> Object(all.fields), counters |-> all.counters]
    [] OTHER -> [value |-> v, counters |-> counters]
===============================================================================
