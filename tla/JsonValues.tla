----------------------------- MODULE JsonValues -----------------------------
(***************************************************************************)
(* Decoded JSON as the mock servers handle it: a value carries its kind,   *)
(* an object is a function from its keys, an array a sequence.  A leaf is  *)
(* a string or a boolean, told apart by its text; a number counts halves,  *)
(* so that the conversion of a fraction to an integer shows.               *)
(***************************************************************************)
EXTENDS Integers, SequencesExt, FiniteSetsExt

Null == [kind |-> "null"]
Leaf(v) == [kind |-> "leaf", value |-> v]
Number(halves) == [kind |-> "number", halves |-> halves]
Array(items) == [kind |-> "array", items |-> items]
Object(fields) == [kind |-> "object", fields |-> fields]

NoKeys == [k \in {} |-> Null]
Put(map, k, v) == (k :> v) @@ map

\* What a look-up in a document returns: the value, and whether it is there.
Missing == [found |-> FALSE, value |-> Null]
Found(v) == [found |-> TRUE, value |-> v]

\* A segment of a path is a text: a key of an object, or an index of an array,
\* from 0 (arrays here are no longer than Digits).
Digits == <<"0", "1", "2", "3">>

Descend(at, seg) ==
  LET atIndex == {i \in DOMAIN at.value.items : Digits[i] = seg}
  IN CASE at.found /\ at.value.kind = "object" /\ seg \in DOMAIN at.value.fields ->
            Found(at.value.fields[seg])
       [] at.found /\ at.value.kind = "array" /\ atIndex # {} ->
            Found(at.value.items[Min(atIndex)])
       [] OTHER -> Missing

\* The value at a path, cut into its segments; the empty path is the document.
LookupJSONPath(doc, path) == FoldLeft(Descend, Found(doc), path)
=============================================================================
