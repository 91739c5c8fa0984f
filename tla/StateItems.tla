----------------------------- MODULE StateItems -----------------------------
(***************************************************************************)
(* The resources a stateful mock keeps, and the pure helpers that change a *)
(* collection of them (internal/usecase/state_service.go, "Item helpers";  *)
(* internal/domain/state.go).                                              *)
(*                                                                         *)
(* A resource is addressed by the TEXT of its id, the last segment of its  *)
(* URL.  The decimal text of the integer n is written n here, every other  *)
(* text (a name, a UUID) is a member of Texts, so that the number 5 and    *)
(* the string "5" of two request bodies are one key, as they are for       *)
(* fmt.Sprint.  Integers have the width of Go's int: MinInt .. MaxInt.     *)
(***************************************************************************)
EXTENDS Integers, Sequences

CONSTANTS
  MaxInt,     \* largest int of the platform (2^63 - 1 in the builds)
  Texts,      \* ids whose text is not that of an integer
  Field,      \* top-level fields of a resource, "id" excepted
  Value,      \* values of a field
  Unset       \* marks a field, or the id, that a JSON object does not have

ASSUME MaxIntAssumption == MaxInt \in Nat \ {0}
ASSUME TextsAssumption == Texts \cap Int = {}
ASSUME UnsetAssumption == Unset \notin Value /\ Unset \notin Texts /\ Unset \notin Int

MinInt == -MaxInt - 1

\* n + 1 in two's complement
Increment(n) == IF n = MaxInt THEN MinInt ELSE n + 1

Key == (MinInt .. MaxInt) \cup Texts

\* A JSON value under "id": only a JSON number is looked at by bumpNextID.
IdValue == [number : BOOLEAN, key : Key]

NoId == [number |-> FALSE, key |-> Unset]

\* What json.Decode makes of a request body: an object with or without "id".
Object == [id : IdValue \cup {NoId}, fields : [Field -> Value \cup {Unset}]]

Item == [key : Key, data : [id : IdValue, fields : [Field -> Value \cup {Unset}]]]

Coll == [items : Seq(Item), nextId : MinInt .. MaxInt]

\* A collection nobody has written yet: what clone(nil) returns.
NoCollection == [items |-> <<>>, nextId |-> 0]

DistinctKeys(c) ==
  \A i, j \in DOMAIN c.items : c.items[i].key = c.items[j].key => i = j

\* The key of every resource is the text of the id inside it.
KeysMatchIds(c) ==
  \A i \in DOMAIN c.items : c.items[i].data.id.key = c.items[i].key

Keys(c) == {c.items[i].key : i \in DOMAIN c.items}

Has(c, key) == key \in Keys(c)

IndexOf(c, key) ==
  CHOOSE i \in DOMAIN c.items :
    /\ c.items[i].key = key
    /\ \A j \in DOMAIN c.items : j < i => c.items[j].key # key

-----------------------------------------------------------------------------
(***************************************************************************)
(* addItem.  The id comes from the object, or is the UUID the server drew  *)
(* (uuid), or the next sequential integer that is not taken.               *)
(***************************************************************************)

FirstIdByLength(c) == Len(c.items) + 1
FirstId(c) == IF c.nextId < 1 THEN 1 ELSE c.nextId

\* The counter after an object that carries its own id.
BumpNextId(n, id) ==
  IF id.number /\ id.key \in Int /\ id.key >= n THEN Increment(id.key) ELSE n

Least(S) == CHOOSE i \in S : \A j \in S : i <= j

\* The first free integer at or after n, counting through the overflow.  (With
\* no free integer at all the code's loop has no end; n is then a conflict.)
FreeIdUnchecked(c, n) == n
FreeId(c, n) ==
  LET Free == {i \in MinInt .. MaxInt : ~Has(c, i)}
      Ahead == {i \in Free : i >= n}
  IN IF Free = {} THEN n ELSE Least(IF Ahead # {} THEN Ahead ELSE Free)

\* The id and the counter addItem settles on.
ChosenId(c, obj, uuid) ==
  IF obj.id # NoId
  THEN [id |-> obj.id, nextId |-> BumpNextId(FirstId(c), obj.id)]
  ELSE IF uuid # Unset
  THEN [id |-> [number |-> FALSE, key |-> uuid], nextId |-> FirstId(c)]
  ELSE LET n == FreeId(c, FirstId(c))
       IN [id |-> [number |-> TRUE, key |-> n], nextId |-> Increment(n)]

\* errStateConflict: the id is in the collection already.
ConflictsByValue(c, obj, uuid) ==
  \E i \in DOMAIN c.items : c.items[i].data.id = ChosenId(c, obj, uuid).id
Conflicts(c, obj, uuid) == Has(c, ChosenId(c, obj, uuid).id.key)

NewItem(c, obj, uuid) ==
  LET id == ChosenId(c, obj, uuid).id
  IN [key |-> id.key, data |-> [id |-> id, fields |-> obj.fields]]

AddItem(c, obj, uuid) ==
  [items  |-> Append(c.items, NewItem(c, obj, uuid)),
   nextId |-> ChosenId(c, obj, uuid).nextId]

-----------------------------------------------------------------------------
(***************************************************************************)
(* update and remove, for a key the collection has.                        *)
(***************************************************************************)

\* buildUpdate: PATCH merges the fields, PUT replaces them; the id survives.
BuildUpdate(old, obj, merge) ==
  [key  |-> old.key,
   data |-> [id     |-> old.data.id,
             fields |-> [f \in Field |->
                           IF merge /\ obj.fields[f] = Unset
                           THEN old.data.fields[f] ELSE obj.fields[f]]]]

UpdateItem(c, key, obj, merge) ==
  [c EXCEPT !.items[IndexOf(c, key)] = BuildUpdate(@, obj, merge)]

RemoveItem(c, key) ==
  LET i == IndexOf(c, key)
  IN [c EXCEPT !.items = [j \in 1 .. Len(@) - 1 |-> @[IF j < i THEN j ELSE j + 1]]]

=============================================================================
