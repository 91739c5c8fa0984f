-------------------------- MODULE StateStoreProofs --------------------------
(***************************************************************************)
(* Theorems about StateStore, for every number of threads, projects and    *)
(* collections, every width of int and every set of request bodies.        *)
(***************************************************************************)
EXTENDS StateStore, TLAPS, FiniteSetTheorems, WellFoundedInduction

-----------------------------------------------------------------------------
(***************************************************************************)
(* What the operators of StateItems return and what they preserve.         *)
(***************************************************************************)

\* A non-empty set of ints has a least element, so FreeId's CHOOSE is defined.
LEMMA LeastInt ==
  ASSUME NEW S \in SUBSET (MinInt .. MaxInt), S # {}
  PROVE  Least(S) \in S
<1> DEFINE T == {i - MinInt : i \in S}
<1>1. MinInt \in Int
  BY MaxIntAssumption DEF MinInt
<1>2. T \subseteq Nat /\ T # {}
  <2>1. \A i \in S : i \in Int /\ MinInt <= i
    BY <1>1, MaxIntAssumption
  <2>2. \A i \in S : i - MinInt \in Nat
    BY <1>1, <2>1
  <2> QED
    BY <2>2
<1>3. PICK x \in T : \A y \in T : <<y, x>> \notin OpToRel(<, Nat)
  BY <1>2, NatLessThanWellFounded, WFMin
<1>4. \A y \in T : ~(y < x)
  BY <1>2, <1>3 DEF OpToRel
<1>5. PICK i \in S : x = i - MinInt
  OBVIOUS
<1>6. \A j \in S : i <= j
  <2> TAKE j \in S
  <2>1. ~(j - MinInt < x)
    BY <1>4
  <2> QED
    BY <1>1, <1>5, <2>1
<1> QED
  BY <1>6 DEF Least

LEMMA IncrementType ==
  ASSUME NEW n \in MinInt .. MaxInt
  PROVE  Increment(n) \in MinInt .. MaxInt
BY MaxIntAssumption DEF Increment, MinInt

LEMMA FirstIdType ==
  ASSUME NEW c \in Coll
  PROVE  FirstId(c) \in 1 .. MaxInt
BY MaxIntAssumption DEF FirstId, Coll, MinInt

LEMMA FreeIdType ==
  ASSUME NEW c \in Coll, NEW n \in 1 .. MaxInt
  PROVE  FreeId(c, n) \in MinInt .. MaxInt
<1> DEFINE Free == {i \in MinInt .. MaxInt : ~Has(c, i)}
           Ahead == {i \in Free : i >= n}
<1>1. CASE Free = {}
  BY <1>1, MaxIntAssumption DEF FreeId, MinInt
<1>2. CASE Free # {} /\ Ahead # {}
  <2>1. Least(Ahead) \in Ahead
    BY <1>2, LeastInt
  <2> QED
    BY <1>2, <2>1 DEF FreeId
<1>3. CASE Free # {} /\ Ahead = {}
  <2>1. Least(Free) \in Free
    BY <1>3, LeastInt
  <2> QED
    BY <1>3, <2>1 DEF FreeId
<1> QED
  BY <1>1, <1>2, <1>3

LEMMA ChosenIdType ==
  ASSUME NEW c \in Coll, NEW obj \in Object, NEW uuid \in Texts \cup {Unset}
  PROVE  /\ ChosenId(c, obj, uuid).id \in IdValue
         /\ ChosenId(c, obj, uuid).nextId \in MinInt .. MaxInt
<1>1. FirstId(c) \in MinInt .. MaxInt
  BY FirstIdType, MaxIntAssumption DEF MinInt
<1>2. CASE obj.id # NoId
  <2>1. obj.id \in IdValue
    BY <1>2 DEF Object
  <2>2. BumpNextId(FirstId(c), obj.id) \in MinInt .. MaxInt
    <3>1. CASE obj.id.number /\ obj.id.key \in Int /\ obj.id.key >= FirstId(c)
      <4>1. obj.id.key \in MinInt .. MaxInt
        BY <2>1, <3>1, TextsAssumption DEF IdValue, Key
      <4> QED
        BY <3>1, <4>1, IncrementType DEF BumpNextId
    <3>2. CASE ~(obj.id.number /\ obj.id.key \in Int /\ obj.id.key >= FirstId(c))
      BY <1>1, <3>2 DEF BumpNextId
    <3> QED
      BY <3>1, <3>2
  <2> QED
    BY <1>2, <2>1, <2>2 DEF ChosenId
<1>3. CASE obj.id = NoId /\ uuid # Unset
  BY <1>1, <1>3 DEF ChosenId, IdValue, Key
<1>4. CASE obj.id = NoId /\ uuid = Unset
  <2>1. FreeId(c, FirstId(c)) \in MinInt .. MaxInt
    BY FirstIdType, FreeIdType
  <2>2. Increment(FreeId(c, FirstId(c))) \in MinInt .. MaxInt
    BY <2>1, IncrementType
  <2> QED
    BY <1>4, <2>1, <2>2 DEF ChosenId, IdValue, Key
<1> QED
  BY <1>2, <1>3, <1>4

LEMMA NewItemType ==
  ASSUME NEW c \in Coll, NEW obj \in Object, NEW uuid \in Texts \cup {Unset}
  PROVE  NewItem(c, obj, uuid) \in Item
<1>1. ChosenId(c, obj, uuid).id \in IdValue
  BY ChosenIdType
<1>2. obj.fields \in [Field -> Value \cup {Unset}]
  BY DEF Object
<1> QED
  BY <1>1, <1>2 DEF NewItem, Item, IdValue

LEMMA AddItemType ==
  ASSUME NEW c \in Coll, NEW obj \in Object, NEW uuid \in Texts \cup {Unset}
  PROVE  AddItem(c, obj, uuid) \in Coll
<1>1. NewItem(c, obj, uuid) \in Item
  BY NewItemType
<1>2. ChosenId(c, obj, uuid).nextId \in MinInt .. MaxInt
  BY ChosenIdType
<1>3. Append(c.items, NewItem(c, obj, uuid)) \in Seq(Item)
  BY <1>1 DEF Coll
<1> QED
  BY <1>2, <1>3 DEF AddItem, Coll

LEMMA IndexOfIs ==
  ASSUME NEW c \in Coll, NEW key, Has(c, key)
  PROVE  /\ IndexOf(c, key) \in DOMAIN c.items
         /\ c.items[IndexOf(c, key)].key = key
<1> DEFINE S == {i \in DOMAIN c.items : c.items[i].key = key}
<1>1. c.items \in Seq(Item) /\ DOMAIN c.items = 1 .. Len(c.items) /\ Len(c.items) \in Nat
  BY DEF Coll
<1>2. S \subseteq Nat /\ S # {}
  BY <1>1 DEF Has, Keys
<1>3. PICK i \in S : \A j \in S : <<j, i>> \notin OpToRel(<, Nat)
  BY <1>2, NatLessThanWellFounded, WFMin
<1>4. \A j \in DOMAIN c.items : j < i => c.items[j].key # key
  BY <1>1, <1>2, <1>3 DEF OpToRel
<1> QED
  BY <1>4 DEF IndexOf

LEMMA UpdateItemType ==
  ASSUME NEW c \in Coll, NEW key \in Key, NEW obj \in Object, NEW merge \in BOOLEAN,
         Has(c, key)
  PROVE  UpdateItem(c, key, obj, merge) \in Coll
<1> DEFINE k == IndexOf(c, key)
           item == BuildUpdate(c.items[k], obj, merge)
<1>1. k \in DOMAIN c.items /\ c.items \in Seq(Item)
  BY IndexOfIs DEF Coll
<1>2. c.items[k] \in Item
  BY <1>1
<1>3. item \in Item
  BY <1>2 DEF BuildUpdate, Item, Object
<1>4. [c.items EXCEPT ![k] = item] \in Seq(Item)
  BY <1>1, <1>3
<1> QED
  BY <1>4 DEF UpdateItem, Coll

LEMMA RemoveItemType ==
  ASSUME NEW c \in Coll, NEW key \in Key, Has(c, key)
  PROVE  RemoveItem(c, key) \in Coll
<1> DEFINE k == IndexOf(c, key)
           pos(j) == IF j < k THEN j ELSE j + 1
           rest == [j \in 1 .. Len(c.items) - 1 |-> c.items[pos(j)]]
<1>1. c.items \in Seq(Item) /\ Len(c.items) \in Nat /\ k \in 1 .. Len(c.items)
  BY IndexOfIs DEF Coll
<1>2. \A j \in 1 .. Len(c.items) - 1 : rest[j] \in Item
  BY <1>1
<1>3. rest \in Seq(Item)
  BY <1>1, <1>2
<1> QED
  BY <1>3 DEF RemoveItem, Coll

-----------------------------------------------------------------------------

\* Adding a resource that does not conflict keeps the keys distinct.
LEMMA AddItemDistinct ==
  ASSUME NEW c \in Coll, NEW obj \in Object, NEW uuid \in Texts \cup {Unset},
         DistinctKeys(c), ~Conflicts(c, obj, uuid)
  PROVE  DistinctKeys(AddItem(c, obj, uuid))
<1> DEFINE new == NewItem(c, obj, uuid)
           n == Len(c.items)
           s == Append(c.items, new)
<1>1. c.items \in Seq(Item) /\ n \in Nat /\ DOMAIN c.items = 1 .. n
  BY DEF Coll
<1>2. DOMAIN s = 1 .. n + 1 /\ s[n + 1] = new /\ \A i \in 1 .. n : s[i] = c.items[i]
  BY <1>1, NewItemType
<1>3. \A i \in 1 .. n : c.items[i].key # new.key
  BY <1>1 DEF Conflicts, Has, Keys, NewItem
<1>4. \A i, j \in 1 .. n : s[i].key = s[j].key => i = j
  BY <1>1, <1>2 DEF DistinctKeys
<1>5. \A i \in 1 .. n + 1 : i \in 1 .. n \/ i = n + 1
  BY <1>1
<1> HIDE DEF new, n, s
<1>6. \A i, j \in 1 .. n + 1 : s[i].key = s[j].key => i = j
  BY <1>2, <1>3, <1>4, <1>5
<1> QED
  BY <1>2, <1>6 DEF AddItem, DistinctKeys, new, s, n

LEMMA UpdateItemDistinct ==
  ASSUME NEW c \in Coll, NEW key \in Key, NEW obj \in Object, NEW merge \in BOOLEAN,
         DistinctKeys(c), Has(c, key)
  PROVE  DistinctKeys(UpdateItem(c, key, obj, merge))
<1> DEFINE k == IndexOf(c, key)
           s == [c.items EXCEPT ![k] = BuildUpdate(c.items[k], obj, merge)]
<1>1. k \in DOMAIN c.items
  BY IndexOfIs
<1>2. DOMAIN s = DOMAIN c.items /\ \A i \in DOMAIN c.items : s[i].key = c.items[i].key
  BY <1>1 DEF BuildUpdate
<1> QED
  BY <1>2 DEF UpdateItem, DistinctKeys, Coll

LEMMA RemoveItemDistinct ==
  ASSUME NEW c \in Coll, NEW key \in Key, DistinctKeys(c), Has(c, key)
  PROVE  DistinctKeys(RemoveItem(c, key))
<1> DEFINE k == IndexOf(c, key)
           pos(j) == IF j < k THEN j ELSE j + 1
           rest == [j \in 1 .. Len(c.items) - 1 |-> c.items[pos(j)]]
<1>1. c.items \in Seq(Item) /\ Len(c.items) \in Nat /\ DOMAIN c.items = 1 .. Len(c.items)
      /\ k \in 1 .. Len(c.items)
  BY IndexOfIs DEF Coll
<1>2. SUFFICES ASSUME NEW i \in 1 .. Len(c.items) - 1, NEW j \in 1 .. Len(c.items) - 1,
                      rest[i].key = rest[j].key
               PROVE  i = j
  BY <1>1 DEF RemoveItem, DistinctKeys, Coll
<1>3. pos(i) \in DOMAIN c.items /\ pos(j) \in DOMAIN c.items
  BY <1>1
<1>4. c.items[pos(i)].key = c.items[pos(j)].key
  BY <1>2
<1>5. pos(i) = pos(j)
  <2> HIDE DEF pos
  <2> QED
    BY <1>3, <1>4 DEF DistinctKeys
<1> QED
  BY <1>1, <1>5

\* Every operation keeps the id inside a resource equal to its key.
LEMMA AddItemKeyed ==
  ASSUME NEW c \in Coll, NEW obj \in Object, NEW uuid \in Texts \cup {Unset},
         KeysMatchIds(c)
  PROVE  KeysMatchIds(AddItem(c, obj, uuid))
<1> DEFINE new == NewItem(c, obj, uuid)
           n == Len(c.items)
           s == Append(c.items, new)
<1>1. c.items \in Seq(Item) /\ n \in Nat /\ DOMAIN c.items = 1 .. n
  BY DEF Coll
<1>2. DOMAIN s = 1 .. n + 1 /\ s[n + 1] = new /\ \A i \in 1 .. n : s[i] = c.items[i]
  BY <1>1, NewItemType
<1>3. new.data.id.key = new.key
  BY DEF NewItem
<1> QED
  BY <1>1, <1>2, <1>3 DEF AddItem, KeysMatchIds

LEMMA UpdateItemKeyed ==
  ASSUME NEW c \in Coll, NEW key \in Key, NEW obj \in Object, NEW merge \in BOOLEAN,
         KeysMatchIds(c), Has(c, key)
  PROVE  KeysMatchIds(UpdateItem(c, key, obj, merge))
<1> DEFINE k == IndexOf(c, key)
           s == [c.items EXCEPT ![k] = BuildUpdate(c.items[k], obj, merge)]
<1>1. k \in DOMAIN c.items
  BY IndexOfIs
<1>2. /\ DOMAIN s = DOMAIN c.items
      /\ \A i \in DOMAIN c.items : s[i].key = c.items[i].key /\ s[i].data.id = c.items[i].data.id
  BY <1>1 DEF BuildUpdate
<1> QED
  BY <1>2 DEF UpdateItem, KeysMatchIds, Coll

LEMMA RemoveItemKeyed ==
  ASSUME NEW c \in Coll, NEW key \in Key, KeysMatchIds(c), Has(c, key)
  PROVE  KeysMatchIds(RemoveItem(c, key))
<1> DEFINE k == IndexOf(c, key)
           pos(j) == IF j < k THEN j ELSE j + 1
           rest == [j \in 1 .. Len(c.items) - 1 |-> c.items[pos(j)]]
<1>1. c.items \in Seq(Item) /\ Len(c.items) \in Nat /\ DOMAIN c.items = 1 .. Len(c.items)
      /\ k \in 1 .. Len(c.items)
  BY IndexOfIs DEF Coll
<1>2. \A j \in 1 .. Len(c.items) - 1 : rest[j].data.id.key = rest[j].key
  <2>1. \A j \in 1 .. Len(c.items) - 1 : pos(j) \in DOMAIN c.items
    BY <1>1
  <2> HIDE DEF pos
  <2> QED
    BY <2>1 DEF KeysMatchIds
<1>3. RemoveItem(c, key).items = rest
  BY DEF RemoveItem, Coll
<1> QED
  BY <1>1, <1>2, <1>3 DEF KeysMatchIds

-----------------------------------------------------------------------------
(***************************************************************************)
(* Free ids.                                                               *)
(***************************************************************************)

LEMMA CountFromOne == \A n \in Nat : Cardinality(1 .. n) = n
<1> TAKE n \in Nat
<1>1. Cardinality(1 .. n) = IF 1 > n THEN 0 ELSE n - 1 + 1
  <2>1. 1 \in Int /\ n \in Int
    OBVIOUS
  <2> QED
    BY <2>1, FS_Interval, ZenonT(20)
<1> QED
  BY <1>1

\* A collection has at most one integer key per resource, so an interval with
\* more integers than it has resources has a free one.
LEMMA FreeKeyExists ==
  ASSUME NEW c \in Coll, NEW lo \in Int, NEW hi \in Int, Len(c.items) < hi - lo + 1
  PROVE  \E i \in lo .. hi : ~Has(c, i)
<1> SUFFICES ASSUME \A i \in lo .. hi : Has(c, i) PROVE FALSE
  OBVIOUS
<1> DEFINE f == [i \in lo .. hi |-> IndexOf(c, i)]
<1>1. Len(c.items) \in Nat /\ DOMAIN c.items = 1 .. Len(c.items)
  BY DEF Coll
<1>2. \A i \in lo .. hi : f[i] \in 1 .. Len(c.items) /\ c.items[f[i]].key = i
  BY <1>1, IndexOfIs
<1>3. f \in [lo .. hi -> 1 .. Len(c.items)]
  BY <1>2
<1>4. \A i, j \in lo .. hi : f[i] = f[j] => i = j
  <2> HIDE DEF f
  <2> QED
    BY <1>2
<1>5. f \in Injection(lo .. hi, 1 .. Len(c.items))
  <2> HIDE DEF f
  <2> QED
    BY <1>3, <1>4 DEF Injection, IsInjective
<1>6. Cardinality(lo .. hi) <= Cardinality(1 .. Len(c.items))
  <2> HIDE DEF f
  <2>1. IsFiniteSet(1 .. Len(c.items))
    BY <1>1, FS_Interval
  <2> QED
    BY <1>5, <2>1, FS_Injection
<1>7. Cardinality(lo .. hi) = hi - lo + 1
  <2>1. ~(lo > hi)
    BY <1>1
  <2> QED
    BY <2>1, FS_Interval
<1>8. Cardinality(1 .. Len(c.items)) = Len(c.items)
  BY <1>1, CountFromOne
<1> QED
  BY <1>1, <1>6, <1>7, <1>8

\* FreeId finds a free int if there is one ...
LEMMA FreeIdIsFree ==
  ASSUME NEW c \in Coll, NEW n \in 1 .. MaxInt, Len(c.items) <= MaxInt
  PROVE  ~Has(c, FreeId(c, n))
<1> DEFINE Free == {i \in MinInt .. MaxInt : ~Has(c, i)}
           Ahead == {i \in Free : i >= n}
<1>1. MinInt \in Int /\ MaxInt \in Int /\ Len(c.items) \in Nat /\ MaxInt - MinInt + 1 > MaxInt
  BY MaxIntAssumption DEF MinInt, Coll
<1>2. Free # {}
  <2>1. Len(c.items) < MaxInt - MinInt + 1
    BY <1>1
  <2> QED
    BY <1>1, <2>1, FreeKeyExists
<1>3. CASE Ahead # {}
  <2>1. Least(Ahead) \in Ahead
    BY <1>3, LeastInt
  <2> QED
    BY <1>2, <1>3, <2>1 DEF FreeId
<1>4. CASE Ahead = {}
  <2>1. Least(Free) \in Free
    BY <1>2, LeastInt
  <2> QED
    BY <1>2, <1>4, <2>1 DEF FreeId
<1> QED
  BY <1>3, <1>4

\* ... and does not go below where it starts as long as there is one ahead.
LEMMA FreeIdAhead ==
  ASSUME NEW c \in Coll, NEW n \in 1 .. MaxInt, n + Len(c.items) <= MaxInt
  PROVE  FreeId(c, n) \in n .. MaxInt
<1> DEFINE Free == {i \in MinInt .. MaxInt : ~Has(c, i)}
           Ahead == {i \in Free : i >= n}
<1>1. MinInt \in Int /\ MaxInt \in Int /\ Len(c.items) \in Nat /\ MinInt < n
  BY MaxIntAssumption DEF MinInt, Coll
<1>2. PICK i \in n .. MaxInt : ~Has(c, i)
  <2>1. n \in Int /\ Len(c.items) < MaxInt - n + 1
    BY <1>1
  <2> QED
    BY <1>1, <2>1, FreeKeyExists
<1>3. i \in Ahead
  BY <1>1, <1>2
<1>4. Least(Ahead) \in Ahead
  BY <1>3, LeastInt
<1>5. FreeId(c, n) = Least(Ahead)
  BY <1>3 DEF FreeId
<1> QED
  BY <1>4, <1>5

\* Unless it wraps, the counter does not go back, and is past every id drawn.
LEMMA CounterAdvances ==
  ASSUME NEW c \in Coll, NEW obj \in Object, NEW uuid \in Texts \cup {Unset},
         c.nextId >= 0, c.nextId + Len(c.items) < MaxInt,
         ChosenId(c, obj, uuid).nextId >= 0
  PROVE  /\ ChosenId(c, obj, uuid).nextId >= c.nextId
         /\ obj.id = NoId /\ uuid = Unset =>
              /\ ChosenId(c, obj, uuid).id.key \in Int
              /\ ChosenId(c, obj, uuid).id.key >= c.nextId
              /\ ChosenId(c, obj, uuid).nextId = ChosenId(c, obj, uuid).id.key + 1
<1> DEFINE n == FirstId(c)
<1>1. /\ c.nextId \in Int /\ Len(c.items) \in Nat /\ MaxInt \in Nat \ {0}
      /\ n \in 1 .. MaxInt /\ n >= c.nextId /\ n <= c.nextId + 1
  BY FirstIdType, MaxIntAssumption DEF FirstId, Coll, MinInt
<1> HIDE DEF n
<1>2. CASE obj.id # NoId
  <2>1. ChosenId(c, obj, uuid).nextId = BumpNextId(n, obj.id)
    BY <1>2 DEF ChosenId, n
  <2>2. CASE obj.id.number /\ obj.id.key \in Int /\ obj.id.key >= n
    <3>1. BumpNextId(n, obj.id) = Increment(obj.id.key)
      BY <2>2 DEF BumpNextId
    <3>2. obj.id.key # MaxInt
      BY <1>1, <2>1, <3>1 DEF Increment, MinInt
    <3> QED
      BY <1>1, <1>2, <2>1, <2>2, <3>1, <3>2 DEF Increment
  <2>3. CASE ~(obj.id.number /\ obj.id.key \in Int /\ obj.id.key >= n)
    BY <1>1, <1>2, <2>1, <2>3 DEF BumpNextId
  <2> QED
    BY <2>2, <2>3
<1>3. CASE obj.id = NoId /\ uuid # Unset
  <2>1. ChosenId(c, obj, uuid).nextId = n
    BY <1>3 DEF ChosenId, n
  <2> QED
    BY <1>1, <1>3, <2>1
<1>4. CASE obj.id = NoId /\ uuid = Unset
  <2> DEFINE i == FreeId(c, n)
  <2>1. i \in n .. MaxInt
    BY <1>1, FreeIdAhead
  <2>2. ChosenId(c, obj, uuid).id.key = i /\ ChosenId(c, obj, uuid).nextId = Increment(i)
    BY <1>4 DEF ChosenId, n
  <2> HIDE DEF i
  <2>3. i # MaxInt
    BY <1>1, <2>2 DEF Increment, MinInt
  <2>4. Increment(i) = i + 1
    BY <2>3 DEF Increment
  <2> QED
    BY <1>1, <2>1, <2>2, <2>4
<1> QED
  BY <1>2, <1>3, <1>4

-----------------------------------------------------------------------------
(***************************************************************************)
(* The invariants of StateStore.                                           *)
(***************************************************************************)

\* What the request of a thread that is serving one looks like.
RequestOK ==
  \A t \in Thread :
    /\ req[t].op \in Crud \cup {"seed"} => \E c \in Collection : req[t].cols = {c}
    /\ req[t].op = "create" =>
         req[t].uuid \in (IF TheCollection(t) \in StringIds THEN Texts ELSE {Unset})
    /\ req[t].op \in {"create", "put", "patch"} => req[t].obj \in Body
    /\ req[t].op \in {"put", "patch", "delete"} => req[t].key \in AddressedKey
    /\ req[t].op = "seed" => req[t].list \in SeedList
    /\ req[t].op = "reset" => req[t].cols \in {{c} : c \in Collection} \cup {Collection}
    /\ pc[t] = "seeding" => req[t].op = "seed"
    /\ pc[t] = "waiting" => req[t].op \in Crud \cup {"reset"}
    /\ pc[t] \in {"working", "writing", "renaming"} => req[t].op # "none"

Holding == {"working", "writing", "renaming"}

\* Exactly the thread that holds the lock is between Acquire and its answer.
LockInv == \A t \in Thread : pc[t] \in Holding <=> lock = t

\* The temporary file about to be renamed holds all of the persisted namespace.
TmpComplete == \A t \in Thread : pc[t] = "renaming" => tmp = persisted

LEMMA EmptyType == NoCollection \in Coll /\ Empty \in Collections
BY MaxIntAssumption DEF NoCollection, Coll, MinInt, Empty, Collections

LEMMA NewRequestType ==
  ASSUME NEW op \in {"none", "create", "put", "patch", "delete", "seed", "reset"},
         NEW p \in Project, NEW ns \in Namespace, NEW cols \in SUBSET Collection
  PROVE  NewRequest(op, p, ns, cols) \in RequestRecord
BY DEF NewRequest, RequestRecord, NoObject, Object

LEMMA NoRequestType == NoRequest \in RequestRecord
BY NewRequestType, ProjectAssumption DEF NoRequest, Namespace

LEMMA TheCollectionType ==
  ASSUME NEW t \in Thread, RequestOK, req[t].op \in Crud \cup {"seed"}
  PROVE  TheCollection(t) \in Collection /\ req[t].cols = {TheCollection(t)}
BY DEF TheCollection, RequestOK

LEMMA ChangedType ==
  ASSUME NEW t \in Thread, TypeOK, RequestOK, ~Rejected(t)
  PROVE  Changed(t) \in Coll
<1> DEFINE r == req[t]
<1>1. /\ r.op \in {"none", "create", "put", "patch", "delete", "seed", "reset"}
      /\ r.obj \in Object /\ r.uuid \in Texts \cup {Unset} /\ work[t] \in Coll
  BY DEF TypeOK, RequestRecord
<1>2. CASE r.op = "create"
  BY <1>1, <1>2, AddItemType DEF Changed
<1>3. CASE r.op \in {"put", "patch", "delete"}
  <2>1. r.key \in Key /\ Has(work[t], r.key)
    BY <1>3, AddressedAssumption DEF RequestOK, Rejected
  <2> QED
    BY <1>1, <1>3, <2>1, UpdateItemType, RemoveItemType DEF Changed
<1>4. CASE r.op \in {"none", "seed", "reset"}
  BY <1>1, <1>4 DEF Changed
<1> QED
  BY <1>1, <1>2, <1>3, <1>4

LEMMA PutType ==
  ASSUME NEW t \in Thread, TypeOK, RequestOK, ~Rejected(t), req[t].op # "none", Put(t)
  PROVE  memory' \in Collections /\ persisted' \in Collections
<1> DEFINE r == req[t]
           Replaced(cols) == [cols EXCEPT ![r.project][TheCollection(t)] = Changed(t)]
           Wiped(cols) == [cols EXCEPT ![r.project] =
                        [c \in Collection |-> IF c \in r.cols THEN NoCollection ELSE @[c]]]
<1>1. r.project \in Project /\ memory \in Collections /\ persisted \in Collections
      /\ r.op \in {"create", "put", "patch", "delete", "seed", "reset"}
  BY DEF TypeOK, RequestRecord
<1>2. CASE r.op = "reset"
  <2>1. \A cols \in Collections : Wiped(cols) \in Collections
    BY <1>1, EmptyType DEF Collections
  <2> QED
    BY <1>1, <1>2, <2>1 DEF Put
<1>3. CASE r.op # "reset"
  <2>1. TheCollection(t) \in Collection /\ Changed(t) \in Coll
    BY <1>1, <1>3, TheCollectionType, ChangedType DEF Crud
  <2>2. \A cols \in Collections : Replaced(cols) \in Collections
    BY <1>1, <2>1 DEF Collections
  <2> QED
    BY <1>1, <1>3, <2>2 DEF Put
<1> QED
  BY <1>2, <1>3

LEMMA ResourcesType ==
  ASSUME NEW cols \in Collections, NEW ns \in Namespace
  PROVE  Resources(ns, cols) \subseteq Resource
<1>1. \A p \in Project, c \in Collection : Keys(cols[p][c]) \subseteq Key
  <2> SUFFICES ASSUME NEW p \in Project, NEW c \in Collection
               PROVE  Keys(cols[p][c]) \subseteq Key
    OBVIOUS
  <2>1. cols[p][c].items \in Seq(Item)
    BY DEF Collections, Coll
  <2>2. \A i \in DOMAIN cols[p][c].items : cols[p][c].items[i] \in Item
    BY <2>1
  <2> QED
    BY <2>2 DEF Keys, Item
<1> QED
  BY <1>1 DEF Resources, Resource

LEMMA NewClaimType ==
  ASSUME NEW t \in Thread, TypeOK, RequestOK, memory' \in Collections, persisted' \in Collections
  PROVE  NewClaim(t) \in [made : SUBSET Resource, removed : SUBSET Resource,
                          issued : SUBSET Resource]
<1>1. /\ Resources("memory", memory) \subseteq Resource
      /\ Resources("persisted", persisted) \subseteq Resource
      /\ Resources("memory", memory') \subseteq Resource
      /\ Resources("persisted", persisted') \subseteq Resource
  BY ResourcesType DEF TypeOK, Namespace
<1>2. Generated(t) \subseteq Resource
  <2> DEFINE r == req[t]
  <2>1. CASE r.op = "create" /\ r.obj.id = NoId /\ r.uuid = Unset
    <3>1. r.ns \in Namespace /\ r.project \in Project /\ r.obj \in Object /\ work[t] \in Coll
      BY DEF TypeOK, RequestRecord
    <3>2. TheCollection(t) \in Collection
      BY <2>1, TheCollectionType DEF Crud
    <3>3. ChosenId(work[t], r.obj, Unset).id.key \in Key
      BY <3>1, ChosenIdType DEF IdValue
    <3> QED
      BY <2>1, <3>1, <3>2, <3>3 DEF Generated, Resource
  <2>2. CASE ~(r.op = "create" /\ r.obj.id = NoId /\ r.uuid = Unset)
    BY <2>2 DEF Generated
  <2> QED
    BY <2>1, <2>2
<1> QED
  BY <1>1, <1>2 DEF NewClaim

\* A step of a thread on its way keeps the requests, and the mutex is taken with
\* one.
LEMMA RequestsStay ==
  ASSUME RequestOK, req' = req,
         \A s \in Thread : pc'[s] = pc[s] \/ (pc'[s] \in Holding /\ req[s].op # "none")
  PROVE  RequestOK'
<1>1. \A s \in Thread : TheCollection(s)' = TheCollection(s)
  BY DEF TheCollection
<1> QED
  BY <1>1 DEF RequestOK, Holding

LEMMA AnswerType ==
  ASSUME NEW t \in Thread, TypeOK, RequestOK, Answer(t)
  PROVE  /\ pc' \in [Thread -> {"idle", "seeding", "waiting", "working", "writing", "renaming"}]
         /\ req' \in [Thread -> RequestRecord]
         /\ work' \in [Thread -> Coll]
         /\ claim' \in [Thread -> [made : SUBSET Resource, removed : SUBSET Resource,
                                  issued : SUBSET Resource]]
         /\ RequestOK'
<1>1. req' = [req EXCEPT ![t] = NoRequest] /\ pc' = [pc EXCEPT ![t] = "idle"]
      /\ work' = [work EXCEPT ![t] = NoCollection]
      /\ claim' = [claim EXCEPT ![t] = NoClaim]
  BY DEF Answer
<1>2. NoRequest.op = "none"
  BY DEF NoRequest, NewRequest
<1>3. RequestOK'
  <2>1. req'[t].op = "none" /\ pc'[t] = "idle"
    BY <1>1, <1>2 DEF TypeOK
  <2>2. \A s \in Thread \ {t} : req'[s] = req[s] /\ pc'[s] = pc[s]
    BY <1>1 DEF TypeOK
  <2>3. \A s \in Thread \ {t} : TheCollection(s)' = TheCollection(s)
    BY <2>2 DEF TheCollection
  <2> QED
    BY <2>1, <2>2, <2>3 DEF RequestOK, Crud
<1> QED
  BY <1>1, <1>3, NoRequestType, EmptyType DEF TypeOK, NoClaim

LEMMA AnswerOthers ==
  ASSUME NEW t \in Thread, TypeOK, Answer(t)
  PROVE  \A s \in Thread : pc'[s] # "idle" =>
           pc'[s] = pc[s] /\ req'[s] = req[s] /\ work'[s] = work[s]
BY DEF Answer, TypeOK

\* The request a client can send, and where its handler goes with it.
LEMMA ReceiveBegins ==
  ASSUME NEW t \in Thread, TypeOK, Receive(t)
  PROVE  \E r \in RequestRecord, next \in {"seeding", "waiting"}, copy \in Coll :
           /\ Begin(t, r, next, copy)
           /\ next = "seeding" <=> r.op = "seed"
           /\ r.op = "seed" => copy = [items |-> <<>>, nextId |-> 1]
           /\ r.op # "none"
           /\ r.op \in Crud \cup {"seed"} => \E c \in Collection : r.cols = {c}
           /\ r.op = "create" =>
                \A c \in Collection : r.cols = {c} =>
                  r.uuid \in (IF c \in StringIds THEN Texts ELSE {Unset})
           /\ r.op \in {"create", "put", "patch"} => r.obj \in Body
           /\ r.op \in {"put", "patch", "delete"} => r.key \in AddressedKey
           /\ r.op = "seed" => r.list \in SeedList
           /\ r.op = "reset" => r.cols \in {{c} : c \in Collection} \cup {Collection}
<1> USE DEF RequestRecord, NewRequest
<1>1. NoCollection \in Coll /\ [items |-> <<>>, nextId |-> 1] \in Coll
  BY EmptyType, MaxIntAssumption DEF Coll, MinInt
<1>2. \A p \in Project : mode[p] # "off" => mode[p] \in Namespace
  BY DEF TypeOK, Mode
<1>3. CASE Create(t)
  <2>1. PICK p \in Project, c \in Collection, obj \in Body :
          \E uuid \in (IF c \in StringIds THEN Texts ELSE {Unset}) :
            /\ mode[p] # "off"
            /\ Begin(t, [NewRequest("create", p, mode[p], {c})
                           EXCEPT !.obj = obj, !.uuid = uuid], "waiting", NoCollection)
    BY <1>3 DEF Create
  <2>2. PICK uuid \in (IF c \in StringIds THEN Texts ELSE {Unset}) :
            /\ mode[p] # "off"
            /\ Begin(t, [NewRequest("create", p, mode[p], {c})
                           EXCEPT !.obj = obj, !.uuid = uuid], "waiting", NoCollection)
    BY <2>1
  <2> DEFINE r == [NewRequest("create", p, mode[p], {c}) EXCEPT !.obj = obj, !.uuid = uuid]
  <2>3. NewRequest("create", p, mode[p], {c}) \in RequestRecord
    BY <1>2, <2>2, NewRequestType
  <2>4. r \in RequestRecord /\ r.op = "create" /\ r.cols = {c} /\ r.uuid = uuid /\ r.obj = obj
    BY <2>2, <2>3, BodyAssumption
  <2>5. Begin(t, r, "waiting", NoCollection)
    BY <2>2
  <2>6. \A d \in Collection : r.cols = {d} => r.uuid \in (IF d \in StringIds THEN Texts ELSE {Unset})
    BY <2>4
  <2> HIDE DEF r, RequestRecord, NewRequest
  <2> QED
    BY <1>1, <2>4, <2>5, <2>6
<1>4. CASE Update(t)
  <2>1. PICK p \in Project, c \in Collection, obj \in Body, key \in AddressedKey,
             op \in {"put", "patch"} :
          /\ mode[p] # "off"
          /\ Begin(t, [NewRequest(op, p, mode[p], {c})
                         EXCEPT !.key = key, !.obj = obj], "waiting", NoCollection)
    BY <1>4 DEF Update
  <2> DEFINE r == [NewRequest(op, p, mode[p], {c}) EXCEPT !.key = key, !.obj = obj]
  <2>2. NewRequest(op, p, mode[p], {c}) \in RequestRecord
    BY <1>2, <2>1, NewRequestType
  <2>3. r \in RequestRecord /\ r.op = op /\ r.cols = {c} /\ r.key = key /\ r.obj = obj
    BY <2>1, <2>2, BodyAssumption, AddressedAssumption
  <2> QED
    BY <1>1, <2>1, <2>3
<1>5. CASE Delete(t)
  <2>1. PICK p \in Project, c \in Collection, key \in AddressedKey :
          /\ mode[p] # "off"
          /\ Begin(t, [NewRequest("delete", p, mode[p], {c}) EXCEPT !.key = key],
                   "waiting", NoCollection)
    BY <1>5 DEF Delete
  <2> DEFINE r == [NewRequest("delete", p, mode[p], {c}) EXCEPT !.key = key]
  <2>2. NewRequest("delete", p, mode[p], {c}) \in RequestRecord
    BY <1>2, <2>1, NewRequestType
  <2>3. r \in RequestRecord /\ r.op = "delete" /\ r.cols = {c} /\ r.key = key
    BY <2>1, <2>2, AddressedAssumption
  <2> QED
    BY <1>1, <2>1, <2>3
<1>6. CASE Seed(t)
  <2>1. PICK p \in Project, c \in Collection, list \in SeedList :
          /\ mode[p] # "off"
          /\ Begin(t, [NewRequest("seed", p, mode[p], {c}) EXCEPT !.list = list],
                   "seeding", [items |-> <<>>, nextId |-> 1])
    BY <1>6 DEF Seed
  <2> DEFINE r == [NewRequest("seed", p, mode[p], {c}) EXCEPT !.list = list]
  <2>2. NewRequest("seed", p, mode[p], {c}) \in RequestRecord
    BY <1>2, <2>1, NewRequestType
  <2>3. r \in RequestRecord /\ r.op = "seed" /\ r.cols = {c} /\ r.list = list
    BY <2>1, <2>2, SeedAssumption
  <2> QED
    BY <1>1, <2>1, <2>3
<1>7. CASE Reset(t)
  <2>1. PICK p \in Project, cols \in {{c} : c \in Collection} \cup {Collection} :
          Begin(t, NewRequest("reset", p, "persisted", cols), "waiting", NoCollection)
    BY <1>7 DEF Reset
  <2>2. NewRequest("reset", p, "persisted", cols) \in RequestRecord
    BY NewRequestType DEF Namespace
  <2> DEFINE r == NewRequest("reset", p, "persisted", cols)
  <2>3. r.op = "reset" /\ r.cols = cols
    OBVIOUS
  <2> QED
    BY <1>1, <2>1, <2>2, <2>3 DEF Crud
<1> QED
  BY <1>3, <1>4, <1>5, <1>6, <1>7 DEF Receive

-----------------------------------------------------------------------------
(***************************************************************************)
(* Type correctness.  RequestOK is carried along because the collection a  *)
(* request works on is chosen from its cols.                               *)
(***************************************************************************)

LEMMA InitType == Init => TypeOK /\ RequestOK
<1> SUFFICES ASSUME Init PROVE TypeOK /\ RequestOK
  OBVIOUS
<1>1. NoRequest.op = "none"
  BY DEF NoRequest, NewRequest
<1>2. TypeOK
  BY EmptyType, NoRequestType DEF Init, TypeOK, NoClaim
<1>3. RequestOK
  BY <1>1 DEF Init, RequestOK, Crud
<1> QED
  BY <1>2, <1>3

LEMMA NextType ==
  TypeOK /\ RequestOK /\ TmpComplete /\ [Next]_vars => TypeOK' /\ RequestOK'
<1> SUFFICES ASSUME TypeOK, RequestOK, TmpComplete, [Next]_vars PROVE TypeOK' /\ RequestOK'
  OBVIOUS
<1> USE DEF store, threads, history, CanLock, Unlock, NeedsFile, OpenTemporary
<1>1. ASSUME NEW t \in Thread, Receive(t) PROVE TypeOK' /\ RequestOK'
  <2>1. PICK r \in RequestRecord, next \in {"seeding", "waiting"}, copy \in Coll :
           /\ Begin(t, r, next, copy)
           /\ next = "seeding" <=> r.op = "seed"
           /\ r.op = "seed" => copy = [items |-> <<>>, nextId |-> 1]
           /\ r.op # "none"
           /\ r.op \in Crud \cup {"seed"} => \E c \in Collection : r.cols = {c}
           /\ r.op = "create" =>
                \A c \in Collection : r.cols = {c} =>
                  r.uuid \in (IF c \in StringIds THEN Texts ELSE {Unset})
           /\ r.op \in {"create", "put", "patch"} => r.obj \in Body
           /\ r.op \in {"put", "patch", "delete"} => r.key \in AddressedKey
           /\ r.op = "seed" => r.list \in SeedList
           /\ r.op = "reset" => r.cols \in {{c} : c \in Collection} \cup {Collection}
    BY <1>1, ReceiveBegins
  <2>2. TypeOK'
    BY <2>1 DEF TypeOK, Begin
  <2>3. req'[t] = r /\ pc'[t] = next /\ \A s \in Thread \ {t} : req'[s] = req[s] /\ pc'[s] = pc[s]
    BY <2>1 DEF TypeOK, Begin
  <2>4. r.op = "create" =>
          r.uuid \in (IF TheCollection(t)' \in StringIds THEN Texts ELSE {Unset})
    BY <2>1, <2>3 DEF TheCollection, Crud
  <2>5. \A s \in Thread \ {t} : TheCollection(s)' = TheCollection(s)
    BY <2>3 DEF TheCollection
  <2>7. next = "waiting" => r.op \in Crud \cup {"reset"}
    BY <2>1 DEF RequestRecord, Crud
  <2> QED
    BY <2>1, <2>2, <2>3, <2>4, <2>5, <2>7 DEF RequestOK
<1>2. ASSUME NEW t \in Thread, SeedAdd(t) PROVE TypeOK' /\ RequestOK'
  <2>1. NextObject(t) \in Object
    <3>1. /\ req[t].list \in Seq(Object) /\ work[t] \in Coll /\ req[t].list \in SeedList
          /\ req[t].op = "seed"
      BY <1>2 DEF TypeOK, RequestRecord, SeedAdd, RequestOK
    <3>2. Len(work[t].items) + 1 \in 1 .. Len(req[t].list)
      BY <1>2, <3>1 DEF SeedAdd, SeedBuilt, Coll
    <3> QED
      BY <3>1, <3>2 DEF NextObject
  <2>2. AddItem(work[t], NextObject(t), Unset) \in Coll
    BY <2>1, AddItemType DEF TypeOK
  <2>3. TypeOK'
    BY <1>2, <2>2 DEF SeedAdd, TypeOK
  <2> QED
    BY <1>2, <2>3, RequestsStay DEF SeedAdd
<1>3. ASSUME NEW t \in Thread, SeedInvalid(t) PROVE TypeOK' /\ RequestOK'
  BY <1>3, AnswerType DEF SeedInvalid, TypeOK
<1>4. ASSUME NEW t \in Thread, Acquire(t) PROVE TypeOK' /\ RequestOK'
  <2>1. req[t].project \in Project
    BY DEF TypeOK, RequestRecord
  <2>2. req[t].op \in Crud => Live(req[t].ns)[req[t].project][TheCollection(t)] \in Coll
    BY <2>1, TheCollectionType DEF TypeOK, Live, Collections
  <2>3. TypeOK'
    BY <1>4, <2>2 DEF Acquire, TypeOK
  <2>4. req' = req /\ pc[t] \in {"waiting", "seeding"} /\ pc'[t] = "working"
        /\ \A s \in Thread \ {t} : pc'[s] = pc[s]
    BY <1>4 DEF Acquire, TypeOK
  <2>5. req[t].op # "none"
    BY <2>4 DEF RequestOK, Crud
  <2> QED
    BY <2>3, <2>4, <2>5, RequestsStay DEF Holding
<1>5. ASSUME NEW t \in Thread, Reject(t) PROVE TypeOK' /\ RequestOK'
  BY <1>5, AnswerType DEF Reject, TypeOK
<1>6. ASSUME NEW t \in Thread, PutMemory(t) PROVE TypeOK' /\ RequestOK'
  <2>1. memory' \in Collections /\ persisted' \in Collections
    BY <1>6, PutType DEF PutMemory, RequestOK
  <2>2. NewClaim(t) \in [made : SUBSET Resource, removed : SUBSET Resource,
                         issued : SUBSET Resource]
    BY <2>1, NewClaimType
  <2>3. known' \subseteq Resource /\ gone' \subseteq Resource /\ issued' \subseteq Resource
    BY <1>6, <2>2 DEF PutMemory, NewClaim, TypeOK
  <2> QED
    BY <1>6, <2>1, <2>3, AnswerType DEF PutMemory, TypeOK
<1>7. ASSUME NEW t \in Thread, PutPersisted(t) PROVE TypeOK' /\ RequestOK'
  <2>1. memory' \in Collections /\ persisted' \in Collections
    BY <1>7, PutType DEF PutPersisted, RequestOK
  <2>2. NewClaim(t) \in [made : SUBSET Resource, removed : SUBSET Resource,
                         issued : SUBSET Resource]
    BY <2>1, NewClaimType
  <2>3. TypeOK'
    BY <1>7, <2>1, <2>2 DEF PutPersisted, TypeOK
  <2>4. pc[t] = "working" /\ req' = req /\ pc'[t] \in Holding
        /\ \A s \in Thread \ {t} : pc'[s] = pc[s]
    BY <1>7 DEF PutPersisted, TypeOK, Holding
  <2>5. req[t].op # "none"
    BY <2>4 DEF RequestOK
  <2> QED
    BY <2>3, <2>4, <2>5, RequestsStay
<1>8. ASSUME NEW t \in Thread, FinishWrite(t) PROVE TypeOK' /\ RequestOK'
  <2>1. TypeOK'
    BY <1>8 DEF FinishWrite, TypeOK
  <2>2. pc[t] = "writing" /\ req' = req /\ pc'[t] \in Holding
        /\ \A s \in Thread \ {t} : pc'[s] = pc[s]
    BY <1>8 DEF FinishWrite, TypeOK, Holding
  <2>3. req[t].op # "none"
    BY <2>2 DEF RequestOK
  <2> QED
    BY <2>1, <2>2, <2>3, RequestsStay
<1>r. ASSUME NEW t \in Thread, Rename(t) PROVE TypeOK' /\ RequestOK'
  BY <1>r, AnswerType DEF Rename, TypeOK, TmpComplete
<1>9. ASSUME NEW t \in Thread, FlushFails(t) PROVE TypeOK' /\ RequestOK'
  BY <1>9, AnswerType DEF FlushFails, TypeOK
<1>10. ASSUME NEW p \in Project, NEW m \in Mode, SetStateMode(p, m) PROVE TypeOK' /\ RequestOK'
  <2>1. TypeOK'
    BY <1>10 DEF SetStateMode, TypeOK
  <2> QED
    BY <1>10, <2>1, RequestsStay DEF SetStateMode
<1>11. ASSUME Restart PROVE TypeOK' /\ RequestOK'
  <2>1. NoRequest.op = "none"
    BY DEF NoRequest, NewRequest
  <2>2. Contents(disk) \in Collections
    BY <1>11, EmptyType DEF Restart, Contents, TypeOK
  <2>3. TypeOK'
    BY <1>11, <2>2, EmptyType, NoRequestType DEF Restart, TypeOK, NoClaim
  <2>4. \A s \in Thread : req'[s].op = "none" /\ pc'[s] = "idle"
    BY <1>11, <2>1 DEF Restart
  <2> QED
    BY <2>3, <2>4 DEF RequestOK, Crud
<1>12. CASE UNCHANGED vars
  <2>1. TypeOK'
    BY <1>12 DEF vars, TypeOK
  <2> QED
    BY <1>12, <2>1, RequestsStay DEF vars
<1> QED
  BY <1>1, <1>2, <1>3, <1>4, <1>5, <1>6, <1>7, <1>8, <1>r, <1>9, <1>10,
     <1>11, <1>12
     DEF Next, Serve

LEMMA NextLock ==
  TypeOK /\ LockInv /\ TmpComplete /\ [Next]_vars => LockInv' /\ TmpComplete'
<1> SUFFICES ASSUME TypeOK, LockInv, TmpComplete, [Next]_vars PROVE LockInv' /\ TmpComplete'
  OBVIOUS
<1> USE NoThreadAssumption DEF store, threads, history, CanLock, Unlock, NeedsFile, OpenTemporary, LockInv, TmpComplete, Holding, TypeOK
<1>1. ASSUME NEW t \in Thread, Receive(t) PROVE LockInv' /\ TmpComplete'
  <2>1. PICK r \in RequestRecord, next \in {"seeding", "waiting"}, copy \in Coll :
          Begin(t, r, next, copy)
    BY <1>1, ReceiveBegins
  <2> QED
    BY <2>1 DEF Begin
<1>2. ASSUME NEW t \in Thread, SeedAdd(t) PROVE LockInv' /\ TmpComplete'
  BY <1>2 DEF SeedAdd
<1>3. ASSUME NEW t \in Thread, SeedInvalid(t) PROVE LockInv' /\ TmpComplete'
  BY <1>3 DEF SeedInvalid, Answer
<1>4. ASSUME NEW t \in Thread, Acquire(t) PROVE LockInv' /\ TmpComplete'
  BY <1>4 DEF Acquire
<1>5. ASSUME NEW t \in Thread, Reject(t) PROVE LockInv' /\ TmpComplete'
  BY <1>5 DEF Reject, Answer
<1>6. ASSUME NEW t \in Thread, PutMemory(t) PROVE LockInv' /\ TmpComplete'
  BY <1>6 DEF PutMemory, Answer
<1>7. ASSUME NEW t \in Thread, PutPersisted(t) PROVE LockInv' /\ TmpComplete'
  BY <1>7 DEF PutPersisted
<1>8. ASSUME NEW t \in Thread, FinishWrite(t) PROVE LockInv' /\ TmpComplete'
  BY <1>8 DEF FinishWrite
<1>9. ASSUME NEW t \in Thread, Rename(t) PROVE LockInv' /\ TmpComplete'
  BY <1>9 DEF Rename, Answer
<1>10. ASSUME NEW t \in Thread, FlushFails(t) PROVE LockInv' /\ TmpComplete'
  BY <1>10 DEF FlushFails, Answer
<1>11. ASSUME NEW p \in Project, NEW m \in Mode, SetStateMode(p, m)
       PROVE  LockInv' /\ TmpComplete'
  BY <1>11 DEF SetStateMode
<1>12. ASSUME Restart PROVE LockInv' /\ TmpComplete'
  BY <1>12 DEF Restart
<1>13. CASE UNCHANGED vars
  BY <1>13 DEF vars
<1> QED
  BY <1>1, <1>2, <1>3, <1>4, <1>5, <1>6, <1>7, <1>8, <1>9, <1>10, <1>11, <1>12, <1>13
     DEF Next, Serve

\* state.json is only ever replaced by a complete temporary file.
LEMMA NextReadable ==
  TypeOK /\ FileReadable /\ TmpComplete /\ [Next]_vars => FileReadable'
<1> SUFFICES ASSUME TypeOK, FileReadable, TmpComplete, [Next]_vars PROVE disk' # Torn
  BY DEF FileReadable
<1> USE DEF store, threads, history, OpenTemporary
<1>1. ASSUME NEW t \in Thread, Receive(t) PROVE disk' # Torn
  <2>1. PICK r \in RequestRecord, next \in {"seeding", "waiting"}, copy \in Coll :
          Begin(t, r, next, copy)
    BY <1>1, ReceiveBegins
  <2> QED
    BY <2>1 DEF Begin, FileReadable
<1>2. ASSUME NEW t \in Thread, Serve(t), ~Rename(t) PROVE disk' # Torn
  BY <1>2 DEF Serve, SeedAdd, SeedInvalid, Acquire, Reject, PutMemory, PutPersisted,
              FinishWrite, FlushFails, FileReadable
<1>3. ASSUME NEW t \in Thread, Rename(t) PROVE disk' # Torn
  <2>1. disk' = persisted
    BY <1>3 DEF Rename, TmpComplete
  <2> QED
    BY <2>1, FileAssumption DEF TypeOK
<1>4. ASSUME NEW p \in Project, NEW m \in Mode, SetStateMode(p, m) PROVE disk' # Torn
  BY <1>4 DEF SetStateMode, FileReadable
<1>5. ASSUME Restart PROVE disk' # Torn
  BY <1>5 DEF Restart, FileReadable
<1>6. CASE UNCHANGED vars
  BY <1>6 DEF vars, FileReadable
<1> QED
  BY <1>1, <1>2, <1>3, <1>4, <1>5, <1>6 DEF Next

Core == TypeOK /\ FileReadable /\ RequestOK /\ LockInv /\ TmpComplete

LEMMA InitCore == Init => Core
<1> SUFFICES ASSUME Init PROVE Core
  OBVIOUS
<1>1. LockInv /\ TmpComplete
  BY NoThreadAssumption DEF Init, LockInv, TmpComplete, Holding
<1>2. FileReadable
  BY FileAssumption DEF Init, FileReadable
<1> QED
  BY <1>1, <1>2, InitType DEF Core

LEMMA NextCore == Core /\ [Next]_vars => Core'
BY NextType, NextLock, NextReadable DEF Core

\* The store's variables keep their types, one thread at a time is between
\* Lock and Unlock, and a rename only ever installs a complete file.
THEOREM CoreInvariant == Spec => []Core
BY InitCore, NextCore, PTL DEF Spec

\* A process killed between any two steps leaves a state.json that parses.
THEOREM FileAlwaysReadable == Spec => []FileReadable
<1>1. Core => FileReadable
  BY DEF Core
<1> QED
  BY <1>1, CoreInvariant, PTL

\* Type correctness of the state store, from the stronger CoreInvariant.
THEOREM TypeCorrect == Spec => []TypeOK
<1>1. Core => TypeOK
  BY DEF Core
<1> QED
  BY <1>1, CoreInvariant, PTL

-----------------------------------------------------------------------------
(***************************************************************************)
(* The contents of the store.                                              *)
(***************************************************************************)

LEMMA CopyStays ==
  ASSUME CopyIsCurrent, UNCHANGED <<memory, persisted>>,
         \A s \in Thread : pc'[s] = "working" =>
           pc[s] = "working" /\ req'[s] = req[s] /\ work'[s] = work[s]
  PROVE  CopyIsCurrent'
<1> SUFFICES ASSUME NEW s \in Thread, pc'[s] = "working", req'[s].op \in Crud
             PROVE  work'[s] = (Live(req[s].ns)[req[s].project][TheCollection(s)])'
  BY DEF CopyIsCurrent
<1>1. pc[s] = "working" /\ req'[s] = req[s] /\ work'[s] = work[s]
  OBVIOUS
<1>2. TheCollection(s)' = TheCollection(s)
  BY <1>1 DEF TheCollection
<1>3. work[s] = Live(req[s].ns)[req[s].project][TheCollection(s)]
  BY <1>1 DEF CopyIsCurrent
<1> QED
  BY <1>1, <1>2, <1>3 DEF Live

LEMMA NextCopy == Core /\ CopyIsCurrent /\ [Next]_vars => CopyIsCurrent'
<1> SUFFICES ASSUME Core, CopyIsCurrent, [Next]_vars PROVE CopyIsCurrent'
  OBVIOUS
<1>a. TypeOK /\ RequestOK /\ LockInv /\ Thread = DOMAIN pc
  BY DEF Core, TypeOK
<1>b. ASSUME NEW t \in Thread, Answer(t), UNCHANGED <<memory, persisted>>
      PROVE  CopyIsCurrent'
  <2>1. \A s \in Thread : pc'[s] # "idle" =>
           pc'[s] = pc[s] /\ req'[s] = req[s] /\ work'[s] = work[s]
    BY <1>a, <1>b, AnswerOthers
  <2> QED
    BY <1>b, <2>1, CopyStays
<1> USE DEF store, threads, history, CanLock, Unlock, NeedsFile, OpenTemporary
<1>1. ASSUME NEW t \in Thread, Receive(t) PROVE CopyIsCurrent'
  <2>1. PICK r \in RequestRecord, next \in {"seeding", "waiting"}, copy \in Coll :
          Begin(t, r, next, copy)
    BY <1>1, <1>a, ReceiveBegins
  <2>2. \A s \in Thread : pc'[s] = "working" =>
           pc[s] = "working" /\ req'[s] = req[s] /\ work'[s] = work[s]
    BY <2>1, <1>a DEF Begin, TypeOK
  <2> QED
    BY <2>1, <2>2, CopyStays DEF Begin
<1>2. ASSUME NEW t \in Thread, SeedAdd(t) PROVE CopyIsCurrent'
  <2>1. \A s \in Thread : pc'[s] = "working" =>
           pc[s] = "working" /\ req'[s] = req[s] /\ work'[s] = work[s]
    BY <1>2, <1>a DEF SeedAdd, TypeOK
  <2> QED
    BY <1>2, <2>1, CopyStays DEF SeedAdd
<1>3. ASSUME NEW t \in Thread, SeedInvalid(t) PROVE CopyIsCurrent'
  BY <1>3, <1>b DEF SeedInvalid
<1>4. ASSUME NEW t \in Thread, Acquire(t) PROVE CopyIsCurrent'
  <2>1. req' = req /\ memory' = memory /\ persisted' = persisted
    BY <1>4 DEF Acquire
  <2>2. \A s \in Thread : TheCollection(s)' = TheCollection(s)
    BY <2>1 DEF TheCollection
  <2>3. \A s \in Thread : pc'[s] = "working" => s = t
    BY <1>4, <1>a, NoThreadAssumption DEF Acquire, LockInv, Holding, TypeOK
  <2>4. req[t].op \in Crud =>
          work'[t] = Live(req[t].ns)[req[t].project][TheCollection(t)]
    BY <1>4, <1>a DEF Acquire, TypeOK
  <2> QED
    BY <2>1, <2>2, <2>3, <2>4 DEF CopyIsCurrent, Live
<1>5. ASSUME NEW t \in Thread, Reject(t) PROVE CopyIsCurrent'
  BY <1>5, <1>b DEF Reject
<1>6. ASSUME NEW t \in Thread, PutMemory(t) PROVE CopyIsCurrent'
  <2>1. \A s \in Thread : pc'[s] # "working"
    BY <1>6, <1>a DEF PutMemory, Answer, LockInv, Holding, TypeOK
  <2> QED
    BY <2>1 DEF CopyIsCurrent
<1>7. ASSUME NEW t \in Thread, PutPersisted(t) PROVE CopyIsCurrent'
  <2>1. \A s \in Thread : pc'[s] # "working"
    BY <1>7, <1>a DEF PutPersisted, LockInv, Holding, TypeOK
  <2> QED
    BY <2>1 DEF CopyIsCurrent
<1>8. ASSUME NEW t \in Thread, FinishWrite(t) PROVE CopyIsCurrent'
  <2>1. \A s \in Thread : pc'[s] = "working" => pc[s] = "working"
    BY <1>8, <1>a DEF FinishWrite, TypeOK
  <2> QED
    BY <1>8, <2>1, CopyStays DEF FinishWrite
<1>9. ASSUME NEW t \in Thread, Rename(t) PROVE CopyIsCurrent'
  BY <1>9, <1>b DEF Rename
<1>10. ASSUME NEW t \in Thread, FlushFails(t) PROVE CopyIsCurrent'
  BY <1>10, <1>b DEF FlushFails
<1>11. ASSUME NEW p \in Project, NEW m \in Mode, SetStateMode(p, m)
       PROVE  CopyIsCurrent'
  BY <1>11, CopyStays DEF SetStateMode
<1>12. ASSUME Restart PROVE CopyIsCurrent'
  BY <1>12 DEF Restart, CopyIsCurrent
<1>13. CASE UNCHANGED vars
  BY <1>13, CopyStays DEF vars
<1> QED
  BY <1>1, <1>2, <1>3, <1>4, <1>5, <1>6, <1>7, <1>8, <1>9, <1>10, <1>11, <1>12, <1>13
     DEF Next, Serve

\* What every collection of the store satisfies.
Sound(c) == DistinctKeys(c) /\ KeysMatchIds(c)

AllSound(cols) == \A p \in Project, c \in Collection : Sound(cols[p][c])

\* The inductive invariant behind UniqueIds and IdMatchesUrl: it also speaks
\* of the collections that seeds are building outside the store.
ContentsInv ==
  /\ Core
  /\ CopyIsCurrent
  /\ AllSound(memory) /\ AllSound(persisted) /\ AllSound(Contents(disk))
  /\ \A t \in Thread : req[t].op = "seed" => Sound(work[t])

LEMMA EmptySound == Sound(NoCollection) /\ AllSound(Empty)
BY DEF Sound, AllSound, Empty, NoCollection, DistinctKeys, KeysMatchIds

LEMMA ChangedSound ==
  ASSUME NEW t \in Thread, ContentsInv, pc[t] = "working", ~Rejected(t), req[t].op # "reset"
  PROVE  Sound(Changed(t))
<1> DEFINE r == req[t]
<1>1. /\ r.op \in {"create", "put", "patch", "delete", "seed"}
      /\ r.obj \in Object /\ r.uuid \in Texts \cup {Unset} /\ work[t] \in Coll
      /\ r.project \in Project /\ RequestOK
  BY DEF ContentsInv, Core, TypeOK, RequestRecord, RequestOK
<1>2. CASE r.op = "seed"
  BY <1>2 DEF Changed, ContentsInv
<1>3. CASE r.op # "seed"
  <2>1. Sound(work[t])
    BY <1>1, <1>3, TheCollectionType DEF ContentsInv, CopyIsCurrent, Live, AllSound, Crud
  <2>2. CASE r.op = "create"
    BY <1>1, <2>1, <2>2, AddItemDistinct, AddItemKeyed DEF Changed, Rejected, Sound
  <2>3. CASE r.op \in {"put", "patch", "delete"}
    <3>1. r.key \in Key /\ Has(work[t], r.key)
      BY <1>1, <2>3, AddressedAssumption DEF RequestOK, Rejected
    <3> QED
      BY <1>1, <2>1, <2>3, <3>1, UpdateItemDistinct, UpdateItemKeyed,
         RemoveItemDistinct, RemoveItemKeyed DEF Changed, Sound
  <2> QED
    BY <1>1, <1>3, <2>2, <2>3
<1> QED
  BY <1>2, <1>3

LEMMA PutSound ==
  ASSUME NEW t \in Thread, ContentsInv, pc[t] = "working", ~Rejected(t), Put(t)
  PROVE  AllSound(memory') /\ AllSound(persisted')
<1> DEFINE r == req[t]
           Replaced(cols) == [cols EXCEPT ![r.project][TheCollection(t)] = Changed(t)]
           Wiped(cols) == [cols EXCEPT ![r.project] =
                        [c \in Collection |-> IF c \in r.cols THEN NoCollection ELSE @[c]]]
<1>1. r.project \in Project /\ memory \in Collections /\ persisted \in Collections
      /\ r.op \in {"create", "put", "patch", "delete", "seed", "reset"} /\ RequestOK
  BY DEF ContentsInv, Core, TypeOK, RequestRecord, RequestOK
<1>2. CASE r.op = "reset"
  <2>1. \A cols \in Collections : AllSound(cols) => AllSound(Wiped(cols))
    BY <1>1, EmptySound DEF Collections, AllSound
  <2> QED
    BY <1>1, <1>2, <2>1 DEF Put, ContentsInv
<1>3. CASE r.op # "reset"
  <2>1. TheCollection(t) \in Collection /\ Sound(Changed(t))
    BY <1>1, <1>3, TheCollectionType, ChangedSound DEF Crud
  <2>2. \A cols \in Collections : AllSound(cols) => AllSound(Replaced(cols))
    BY <1>1, <2>1 DEF Collections, AllSound
  <2> QED
    BY <1>1, <1>3, <2>2 DEF Put, ContentsInv
<1> QED
  BY <1>2, <1>3

LEMMA NextContents == ContentsInv /\ [Next]_vars => ContentsInv'
<1> SUFFICES ASSUME ContentsInv, [Next]_vars PROVE ContentsInv'
  OBVIOUS
<1> DEFINE Good == /\ AllSound(memory) /\ AllSound(persisted) /\ AllSound(Contents(disk))
                   /\ \A t \in Thread : req[t].op = "seed" => Sound(work[t])
<1>a. Core' /\ CopyIsCurrent'
  BY NextCore, NextCopy DEF ContentsInv, Core
<1>b. TypeOK /\ RequestOK /\ LockInv /\ TmpComplete
  BY DEF ContentsInv, Core
<1>c. NoRequest.op = "none"
  BY DEF NoRequest, NewRequest
<1>d. ASSUME NEW t \in Thread, Answer(t)
      PROVE  \A s \in Thread : req'[s].op = "seed" => Sound(work'[s])
  BY <1>b, <1>c, <1>d DEF Answer, TypeOK, ContentsInv
<1> USE DEF store, threads, history, CanLock, Unlock, NeedsFile, OpenTemporary
<1>1. ASSUME NEW t \in Thread, Receive(t) PROVE Good'
  <2>1. PICK r \in RequestRecord, next \in {"seeding", "waiting"}, copy \in Coll :
           /\ Begin(t, r, next, copy)
           /\ r.op = "seed" => copy = [items |-> <<>>, nextId |-> 1]
    BY <1>1, <1>b, ReceiveBegins
  <2>2. Sound([items |-> <<>>, nextId |-> 1])
    BY DEF Sound, DistinctKeys, KeysMatchIds
  <2> QED
    BY <1>b, <2>1, <2>2 DEF Begin, ContentsInv, TypeOK
<1>2. ASSUME NEW t \in Thread, SeedAdd(t) PROVE Good'
  <2>1. req[t].op = "seed" /\ work[t] \in Coll /\ req[t].list \in Seq(Object)
    BY <1>2, <1>b DEF SeedAdd, RequestOK, TypeOK, RequestRecord
  <2>2. Len(work[t].items) + 1 \in 1 .. Len(req[t].list)
    BY <1>2, <2>1 DEF SeedAdd, SeedBuilt, Coll
  <2>3. NextObject(t) \in Object
    BY <2>1, <2>2 DEF NextObject
  <2>4. Sound(AddItem(work[t], NextObject(t), Unset))
    BY <1>2, <2>1, <2>3, AddItemDistinct, AddItemKeyed DEF SeedAdd, ContentsInv, Sound
  <2> QED
    BY <1>2, <1>b, <2>4 DEF SeedAdd, ContentsInv, TypeOK
<1>3. ASSUME NEW t \in Thread, SeedInvalid(t) PROVE Good'
  BY <1>3, <1>d DEF SeedInvalid, ContentsInv
<1>4. ASSUME NEW t \in Thread, Acquire(t) PROVE Good'
  <2>1. \A s \in Thread : req[s].op = "seed" => work'[s] = work[s]
    BY <1>4, <1>b DEF Acquire, TypeOK, Crud
  <2> QED
    BY <1>4, <2>1 DEF Acquire, ContentsInv
<1>5. ASSUME NEW t \in Thread, Reject(t) PROVE Good'
  BY <1>5, <1>d DEF Reject, ContentsInv
<1>6. ASSUME NEW t \in Thread, PutMemory(t) PROVE Good'
  BY <1>6, <1>d, PutSound DEF PutMemory, ContentsInv
<1>7. ASSUME NEW t \in Thread, PutPersisted(t) PROVE Good'
  BY <1>7, PutSound DEF PutPersisted, ContentsInv
<1>8. ASSUME NEW t \in Thread, FinishWrite(t) PROVE Good'
  BY <1>8 DEF FinishWrite, ContentsInv
<1>9. ASSUME NEW t \in Thread, Rename(t) PROVE Good'
  <2>1. disk' = persisted
    BY <1>9, <1>b DEF Rename, TmpComplete
  <2>2. AllSound(Contents(disk'))
    BY <2>1, EmptySound DEF Contents, ContentsInv
  <2> QED
    BY <1>9, <1>d, <2>2 DEF Rename, ContentsInv, Contents
<1>10. ASSUME NEW t \in Thread, FlushFails(t) PROVE Good'
  BY <1>10, <1>d DEF FlushFails, ContentsInv
<1>11. ASSUME NEW p \in Project, NEW m \in Mode, SetStateMode(p, m) PROVE Good'
  BY <1>11 DEF SetStateMode, ContentsInv
<1>12. ASSUME Restart PROVE Good'
  BY <1>12, <1>c, EmptySound DEF Restart, ContentsInv, Contents
<1>13. ASSUME UNCHANGED vars PROVE Good'
  <2>1. memory' = memory /\ persisted' = persisted /\ disk' = disk /\ req' = req /\ work' = work
    BY <1>13 DEF vars
  <2> QED
    BY <2>1 DEF ContentsInv, Contents
<1>14. Good'
  BY <1>1, <1>2, <1>3, <1>4, <1>5, <1>6, <1>7, <1>8, <1>9, <1>10, <1>11, <1>12, <1>13
     DEF Next, Serve, ContentsInv
<1> QED
  BY <1>a, <1>14 DEF ContentsInv

LEMMA InitContents == Init => ContentsInv
<1> SUFFICES ASSUME Init PROVE ContentsInv
  OBVIOUS
<1>1. NoRequest.op = "none"
  BY DEF NoRequest, NewRequest
<1>2. CopyIsCurrent
  BY DEF Init, CopyIsCurrent
<1>3. AllSound(memory) /\ AllSound(persisted) /\ AllSound(Contents(disk))
  BY EmptySound DEF Init, Contents
<1> QED
  BY <1>1, <1>2, <1>3, InitCore DEF Init, ContentsInv

THEOREM ContentsInvariant == Spec => []ContentsInv
BY InitContents, NextContents, PTL DEF Spec

\* No two resources of a collection share an id, in memory, in the persisted
\* namespace or in state.json, however many handlers create, seed and restart.
THEOREM IdsUnique == Spec => []UniqueIds
<1>1. ContentsInv => UniqueIds
  BY DEF ContentsInv, UniqueIds, AllSound, Sound
<1> QED
  BY <1>1, ContentsInvariant, PTL

\* The id inside a resource is always the one that addresses it.
THEOREM IdsMatchUrls == Spec => []IdMatchesUrl
<1>1. ContentsInv => IdMatchesUrl
  BY DEF ContentsInv, IdMatchesUrl, AllSound, Sound
<1> QED
  BY <1>1, ContentsInvariant, PTL

\* Transact is isolated: the copy a handler changes is what the store holds.
THEOREM CopiesCurrent == Spec => []CopyIsCurrent
<1>1. ContentsInv => CopyIsCurrent
  BY DEF ContentsInv
<1> QED
  BY <1>1, ContentsInvariant, PTL

-----------------------------------------------------------------------------
(***************************************************************************)
(* What clients were told.  While a handler writes the file, what it will  *)
(* tell its client already holds of the store; when the rename succeeds    *)
(* the file says the same.                                                 *)
(***************************************************************************)

LiveResources == Resources("memory", memory) \cup Resources("persisted", persisted)

SavedResources == Resources("persisted", Contents(disk))

ClaimsHold ==
  \A t \in Thread :
    pc[t] \in {"writing", "renaming"} =>
      claim[t].made \subseteq LiveResources /\ claim[t].removed \cap LiveResources = {}

AckInv == Core /\ AcknowledgedKept /\ RemovedStaysRemoved /\ ClaimsHold

\* A resource says which namespace it is in.
LEMMA ResourcesNamespace ==
  ASSUME NEW ns, NEW cols, NEW r \in Resources(ns, cols)
  PROVE  r[1] = ns
BY DEF Resources

LEMMA PutClaim ==
  ASSUME NEW t \in Thread, TypeOK, RequestOK, ClaimsHold, LockInv,
         pc[t] = "working", PutPersisted(t)
  PROVE  ClaimsHold'
<1>1. claim'[t] = NewClaim(t) /\ pc'[t] = "writing"
  BY DEF PutPersisted, TypeOK
<1>2. \A s \in Thread : pc'[s] \in {"writing", "renaming"} => s = t
  BY DEF PutPersisted, TypeOK, LockInv, Holding
<1>3. NewClaim(t).made \subseteq LiveResources' /\ NewClaim(t).removed \cap LiveResources' = {}
  BY DEF NewClaim, LiveResources
<1> QED
  BY <1>1, <1>2, <1>3 DEF ClaimsHold

\* Between lock and unlock nobody else changes the store.
LEMMA ClaimsStay ==
  ASSUME ClaimsHold, UNCHANGED <<memory, persisted>>,
         \A s \in Thread : pc'[s] \in {"writing", "renaming"} =>
           pc[s] \in {"writing", "renaming"} /\ claim'[s] = claim[s]
  PROVE  ClaimsHold'
BY DEF ClaimsHold, LiveResources

LEMMA NextClaims == Core /\ ClaimsHold /\ [Next]_vars => ClaimsHold'
<1> SUFFICES ASSUME Core, ClaimsHold, [Next]_vars PROVE ClaimsHold'
  OBVIOUS
<1>a. TypeOK /\ RequestOK /\ LockInv
  BY DEF Core
<1>b. ASSUME NEW t \in Thread, Answer(t), UNCHANGED <<memory, persisted>> PROVE ClaimsHold'
  <2>1. \A s \in Thread : pc'[s] \in {"writing", "renaming"} =>
           pc[s] \in {"writing", "renaming"} /\ claim'[s] = claim[s]
    BY <1>a, <1>b DEF Answer, TypeOK
  <2> QED
    BY <1>b, <2>1, ClaimsStay
<1> USE DEF store, threads, history, CanLock, Unlock, NeedsFile, OpenTemporary
<1>1. ASSUME NEW t \in Thread, Receive(t) PROVE ClaimsHold'
  <2>1. PICK r \in RequestRecord, next \in {"seeding", "waiting"}, copy \in Coll :
          Begin(t, r, next, copy)
    BY <1>1, <1>a, ReceiveBegins
  <2>2. \A s \in Thread : pc'[s] \in {"writing", "renaming"} => pc[s] \in {"writing", "renaming"}
    BY <2>1, <1>a DEF Begin, TypeOK
  <2> QED
    BY <2>1, <2>2, ClaimsStay DEF Begin
<1>2. ASSUME NEW t \in Thread, SeedAdd(t) PROVE ClaimsHold'
  BY <1>2, ClaimsStay DEF SeedAdd
<1>3. ASSUME NEW t \in Thread, SeedInvalid(t) PROVE ClaimsHold'
  BY <1>3, <1>b DEF SeedInvalid
<1>4. ASSUME NEW t \in Thread, Acquire(t) PROVE ClaimsHold'
  <2>1. \A s \in Thread : pc'[s] \in {"writing", "renaming"} => pc[s] \in {"writing", "renaming"}
    BY <1>4, <1>a DEF Acquire, TypeOK
  <2> QED
    BY <1>4, <2>1, ClaimsStay DEF Acquire
<1>5. ASSUME NEW t \in Thread, Reject(t) PROVE ClaimsHold'
  BY <1>5, <1>b DEF Reject
<1>6. ASSUME NEW t \in Thread, PutMemory(t) PROVE ClaimsHold'
  <2>1. \A s \in Thread : pc'[s] \notin {"writing", "renaming"}
    BY <1>6, <1>a DEF PutMemory, Answer, LockInv, Holding, TypeOK
  <2> QED
    BY <2>1 DEF ClaimsHold
<1>7. ASSUME NEW t \in Thread, PutPersisted(t) PROVE ClaimsHold'
  BY <1>7, <1>a, PutClaim DEF PutPersisted
<1>8. ASSUME NEW t \in Thread, FinishWrite(t) PROVE ClaimsHold'
  <2>1. \A s \in Thread : pc'[s] \in {"writing", "renaming"} => pc[s] \in {"writing", "renaming"}
    BY <1>8, <1>a DEF FinishWrite, TypeOK
  <2> QED
    BY <1>8, <2>1, ClaimsStay DEF FinishWrite
<1>9. ASSUME NEW t \in Thread, Rename(t) PROVE ClaimsHold'
  BY <1>9, <1>b DEF Rename
<1>10. ASSUME NEW t \in Thread, FlushFails(t) PROVE ClaimsHold'
  BY <1>10, <1>b DEF FlushFails
<1>11. ASSUME NEW p \in Project, NEW m \in Mode, SetStateMode(p, m) PROVE ClaimsHold'
  BY <1>11, ClaimsStay DEF SetStateMode
<1>12. ASSUME Restart PROVE ClaimsHold'
  BY <1>12 DEF Restart, ClaimsHold
<1>13. CASE UNCHANGED vars
  BY <1>13, ClaimsStay DEF vars
<1> QED
  BY <1>1, <1>2, <1>3, <1>4, <1>5, <1>6, <1>7, <1>8, <1>9, <1>10, <1>11, <1>12, <1>13
     DEF Next, Serve

Acknowledged == AcknowledgedKept /\ RemovedStaysRemoved

\* Nothing that Acknowledged looks at has changed.
LEMMA AcknowledgedStays ==
  ASSUME Acknowledged, UNCHANGED <<memory, persisted, disk, known, gone>>
  PROVE  Acknowledged'
<1>1. memory' = memory /\ persisted' = persisted /\ disk' = disk /\ known' = known /\ gone' = gone
  OBVIOUS
<1> QED
  BY <1>1 DEF Acknowledged, AcknowledgedKept, RemovedStaysRemoved, Contents

LEMMA NextAcknowledged == Core /\ ClaimsHold /\ Acknowledged /\ [Next]_vars => Acknowledged'
<1> SUFFICES ASSUME Core, ClaimsHold, Acknowledged, [Next]_vars PROVE Acknowledged'
  OBVIOUS
<1>a. TypeOK /\ RequestOK /\ LockInv /\ TmpComplete
  BY DEF Core
<1>b. /\ known \subseteq LiveResources /\ {r \in known : r[1] = "persisted"} \subseteq SavedResources
      /\ gone \cap LiveResources = {} /\ gone \cap SavedResources = {}
  BY DEF Acknowledged, AcknowledgedKept, RemovedStaysRemoved, LiveResources, SavedResources
<1>c. ASSUME /\ known' \subseteq LiveResources'
             /\ {r \in known' : r[1] = "persisted"} \subseteq SavedResources'
             /\ gone' \cap LiveResources' = {} /\ gone' \cap SavedResources' = {}
      PROVE  Acknowledged'
  BY <1>c DEF Acknowledged, AcknowledgedKept, RemovedStaysRemoved, LiveResources, SavedResources
<1> USE DEF store, threads, history, CanLock, Unlock, NeedsFile, OpenTemporary
<1>1. ASSUME NEW t \in Thread, Receive(t) PROVE Acknowledged'
  <2>1. PICK r \in RequestRecord, next \in {"seeding", "waiting"}, copy \in Coll :
          Begin(t, r, next, copy)
    BY <1>1, <1>a, ReceiveBegins
  <2> QED
    BY <2>1, AcknowledgedStays DEF Begin
<1>2. ASSUME NEW t \in Thread, SeedAdd(t) \/ SeedInvalid(t) PROVE Acknowledged'
  BY <1>2, AcknowledgedStays DEF SeedAdd, SeedInvalid
<1>3. ASSUME NEW t \in Thread, Acquire(t) \/ Reject(t) PROVE Acknowledged'
  BY <1>3, AcknowledgedStays DEF Acquire, Reject
<1>4. ASSUME NEW t \in Thread, PutMemory(t) PROVE Acknowledged'
  <2>1. /\ NewClaim(t).made = LiveResources' \ LiveResources
        /\ NewClaim(t).removed = LiveResources \ LiveResources'
    BY DEF NewClaim, LiveResources
  <2>2. persisted' = persisted /\ disk' = disk
    <3>1. req[t].op # "reset" /\ req[t].ns = "memory"
      BY <1>4, <1>a DEF PutMemory, TypeOK, RequestRecord, Namespace
    <3> QED
      BY <1>4, <3>1 DEF PutMemory, Put
  <2>3. \A r \in LiveResources : r \in LiveResources' \/ r[1] = "memory"
    BY <2>2, ResourcesNamespace DEF LiveResources
  <2>4. \A r \in LiveResources' : r \in LiveResources \/ r[1] = "memory"
    BY <2>2, ResourcesNamespace DEF LiveResources
  <2>5. SavedResources' = SavedResources /\ \A r \in SavedResources : r[1] = "persisted"
    BY <2>2, ResourcesNamespace DEF SavedResources, Contents
  <2>6. /\ known' = (known \ NewClaim(t).removed) \cup NewClaim(t).made
        /\ gone' = (gone \ NewClaim(t).made) \cup NewClaim(t).removed
    BY <1>4 DEF PutMemory
  <2> QED
    BY <1>b, <1>c, <2>1, <2>3, <2>4, <2>5, <2>6
<1>5. ASSUME NEW t \in Thread, PutPersisted(t) PROVE Acknowledged'
  <2>1. /\ NewClaim(t).made = LiveResources' \ LiveResources
        /\ NewClaim(t).removed = LiveResources \ LiveResources'
    BY DEF NewClaim, LiveResources
  <2>2. SavedResources' = SavedResources
    BY <1>5 DEF PutPersisted, SavedResources, Contents
  <2>3. known' = known \ NewClaim(t).removed /\ gone' = gone \ NewClaim(t).made
    BY <1>5 DEF PutPersisted
  <2> QED
    BY <1>b, <1>c, <2>1, <2>2, <2>3
<1>6. ASSUME NEW t \in Thread, FinishWrite(t) \/ FlushFails(t) PROVE Acknowledged'
  BY <1>6, AcknowledgedStays DEF FinishWrite, FlushFails
<1>7. ASSUME NEW t \in Thread, Rename(t) PROVE Acknowledged'
  <2>1. disk' = persisted /\ memory' = memory /\ persisted' = persisted
    BY <1>7, <1>a DEF Rename, TmpComplete
  <2>2. LiveResources' = LiveResources
    BY <2>1 DEF LiveResources
  <2>3. persisted # NoFile
    BY <1>a, FileAssumption DEF TypeOK
  <2>4. claim[t].made \subseteq LiveResources /\ claim[t].removed \cap LiveResources = {}
    BY <1>7 DEF Rename, ClaimsHold
  <2>5. known' = known \cup claim[t].made /\ gone' = gone \cup claim[t].removed
    BY <1>7 DEF Rename
  <2>6. SavedResources' = Resources("persisted", persisted)
    BY <2>1, <2>3 DEF SavedResources, Contents
  <2>7. \A r \in LiveResources : r[1] = "persisted" => r \in Resources("persisted", persisted)
    BY ResourcesNamespace DEF LiveResources
  <2>8. Resources("persisted", persisted) \subseteq LiveResources
    BY DEF LiveResources
  <2> QED
    BY <1>b, <1>c, <2>2, <2>4, <2>5, <2>6, <2>7, <2>8
<1>8. ASSUME NEW p \in Project, NEW m \in Mode, SetStateMode(p, m) PROVE Acknowledged'
  BY <1>8, AcknowledgedStays DEF SetStateMode
<1>9. ASSUME Restart PROVE Acknowledged'
  <2>1. disk' = disk /\ memory' = Empty /\ persisted' = Contents(disk)
    BY <1>9 DEF Restart
  <2>2. Resources("memory", Empty) = {}
    BY DEF Resources, Empty, NoCollection, Keys
  <2>3. SavedResources' = SavedResources /\ LiveResources' = SavedResources
    BY <2>1, <2>2 DEF SavedResources, LiveResources, Contents
  <2>4. known' = {r \in known : r[1] = "persisted"} /\ gone' \subseteq gone
    BY <1>9 DEF Restart
  <2> QED
    BY <1>b, <1>c, <2>3, <2>4
<1>10. CASE UNCHANGED vars
  BY <1>10, AcknowledgedStays DEF vars
<1> QED
  BY <1>1, <1>2, <1>3, <1>4, <1>5, <1>6, <1>7, <1>8, <1>9, <1>10 DEF Next, Serve

LEMMA InitAcknowledged == Init => AckInv
<1> SUFFICES ASSUME Init PROVE AckInv
  OBVIOUS
<1>1. AcknowledgedKept /\ RemovedStaysRemoved /\ ClaimsHold
  BY DEF Init, AcknowledgedKept, RemovedStaysRemoved, ClaimsHold
<1> QED
  BY <1>1, InitCore DEF AckInv

LEMMA AcknowledgedInvariant == Spec => [](AcknowledgedKept /\ RemovedStaysRemoved)
<1>1. AckInv /\ [Next]_vars => AckInv'
  BY NextCore, NextClaims, NextAcknowledged DEF AckInv, Acknowledged
<1>2. AckInv => AcknowledgedKept /\ RemovedStaysRemoved
  BY DEF AckInv
<1> QED
  BY <1>1, <1>2, InitAcknowledged, PTL DEF Spec

\* What a client was told exists stays until a later request removes it, and is
\* in state.json for a restart to find.
THEOREM AcknowledgedResourcesKept == Spec => []AcknowledgedKept
BY AcknowledgedInvariant, PTL

\* What a client was told is removed does not come back, not by a restart
\* either, until a later request makes it again.
THEOREM RemovalsStand == Spec => []RemovedStaysRemoved
BY AcknowledgedInvariant, PTL

-----------------------------------------------------------------------------
(***************************************************************************)
(* Sequential ids.  A collection's counter wraps around the largest int:   *)
(* after a client has used that int as an id, or has drawn it, numbering   *)
(* starts again at 1, and so may ids.  What is proved is proved of the     *)
(* behaviours in which no counter gets that far.                           *)
(***************************************************************************)

\* Every counter of the store is still below the largest int by more than the
\* number of resources it may have to skip.
CountersHaveRoom ==
  \A cols \in {memory, persisted} : \A p \in Project, c \in Collection :
    /\ cols[p][c].nextId >= 0
    /\ cols[p][c].nextId + Len(cols[p][c].items) < MaxInt

\* A collection's resources are in one Go slice, whose length is an int.
SlicesFit ==
  \A cols \in {memory, persisted} : \A p \in Project, c \in Collection :
    Len(cols[p][c].items) <= MaxInt

\* The counter of its collection has gone past the id.
Passed(i, cols) == i[4] \in Int /\ i[4] < cols[i[2]][i[3]].nextId

\* The inductive invariant behind IdsNeverReused: every counter is past the ids
\* clients were given, in the store and in the file a restart would load; so it
\* is for the id a handler will give once the file is written.
FreshInv ==
  /\ \A i \in issued : Passed(i, Live(i[1]))
  /\ \A i \in issued : i[1] = "persisted" => Passed(i, Contents(disk))
  /\ \A t \in Thread : pc[t] \in {"writing", "renaming"} =>
       \A i \in claim[t].issued : i[1] = "persisted" /\ Passed(i, persisted)

\* No request is refused because of an id the server has drawn itself.
LEMMA DrawnIdFree ==
  ASSUME ContentsInv, SlicesFit
  PROVE  DrawnIdIsFree
<1> SUFFICES ASSUME NEW t \in Thread, pc[t] = "working", req[t].op = "create",
                    req[t].obj.id = NoId, req[t].uuid = Unset
             PROVE  ~Rejected(t)
  BY DEF DrawnIdIsFree
<1>1. work[t] \in Coll /\ TypeOK /\ RequestOK /\ CopyIsCurrent /\ req[t].project \in Project
  BY DEF ContentsInv, Core, TypeOK, RequestRecord
<1>2. TheCollection(t) \in Collection
  BY <1>1, TheCollectionType DEF Crud
<1>3. Len(work[t].items) <= MaxInt
  BY <1>1, <1>2 DEF CopyIsCurrent, Crud, Live, SlicesFit
<1>4. FirstId(work[t]) \in 1 .. MaxInt
  BY <1>1, FirstIdType
<1>5. ~Has(work[t], FreeId(work[t], FirstId(work[t])))
  BY <1>1, <1>3, <1>4, FreeIdIsFree
<1>6. ChosenId(work[t], req[t].obj, req[t].uuid).id.key = FreeId(work[t], FirstId(work[t]))
  BY DEF ChosenId
<1> QED
  BY <1>5, <1>6 DEF Rejected, Conflicts

\* A sequential id the server draws is free, as long as no collection has more
\* resources than there are positive ints: also after ids clients chose
\* themselves, and after the counter has wrapped around the largest int.
THEOREM DrawnIdsAreFree == Spec /\ []SlicesFit => []DrawnIdIsFree
BY DrawnIdFree, ContentsInvariant, PTL

\* The copy a handler under the lock is about to change, and its counter.
LEMMA CounterOfCopy ==
  ASSUME ContentsInv, CountersHaveRoom, NEW t \in Thread, pc[t] = "working", req[t].op \in Crud
  PROVE  LET c == work[t] IN
         /\ c \in Coll /\ c = Live(req[t].ns)[req[t].project][TheCollection(t)]
         /\ req[t].ns \in Namespace /\ req[t].project \in Project
         /\ TheCollection(t) \in Collection /\ req[t].cols = {TheCollection(t)}
         /\ c.nextId >= 0 /\ c.nextId + Len(c.items) < MaxInt
<1>1. /\ work[t] \in Coll /\ TypeOK /\ RequestOK /\ CopyIsCurrent
      /\ req[t].project \in Project /\ req[t].ns \in Namespace
  BY DEF ContentsInv, Core, TypeOK, RequestRecord
<1>2. TheCollection(t) \in Collection /\ req[t].cols = {TheCollection(t)}
  BY <1>1, TheCollectionType
<1>3. work[t] = Live(req[t].ns)[req[t].project][TheCollection(t)]
  BY DEF ContentsInv, CopyIsCurrent
<1>4. work[t].nextId >= 0 /\ work[t].nextId + Len(work[t].items) < MaxInt
  BY <1>1, <1>2, <1>3 DEF Live, CountersHaveRoom
<1> QED
  BY <1>1, <1>2, <1>3, <1>4

LEMMA FreshImplies ==
  ASSUME ContentsInv, FreshInv, CountersHaveRoom
  PROVE  IdsNeverReused
<1> SUFFICES ASSUME NEW t \in Thread, pc[t] = "working", NEW i \in Generated(t), i \in issued
             PROVE  FALSE
  BY DEF IdsNeverReused
<1> DEFINE r == req[t]
           k == ChosenId(work[t], r.obj, Unset).id.key
<1>1. r.op = "create" /\ r.obj.id = NoId /\ r.uuid = Unset /\ i = <<r.ns, r.project, TheCollection(t), k>>
  BY DEF Generated
<1>2. /\ work[t] \in Coll /\ work[t] = Live(r.ns)[r.project][TheCollection(t)]
      /\ work[t].nextId >= 0 /\ work[t].nextId + Len(work[t].items) < MaxInt
  BY <1>1, CounterOfCopy DEF Crud
<1>3. FirstId(work[t]) \in 1 .. MaxInt /\ FirstId(work[t]) + Len(work[t].items) <= MaxInt
      /\ FirstId(work[t]) >= work[t].nextId
  BY <1>2, FirstIdType, MaxIntAssumption DEF FirstId, Coll, MinInt
<1>4. k = FreeId(work[t], FirstId(work[t]))
  BY <1>1 DEF ChosenId
<1>5. k \in FirstId(work[t]) .. MaxInt
  BY <1>2, <1>3, <1>4, FreeIdAhead
<1>6. k < work[t].nextId
  BY <1>1, <1>2 DEF FreshInv, Passed
<1> QED
  BY <1>2, <1>3, <1>5, <1>6, MaxIntAssumption DEF Coll, MinInt

\* What a handler puts back has a counter at least that of the copy, and past
\* the id it has drawn, unless the counter has wrapped.
LEMMA ChangedCounter ==
  ASSUME ContentsInv, CountersHaveRoom, NEW t \in Thread, pc[t] = "working",
         req[t].op \in Crud, ~Rejected(t), Changed(t).nextId >= 0
  PROVE  /\ Changed(t).nextId \in Int /\ work[t].nextId \in Int
         /\ Changed(t).nextId >= work[t].nextId
         /\ \A i \in Generated(t) :
              /\ i[1] = req[t].ns /\ i[2] = req[t].project /\ i[3] = TheCollection(t)
              /\ i[4] \in Int /\ i[4] < Changed(t).nextId
<1> DEFINE r == req[t]
           c == work[t]
<1>1. /\ r.obj \in Object /\ r.uuid \in Texts \cup {Unset} /\ TypeOK /\ RequestOK
      /\ r.op \in {"create", "put", "patch", "delete"}
  BY DEF ContentsInv, Core, TypeOK, RequestRecord, Crud
<1>2. c \in Coll /\ c.nextId >= 0 /\ c.nextId + Len(c.items) < MaxInt
  BY CounterOfCopy
<1>3. Changed(t) \in Coll
  BY <1>1, ChangedType
<1>4. c.nextId \in Int /\ Changed(t).nextId \in Int
  BY <1>2, <1>3, MaxIntAssumption DEF Coll, MinInt
<1>5. CASE r.op = "create"
  <2>1. Changed(t).nextId = ChosenId(c, r.obj, r.uuid).nextId
    BY <1>5 DEF Changed, AddItem
  <2>2. Changed(t).nextId >= c.nextId
    BY <1>1, <1>2, <2>1, CounterAdvances
  <2>3. ASSUME NEW i \in Generated(t)
        PROVE  /\ i[1] = r.ns /\ i[2] = r.project /\ i[3] = TheCollection(t)
               /\ i[4] \in Int /\ i[4] < Changed(t).nextId
    <3>1. /\ r.obj.id = NoId /\ r.uuid = Unset
          /\ i = <<r.ns, r.project, TheCollection(t), ChosenId(c, r.obj, Unset).id.key>>
      BY <2>3 DEF Generated
    <3>2. /\ ChosenId(c, r.obj, Unset).id.key \in Int
          /\ ChosenId(c, r.obj, Unset).nextId = ChosenId(c, r.obj, Unset).id.key + 1
      BY <1>1, <1>2, <2>1, <3>1, CounterAdvances
    <3> QED
      BY <2>1, <3>1, <3>2
  <2> QED
    BY <1>4, <2>2, <2>3
<1>6. CASE r.op \in {"put", "patch", "delete"}
  <2>1. Changed(t).nextId = c.nextId
    BY <1>2, <1>6 DEF Changed, UpdateItem, RemoveItem, Coll
  <2>2. Generated(t) = {}
    BY <1>6 DEF Generated
  <2> QED
    BY <1>4, <2>1, <2>2
<1> QED
  BY <1>1, <1>5, <1>6

\* The contents of a namespace after the step.
LiveAfter(ns) == IF ns = "memory" THEN memory' ELSE persisted'

\* A put leaves every counter past the ids given out, but for those it forgets.
LEMMA PutFresh ==
  ASSUME ContentsInv, FreshInv, CountersHaveRoom, CountersHaveRoom', NEW t \in Thread,
         pc[t] = "working", ~Rejected(t), Put(t)
  PROVE  \A i \in (issued \ Forgotten(t)) \cup Generated(t) : Passed(i, LiveAfter(i[1]))
<1> DEFINE r == req[t]
           Replaced(cols) == [cols EXCEPT ![r.project][TheCollection(t)] = Changed(t)]
           Wiped(cols) == [cols EXCEPT ![r.project] =
                        [c \in Collection |-> IF c \in r.cols THEN NoCollection ELSE @[c]]]
<1>1. /\ r.project \in Project /\ memory \in Collections /\ persisted \in Collections
      /\ r.op \in Crud \cup {"seed", "reset"} /\ RequestOK /\ r.ns \in Namespace
      /\ \A i \in issued : i[1] \in Namespace /\ i[2] \in Project /\ i[3] \in Collection
  BY DEF ContentsInv, Core, TypeOK, RequestRecord, RequestOK, Resource, Crud
<1>2. CASE r.op = "reset"
  <2>1. Generated(t) = {}
    BY <1>2 DEF Generated
  <2>2. memory' = Wiped(memory) /\ persisted' = Wiped(persisted)
    BY <1>2 DEF Put
  <2>3. ASSUME NEW cols \in Collections, NEW i \in issued \ Forgotten(t)
        PROVE  Wiped(cols)[i[2]][i[3]] = cols[i[2]][i[3]]
    BY <1>1, <1>2, <2>3 DEF Forgotten, Collections
  <2>4. \A i \in issued \ Forgotten(t) : LiveAfter(i[1])[i[2]][i[3]] = Live(i[1])[i[2]][i[3]]
    BY <1>1, <2>2, <2>3 DEF Live, LiveAfter
  <2> QED
    BY <2>1, <2>4 DEF FreshInv, Passed
<1>3. CASE r.op # "reset"
  <2>1. TheCollection(t) \in Collection /\ r.cols = {TheCollection(t)}
    BY <1>1, <1>3, TheCollectionType
  <2>2. LiveAfter(r.ns) = Replaced(Live(r.ns)) /\ \A ns \in Namespace \ {r.ns} : LiveAfter(ns) = Live(ns)
    BY <1>1, <1>3 DEF Put, Live, LiveAfter, Namespace
  <2>3. Live(r.ns) \in Collections
    BY <1>1 DEF Live
  <2>4. LiveAfter(r.ns)[r.project][TheCollection(t)] = Changed(t)
    BY <1>1, <2>1, <2>2, <2>3 DEF Collections
  <2>5. ASSUME NEW i \in issued, i[1] # r.ns \/ i[2] # r.project \/ i[3] # TheCollection(t)
        PROVE  LiveAfter(i[1])[i[2]][i[3]] = Live(i[1])[i[2]][i[3]]
    <3>1. CASE i[1] # r.ns
      BY <1>1, <2>2, <3>1
    <3>2. CASE i[1] = r.ns
      <4>1. LiveAfter(i[1]) = Replaced(Live(r.ns))
        BY <2>2, <3>2
      <4> QED
        BY <1>1, <2>1, <2>3, <2>5, <3>2, <4>1 DEF Collections
    <3> QED
      BY <3>1, <3>2
  <2>6. CASE r.op = "seed"
    <3>1. Generated(t) = {}
      BY <2>6 DEF Generated
    <3>2. \A i \in issued \ Forgotten(t) :
            i[1] # r.ns \/ i[2] # r.project \/ i[3] # TheCollection(t)
      BY <2>1, <2>6 DEF Forgotten
    <3> QED
      BY <2>5, <3>1, <3>2 DEF FreshInv, Passed
  <2>7. CASE r.op \in Crud
    <3>1. Changed(t).nextId >= 0
      <4>1. LiveAfter(r.ns) \in {memory', persisted'}
        BY DEF LiveAfter
      <4> QED
        BY <1>1, <2>1, <2>4, <4>1 DEF CountersHaveRoom
    <3>2. /\ Changed(t).nextId \in Int /\ work[t].nextId \in Int
          /\ Changed(t).nextId >= work[t].nextId
          /\ \A i \in Generated(t) :
               /\ i[1] = req[t].ns /\ i[2] = req[t].project /\ i[3] = TheCollection(t)
               /\ i[4] \in Int /\ i[4] < Changed(t).nextId
      BY <2>7, <3>1, ChangedCounter
    <3>3. work[t] = Live(r.ns)[r.project][TheCollection(t)]
      BY <2>7 DEF ContentsInv, CopyIsCurrent
    <3>4. ASSUME NEW i \in Generated(t) PROVE Passed(i, LiveAfter(i[1]))
      BY <2>4, <3>2, <3>4 DEF Passed
    <3>5. ASSUME NEW i \in issued PROVE Passed(i, LiveAfter(i[1]))
      <4>1. Passed(i, Live(i[1]))
        BY DEF FreshInv
      <4>2. CASE i[1] # r.ns \/ i[2] # r.project \/ i[3] # TheCollection(t)
        BY <2>5, <4>1, <4>2 DEF Passed
      <4>3. CASE i[1] = r.ns /\ i[2] = r.project /\ i[3] = TheCollection(t)
        BY <2>4, <3>2, <3>3, <4>1, <4>3 DEF Passed
      <4> QED
        BY <4>2, <4>3
    <3> QED
      BY <3>4, <3>5
  <2> QED
    BY <1>1, <1>3, <2>6, <2>7
<1> QED
  BY <1>2, <1>3

\* A step that leaves the store alone.
LEMMA FreshStays ==
  ASSUME FreshInv, UNCHANGED <<memory, persisted, disk>>, issued' \subseteq issued,
         \A s \in Thread : pc'[s] \in {"writing", "renaming"} =>
           pc[s] \in {"writing", "renaming"} /\ claim'[s] = claim[s]
  PROVE  FreshInv'
<1>1. memory' = memory /\ persisted' = persisted /\ disk' = disk
  OBVIOUS
<1>2. \A i \in issued' : Passed(i, Live(i[1])')
  BY <1>1 DEF FreshInv, Live, Passed
<1>3. \A i \in issued' : i[1] = "persisted" => Passed(i, Contents(disk'))
  BY <1>1 DEF FreshInv
<1>4. \A t \in Thread : pc'[t] \in {"writing", "renaming"} =>
        \A i \in claim'[t].issued : i[1] = "persisted" /\ Passed(i, persisted')
  BY <1>1 DEF FreshInv
<1> QED
  BY <1>2, <1>3, <1>4 DEF FreshInv, Passed, Live, Contents

LEMMA NextFresh ==
  ContentsInv /\ FreshInv /\ CountersHaveRoom /\ CountersHaveRoom' /\ [Next]_vars => FreshInv'
<1> SUFFICES ASSUME ContentsInv, FreshInv, CountersHaveRoom, CountersHaveRoom', [Next]_vars
             PROVE  FreshInv'
  OBVIOUS
<1>a. TypeOK /\ RequestOK /\ LockInv /\ TmpComplete
  BY DEF ContentsInv, Core
<1>b. ASSUME NEW t \in Thread, Answer(t), UNCHANGED <<memory, persisted, disk, issued>>
      PROVE  FreshInv'
  <2>1. \A s \in Thread : pc'[s] \in {"writing", "renaming"} =>
           pc[s] \in {"writing", "renaming"} /\ claim'[s] = claim[s]
    BY <1>a, <1>b DEF Answer, TypeOK
  <2> QED
    BY <1>b, <2>1, FreshStays
<1>c. ASSUME /\ \A i \in issued' : Passed(i, Live(i[1])')
             /\ \A i \in issued' : i[1] = "persisted" => Passed(i, Contents(disk'))
             /\ \A t \in Thread : pc'[t] \in {"writing", "renaming"} =>
                  \A i \in claim'[t].issued : i[1] = "persisted" /\ Passed(i, persisted')
      PROVE  FreshInv'
  BY <1>c DEF FreshInv, Passed, Live, Contents
<1>d. \A i \in issued : Passed(i, Live(i[1])) /\ (i[1] = "persisted" => Passed(i, Contents(disk)))
  BY DEF FreshInv
<1> USE DEF store, threads, history, CanLock, Unlock, OpenTemporary
<1>1. ASSUME NEW t \in Thread, Receive(t) PROVE FreshInv'
  <2>1. PICK r \in RequestRecord, next \in {"seeding", "waiting"}, copy \in Coll :
          Begin(t, r, next, copy)
    BY <1>1, <1>a, ReceiveBegins
  <2>2. \A s \in Thread : pc'[s] \in {"writing", "renaming"} => pc[s] \in {"writing", "renaming"}
    BY <2>1, <1>a DEF Begin, TypeOK
  <2> QED
    BY <2>1, <2>2, FreshStays DEF Begin
<1>2. ASSUME NEW t \in Thread, SeedAdd(t) PROVE FreshInv'
  BY <1>2, FreshStays DEF SeedAdd
<1>3. ASSUME NEW t \in Thread, SeedInvalid(t) PROVE FreshInv'
  BY <1>3, <1>b DEF SeedInvalid
<1>4. ASSUME NEW t \in Thread, Acquire(t) PROVE FreshInv'
  <2>1. \A s \in Thread : pc'[s] \in {"writing", "renaming"} => pc[s] \in {"writing", "renaming"}
    BY <1>4, <1>a DEF Acquire, TypeOK
  <2> QED
    BY <1>4, <2>1, FreshStays DEF Acquire
<1>5. ASSUME NEW t \in Thread, Reject(t) PROVE FreshInv'
  BY <1>5, <1>b DEF Reject
<1>6. ASSUME NEW t \in Thread, PutMemory(t) PROVE FreshInv'
  <2>1. issued' = (issued \ Forgotten(t)) \cup Generated(t)
    BY <1>6 DEF PutMemory
  <2>2. \A i \in issued' : Passed(i, Live(i[1])')
    BY <1>6, <2>1, PutFresh DEF PutMemory, Passed, Live, LiveAfter
  <2>3. disk' = disk /\ \A s \in Thread : pc'[s] \notin {"writing", "renaming"}
    BY <1>6, <1>a DEF PutMemory, Answer, LockInv, Holding, TypeOK
  <2>4. \A i \in Generated(t) : i[1] = "memory"
    BY <1>6, <1>a DEF PutMemory, NeedsFile, Generated, TypeOK, RequestRecord, Namespace
  <2>5. \A i \in issued' : i[1] = "persisted" => Passed(i, Contents(disk'))
    BY <1>d, <2>1, <2>3, <2>4
  <2> QED
    BY <1>c, <2>2, <2>3, <2>5
<1>7. ASSUME NEW t \in Thread, PutPersisted(t) PROVE FreshInv'
  <2>1. issued' = issued \ Forgotten(t) /\ disk' = disk /\ claim' = [claim EXCEPT ![t] = NewClaim(t)]
    BY <1>7 DEF PutPersisted
  <2>2. \A i \in issued' \cup Generated(t) : Passed(i, Live(i[1])')
    BY <1>7, <2>1, PutFresh DEF PutPersisted, Passed, Live, LiveAfter
  <2>3. \A s \in Thread : pc'[s] \in {"writing", "renaming"} => s = t
    BY <1>7, <1>a DEF PutPersisted, LockInv, Holding, TypeOK
  <2>4. \A i \in Generated(t) : i[1] = "persisted"
    BY <1>7 DEF PutPersisted, NeedsFile, Generated
  <2>5. claim'[t].issued = Generated(t)
    BY <1>a, <2>1 DEF NewClaim, TypeOK
  <2>6. \A i \in Generated(t) : Passed(i, persisted')
    BY <2>2, <2>4 DEF Live
  <2>7. \A s \in Thread : pc'[s] \in {"writing", "renaming"} =>
          \A i \in claim'[s].issued : i[1] = "persisted" /\ Passed(i, persisted')
    BY <2>3, <2>4, <2>5, <2>6
  <2>8. \A i \in issued' : i[1] = "persisted" => Passed(i, Contents(disk'))
    BY <1>d, <2>1
  <2> QED
    BY <1>c, <2>2, <2>7, <2>8
<1>8. ASSUME NEW t \in Thread, FinishWrite(t) PROVE FreshInv'
  <2>1. \A s \in Thread : pc'[s] \in {"writing", "renaming"} => pc[s] \in {"writing", "renaming"}
    BY <1>8, <1>a DEF FinishWrite, TypeOK
  <2> QED
    BY <1>8, <2>1, FreshStays DEF FinishWrite
<1>9. ASSUME NEW t \in Thread, Rename(t) PROVE FreshInv'
  <2>1. /\ disk' = persisted /\ memory' = memory /\ persisted' = persisted
        /\ issued' = issued \cup claim[t].issued
    BY <1>9, <1>a DEF Rename, TmpComplete
  <2>2. Contents(disk') = persisted
    BY <2>1, <1>a, FileAssumption DEF Contents, TypeOK
  <2>3. \A i \in claim[t].issued : i[1] = "persisted" /\ Passed(i, persisted)
    BY <1>9 DEF Rename, FreshInv
  <2>4. \A i \in issued' : Passed(i, Live(i[1])')
    BY <1>d, <2>1, <2>3 DEF Live
  <2>5. \A i \in issued' : i[1] = "persisted" => Passed(i, Contents(disk'))
    BY <1>d, <2>1, <2>2, <2>3 DEF Live
  <2>6. \A s \in Thread : pc'[s] \notin {"writing", "renaming"}
    BY <1>9, <1>a DEF Rename, Answer, LockInv, Holding, TypeOK
  <2> QED
    BY <1>c, <2>4, <2>5, <2>6
<1>10. ASSUME NEW t \in Thread, FlushFails(t) PROVE FreshInv'
  BY <1>10, <1>b DEF FlushFails
<1>11. ASSUME NEW p \in Project, NEW m \in Mode, SetStateMode(p, m) PROVE FreshInv'
  BY <1>11, FreshStays DEF SetStateMode
<1>12. ASSUME Restart PROVE FreshInv'
  <2>1. /\ persisted' = Contents(disk) /\ disk' = disk
        /\ issued' = {r \in issued : r[1] = "persisted"}
    BY <1>12 DEF Restart
  <2>2. \A i \in issued' : Passed(i, Live(i[1])')
    BY <1>d, <2>1 DEF Live
  <2>3. \A i \in issued' : i[1] = "persisted" => Passed(i, Contents(disk'))
    BY <1>d, <2>1
  <2>4. \A s \in Thread : pc'[s] \notin {"writing", "renaming"}
    BY <1>12 DEF Restart
  <2> QED
    BY <1>c, <2>2, <2>3, <2>4
<1>13. CASE UNCHANGED vars
  BY <1>13, FreshStays DEF vars
<1> QED
  BY <1>1, <1>2, <1>3, <1>4, <1>5, <1>6, <1>7, <1>8, <1>9, <1>10, <1>11, <1>12, <1>13
     DEF Next, Serve

LEMMA InitFresh == Init => FreshInv
BY DEF Init, FreshInv

\* A sequential id is given to one client only, not even again after its
\* resource is deleted, a flush has failed or the process has restarted from
\* the file, in every behaviour in which no counter comes close to wrapping.
THEOREM IdsAreNeverReused == Spec /\ []CountersHaveRoom => []IdsNeverReused
<1>1. ContentsInv /\ FreshInv /\ CountersHaveRoom => IdsNeverReused
  BY FreshImplies
<1> QED
  BY <1>1, InitFresh, NextFresh, ContentsInvariant, PTL DEF Spec

-----------------------------------------------------------------------------
(***************************************************************************)
(* StateStore implements StatePromise: whatever handlers, locks, copies,   *)
(* failing writes and restarts do, a collection only ever changes by one   *)
(* whole operation on its current contents, and a restart only ever finds  *)
(* what the persisted namespace was when a file was last installed.        *)
(***************************************************************************)

\* The items a seed has built so far come from the first objects of its list.
SeedProgress ==
  \A t \in Thread : req[t].op = "seed" =>
    /\ Len(work[t].items) <= Len(req[t].list)
    /\ \A i \in 1 .. Len(work[t].items) :
         /\ work[t].items[i].data.fields = req[t].list[i].fields
         /\ req[t].list[i].id # NoId => work[t].items[i].data.id = req[t].list[i].id
    /\ pc[t] \in Holding => Len(work[t].items) = Len(req[t].list)

RefineInv == ContentsInv /\ SeedProgress

LEMMA SeedProgressStays ==
  ASSUME SeedProgress,
         \A s \in Thread : req'[s].op = "seed" =>
           req'[s] = req[s] /\ work'[s] = work[s] /\ (pc'[s] \in Holding => pc[s] \in Holding)
  PROVE  SeedProgress'
<1> SUFFICES ASSUME NEW s \in Thread, req'[s].op = "seed"
             PROVE  /\ Len(work'[s].items) <= Len(req'[s].list)
                    /\ \A i \in 1 .. Len(work'[s].items) :
                         /\ work'[s].items[i].data.fields = req'[s].list[i].fields
                         /\ req'[s].list[i].id # NoId =>
                              work'[s].items[i].data.id = req'[s].list[i].id
                    /\ pc'[s] \in Holding => Len(work'[s].items) = Len(req'[s].list)
  BY DEF SeedProgress
<1>1. req'[s] = req[s] /\ work'[s] = work[s] /\ (pc'[s] \in Holding => pc[s] \in Holding)
  OBVIOUS
<1> QED
  BY <1>1 DEF SeedProgress

LEMMA AddItemProgress ==
  ASSUME NEW c \in Coll, NEW obj \in Object
  PROVE  /\ Len(AddItem(c, obj, Unset).items) = Len(c.items) + 1
         /\ \A i \in 1 .. Len(c.items) : AddItem(c, obj, Unset).items[i] = c.items[i]
         /\ AddItem(c, obj, Unset).items[Len(c.items) + 1].data.fields = obj.fields
         /\ obj.id # NoId =>
              AddItem(c, obj, Unset).items[Len(c.items) + 1].data.id = obj.id
<1>1. c.items \in Seq(Item) /\ Len(c.items) \in Nat /\ NewItem(c, obj, Unset) \in Item
  BY NewItemType DEF Coll
<1>2. AddItem(c, obj, Unset).items = Append(c.items, NewItem(c, obj, Unset))
  BY DEF AddItem
<1>3. /\ NewItem(c, obj, Unset).data.fields = obj.fields
      /\ obj.id # NoId => NewItem(c, obj, Unset).data.id = obj.id
  BY DEF NewItem, ChosenId
<1> QED
  BY <1>1, <1>2, <1>3

LEMMA NextSeedProgress == ContentsInv /\ SeedProgress /\ [Next]_vars => SeedProgress'
<1> SUFFICES ASSUME ContentsInv, SeedProgress, [Next]_vars PROVE SeedProgress'
  OBVIOUS
<1>a. TypeOK /\ RequestOK
  BY DEF ContentsInv, Core
<1>b. NoRequest.op = "none"
  BY DEF NoRequest, NewRequest
<1>c. ASSUME NEW t \in Thread, Answer(t) PROVE SeedProgress'
  <2>1. \A s \in Thread : req'[s].op = "seed" =>
           req'[s] = req[s] /\ work'[s] = work[s] /\ pc'[s] = pc[s]
    BY <1>a, <1>b, <1>c DEF Answer, TypeOK
  <2> QED
    BY <2>1, SeedProgressStays
<1> USE DEF store, threads, history, CanLock, Unlock, NeedsFile, OpenTemporary
<1>1. ASSUME NEW t \in Thread, Receive(t) PROVE SeedProgress'
  <2>1. PICK r \in RequestRecord, next \in {"seeding", "waiting"}, copy \in Coll :
           /\ Begin(t, r, next, copy)
           /\ r.op = "seed" => copy = [items |-> <<>>, nextId |-> 1]
    BY <1>1, <1>a, ReceiveBegins
  <2>2. req'[t] = r /\ work'[t] = copy /\ pc'[t] = next /\ Len(r.list) \in Nat
    BY <1>a, <2>1 DEF Begin, TypeOK, RequestRecord
  <2>3. \A s \in Thread \ {t} : req'[s] = req[s] /\ work'[s] = work[s] /\ pc'[s] = pc[s]
    BY <1>a, <2>1 DEF Begin, TypeOK
  <2>4. r.op = "seed" => Len(copy.items) = 0 /\ next \notin Holding
    BY <2>1 DEF Holding
  <2>5. SUFFICES ASSUME NEW s \in Thread, req'[s].op = "seed"
                 PROVE  /\ Len(work'[s].items) <= Len(req'[s].list)
                        /\ \A i \in 1 .. Len(work'[s].items) :
                             /\ work'[s].items[i].data.fields = req'[s].list[i].fields
                             /\ req'[s].list[i].id # NoId =>
                                  work'[s].items[i].data.id = req'[s].list[i].id
                        /\ pc'[s] \in Holding => Len(work'[s].items) = Len(req'[s].list)
    BY DEF SeedProgress
  <2>6. CASE s = t
    BY <2>2, <2>4, <2>5, <2>6
  <2>7. CASE s # t
    <3>1. req'[s] = req[s] /\ work'[s] = work[s] /\ pc'[s] = pc[s]
      BY <2>3, <2>7
    <3>2. req[s].op = "seed"
      BY <2>5, <3>1
    <3> QED
      BY <3>1, <3>2 DEF SeedProgress
  <2> QED
    BY <2>6, <2>7
<1>2. ASSUME NEW t \in Thread, SeedAdd(t) PROVE SeedProgress'
  <2>1. req[t].op = "seed" /\ work[t] \in Coll /\ req[t].list \in Seq(Object)
    BY <1>2, <1>a DEF SeedAdd, RequestOK, TypeOK, RequestRecord
  <2> DEFINE n == Len(work[t].items)
             new == AddItem(work[t], NextObject(t), Unset)
  <2>2. n \in Nat /\ n + 1 \in 1 .. Len(req[t].list) /\ Len(req[t].list) \in Nat
    BY <1>2, <2>1 DEF SeedAdd, SeedBuilt, Coll
  <2>3. NextObject(t) \in Object /\ NextObject(t) = req[t].list[n + 1]
    <3>1. req[t].list[n + 1] \in Object
      <4> HIDE DEF n
      <4> QED
        BY <2>1, <2>2
    <3>2. NextObject(t) = req[t].list[n + 1]
      BY DEF NextObject
    <3> QED
      BY <3>1, <3>2
  <2>4. /\ Len(new.items) = n + 1
        /\ \A i \in 1 .. n : new.items[i] = work[t].items[i]
        /\ new.items[n + 1].data.fields = req[t].list[n + 1].fields
        /\ req[t].list[n + 1].id # NoId => new.items[n + 1].data.id = req[t].list[n + 1].id
    <3>1. /\ Len(new.items) = n + 1
          /\ \A i \in 1 .. n : new.items[i] = work[t].items[i]
          /\ new.items[n + 1].data.fields = NextObject(t).fields
          /\ NextObject(t).id # NoId => new.items[n + 1].data.id = NextObject(t).id
      <4> HIDE DEF NextObject
      <4> QED
        BY <2>1, <2>3, AddItemProgress
    <3> HIDE DEF new, n
    <3> QED
      BY <2>3, <3>1
  <2>5. req' = req /\ pc' = pc /\ pc[t] \notin Holding /\ work' = [work EXCEPT ![t] = new]
    <3>1. req' = req /\ pc' = pc /\ pc[t] \notin Holding
      BY <1>2 DEF SeedAdd, Holding
    <3>2. work' = [work EXCEPT ![t] = new]
      BY <1>2, Zenon DEF SeedAdd
    <3> QED
      BY <3>1, <3>2
  <2>6. work'[t] = new /\ \A s \in Thread \ {t} : work'[s] = work[s]
    BY <1>a, <2>5 DEF TypeOK
  <2> HIDE DEF new, n
  <2>7. ASSUME NEW i \in 1 .. Len(new.items)
        PROVE  /\ new.items[i].data.fields = req[t].list[i].fields
               /\ req[t].list[i].id # NoId => new.items[i].data.id = req[t].list[i].id
    <3>1. i \in 1 .. n \/ i = n + 1
      BY <2>2, <2>4
    <3>2. CASE i \in 1 .. n
      <4>1. /\ work[t].items[i].data.fields = req[t].list[i].fields
            /\ req[t].list[i].id # NoId => work[t].items[i].data.id = req[t].list[i].id
        BY <2>1, <3>2 DEF SeedProgress, n
      <4> QED
        BY <2>4, <3>2, <4>1
    <3> QED
      BY <2>4, <3>1, <3>2
  <2>8. Len(new.items) <= Len(req[t].list)
    BY <2>2, <2>4
  <2> QED
    BY <2>5, <2>6, <2>7, <2>8 DEF SeedProgress
<1>3. ASSUME NEW t \in Thread, SeedInvalid(t) PROVE SeedProgress'
  BY <1>3, <1>c DEF SeedInvalid
<1>4. ASSUME NEW t \in Thread, Acquire(t) PROVE SeedProgress'
  <2>1. req' = req /\ \A s \in Thread : req[s].op = "seed" => work'[s] = work[s]
    BY <1>4, <1>a DEF Acquire, TypeOK, Crud
  <2>2. \A s \in Thread : s # t => pc'[s] = pc[s]
    BY <1>4, <1>a DEF Acquire, TypeOK
  <2>3. req[t].op = "seed" => Len(work[t].items) = Len(req[t].list)
    <3>1. SUFFICES ASSUME req[t].op = "seed" PROVE Len(work[t].items) = Len(req[t].list)
      OBVIOUS
    <3>2. SeedBuilt(t)
      BY <1>4, <1>a, <3>1 DEF Acquire, RequestOK, Crud
    <3>3. work[t] \in Coll /\ req[t].list \in Seq(Object)
      BY <1>a DEF TypeOK, RequestRecord
    <3>4. Len(work[t].items) \in Nat /\ Len(req[t].list) \in Nat
      BY <3>3 DEF Coll
    <3> QED
      BY <3>1, <3>2, <3>4 DEF SeedBuilt, SeedProgress
  <2> QED
    BY <2>1, <2>2, <2>3 DEF SeedProgress
<1>5. ASSUME NEW t \in Thread, Reject(t) PROVE SeedProgress'
  BY <1>5, <1>c DEF Reject
<1>6. ASSUME NEW t \in Thread, PutMemory(t) PROVE SeedProgress'
  BY <1>6, <1>c DEF PutMemory
<1>7. ASSUME NEW t \in Thread, PutPersisted(t) PROVE SeedProgress'
  BY <1>7, <1>a, SeedProgressStays DEF PutPersisted, TypeOK, Holding
<1>8. ASSUME NEW t \in Thread, FinishWrite(t) PROVE SeedProgress'
  BY <1>8, <1>a, SeedProgressStays DEF FinishWrite, TypeOK, Holding
<1>9. ASSUME NEW t \in Thread, Rename(t) PROVE SeedProgress'
  BY <1>9, <1>c DEF Rename
<1>10. ASSUME NEW t \in Thread, FlushFails(t) PROVE SeedProgress'
  BY <1>10, <1>c DEF FlushFails
<1>11. ASSUME NEW p \in Project, NEW m \in Mode, SetStateMode(p, m) PROVE SeedProgress'
  BY <1>11, SeedProgressStays DEF SetStateMode
<1>12. ASSUME Restart PROVE SeedProgress'
  BY <1>12, <1>b DEF Restart, SeedProgress
<1>13. CASE UNCHANGED vars
  BY <1>13, SeedProgressStays DEF vars
<1> QED
  BY <1>1, <1>2, <1>3, <1>4, <1>5, <1>6, <1>7, <1>8, <1>9, <1>10, <1>11, <1>12, <1>13
     DEF Next, Serve

-----------------------------------------------------------------------------

(***************************************************************************)
(* StatePromise has StateItems' operators under its own names; they are    *)
(* the same operators, the constants being the same.                       *)
(***************************************************************************)

LEMMA SameIds ==
  ASSUME NEW c, NEW obj, NEW uuid
  PROVE  Promise!ChosenId(c, obj, uuid) = ChosenId(c, obj, uuid)
<1>1. Promise!FirstId(c) = FirstId(c) /\ Promise!NoId = NoId /\ Promise!MinInt = MinInt
  BY DEF FirstId, Promise!FirstId, NoId, Promise!NoId, MinInt, Promise!MinInt
<1>2. \A n : Promise!Increment(n) = Increment(n)
  BY <1>1 DEF Increment, Promise!Increment
<1>3. \A n, id : Promise!BumpNextId(n, id) = BumpNextId(n, id)
  BY <1>2 DEF BumpNextId, Promise!BumpNextId
<1>4. \A key : Promise!Has(c, key) <=> Has(c, key)
  BY DEF Has, Promise!Has, Keys, Promise!Keys
<1>5. \A S : Promise!Least(S) = Least(S)
  BY DEF Least, Promise!Least
<1>6. \A n : Promise!FreeId(c, n) = FreeId(c, n)
  BY <1>1, <1>4, <1>5 DEF FreeId, Promise!FreeId
<1> QED
  BY <1>1, <1>2, <1>3, <1>6 DEF ChosenId, Promise!ChosenId

LEMMA SameOperators ==
  ASSUME NEW c, NEW obj, NEW uuid, NEW key, NEW merge
  PROVE  /\ Promise!Conflicts(c, obj, uuid) <=> Conflicts(c, obj, uuid)
         /\ Promise!AddItem(c, obj, uuid) = AddItem(c, obj, uuid)
         /\ Promise!UpdateItem(c, key, obj, merge) = UpdateItem(c, key, obj, merge)
         /\ Promise!RemoveItem(c, key) = RemoveItem(c, key)
         /\ Promise!Keys(c) = Keys(c)
         /\ Promise!DistinctKeys(c) <=> DistinctKeys(c)
<1>1. Promise!IndexOf(c, key) = IndexOf(c, key)
  BY DEF IndexOf, Promise!IndexOf
<1>2. \A old : Promise!BuildUpdate(old, obj, merge) = BuildUpdate(old, obj, merge)
  BY DEF BuildUpdate, Promise!BuildUpdate
<1>3. Promise!NewItem(c, obj, uuid) = NewItem(c, obj, uuid)
  BY SameIds DEF NewItem, Promise!NewItem
<1>4. Promise!Conflicts(c, obj, uuid) <=> Conflicts(c, obj, uuid)
  BY SameIds DEF Conflicts, Promise!Conflicts, Has, Promise!Has, Keys, Promise!Keys
<1>5. Promise!AddItem(c, obj, uuid) = AddItem(c, obj, uuid)
  BY <1>3, SameIds DEF AddItem, Promise!AddItem
<1>6. Promise!UpdateItem(c, key, obj, merge) = UpdateItem(c, key, obj, merge)
  BY <1>1, <1>2 DEF UpdateItem, Promise!UpdateItem
<1>7. Promise!RemoveItem(c, key) = RemoveItem(c, key)
  BY <1>1 DEF RemoveItem, Promise!RemoveItem
<1> QED
  BY <1>4, <1>5, <1>6, <1>7 DEF Keys, Promise!Keys, DistinctKeys, Promise!DistinctKeys

LEMMA SameEmpty ==
  /\ Promise!NoCollection = NoCollection
  /\ Promise!Empty = Empty
  /\ Promise!NoId = NoId
BY DEF NoCollection, Promise!NoCollection, Empty, Promise!Empty, NoId, Promise!NoId

\* The change a handler puts is one operation of the promise, applied to the
\* collection as it is in the store.
LEMMA PutIsOperation ==
  ASSUME NEW t \in Thread, RefineInv, pc[t] = "working", ~Rejected(t), req[t].op # "reset"
  PROVE  Promise!Operation(TheCollection(t),
           Live(req[t].ns)[req[t].project][TheCollection(t)], Changed(t))
<1> DEFINE r == req[t]
           old == Live(req[t].ns)[req[t].project][TheCollection(t)]
<1>1. /\ r.op \in {"create", "put", "patch", "delete", "seed"}
      /\ work[t] \in Coll /\ r.list \in Seq(Object) /\ RequestOK
  BY DEF RefineInv, ContentsInv, Core, TypeOK, RequestRecord, RequestOK
<1>2. CASE r.op = "create"
  <2>1. work[t] = old
    BY <1>2 DEF RefineInv, ContentsInv, CopyIsCurrent, Crud
  <2>2. r.obj \in Body /\ r.uuid \in (IF TheCollection(t) \in StringIds THEN Texts ELSE {Unset})
    BY <1>1, <1>2 DEF RequestOK
  <2>3. ~Conflicts(old, r.obj, r.uuid) /\ Changed(t) = AddItem(old, r.obj, r.uuid)
    BY <1>2, <2>1 DEF Rejected, Changed
  <2> QED
    BY <2>2, <2>3, SameOperators DEF Promise!Operation, Promise!Created
<1>3. CASE r.op \in {"put", "patch"}
  <2>1. work[t] = old
    BY <1>3 DEF RefineInv, ContentsInv, CopyIsCurrent, Crud
  <2>2. r.obj \in Body /\ r.key \in AddressedKey \cap Keys(old)
    BY <1>1, <1>3, <2>1 DEF RequestOK, Rejected, Has
  <2>3. \E merge \in BOOLEAN : Changed(t) = UpdateItem(old, r.key, r.obj, merge)
    <3>1. Changed(t) = UpdateItem(old, r.key, r.obj, TRUE)
          \/ Changed(t) = UpdateItem(old, r.key, r.obj, FALSE)
      BY <1>3, <2>1 DEF Changed
    <3> QED
      BY <3>1
  <2>4. PICK merge \in BOOLEAN : Changed(t) = UpdateItem(old, r.key, r.obj, merge)
    BY <2>3
  <2>5. Changed(t) = Promise!UpdateItem(old, r.key, r.obj, merge)
        /\ r.key \in AddressedKey \cap Promise!Keys(old)
    BY <2>2, <2>4, SameOperators
  <2>6. Promise!Updated(old, Changed(t))
    BY <2>2, <2>5 DEF Promise!Updated
  <2> QED
    BY <2>6 DEF Promise!Operation
<1>4. CASE r.op = "delete"
  <2>1. work[t] = old
    BY <1>4 DEF RefineInv, ContentsInv, CopyIsCurrent, Crud
  <2>2. r.key \in AddressedKey \cap Keys(old)
    BY <1>1, <1>4, <2>1 DEF RequestOK, Rejected, Has
  <2>3. Changed(t) = RemoveItem(old, r.key)
    BY <1>4, <2>1 DEF Changed
  <2> QED
    BY <2>2, <2>3, SameOperators DEF Promise!Operation, Promise!Deleted
<1>5. CASE r.op = "seed"
  <2>1. Changed(t) = work[t] /\ DistinctKeys(work[t]) /\ r.list \in SeedList
    BY <1>1, <1>5 DEF Changed, RefineInv, ContentsInv, Sound, RequestOK
  <2>2. /\ Len(work[t].items) = Len(r.list)
        /\ \A i \in 1 .. Len(work[t].items) :
             /\ work[t].items[i].data.fields = r.list[i].fields
             /\ r.list[i].id # NoId => work[t].items[i].data.id = r.list[i].id
    BY <1>5 DEF RefineInv, SeedProgress, Holding
  <2>3. DOMAIN work[t].items = 1 .. Len(work[t].items) /\ DOMAIN r.list = 1 .. Len(r.list)
    BY <1>1 DEF Coll
  <2>4. Promise!SeededFrom(r.list, work[t])
    BY <2>1, <2>2, <2>3, SameOperators, SameEmpty DEF Promise!SeededFrom
  <2> QED
    BY <2>1, <2>4 DEF Promise!Operation, Promise!Seeded
<1> QED
  BY <1>1, <1>2, <1>3, <1>4, <1>5

LEMMA InitRefines == Init => Promise!Init
BY SameEmpty DEF Init, Promise!Init, Contents

LEMMA PutMemoryRefines ==
  ASSUME NEW t \in Thread, RefineInv, PutMemory(t)
  PROVE  Promise!ChangeMemory
<1>1. req[t].project \in Project /\ TheCollection(t) \in Collection /\ memory \in Collections
  <2>1. req[t].op \in Crud \cup {"seed"}
    BY DEF PutMemory, NeedsFile, RefineInv, ContentsInv, Core, TypeOK, RequestRecord, RequestOK, Crud
  <2> QED
    BY <2>1, TheCollectionType DEF RefineInv, ContentsInv, Core, TypeOK, RequestRecord
<1>2. memory' = [memory EXCEPT ![req[t].project][TheCollection(t)] = Changed(t)]
      /\ persisted' = persisted /\ disk' = disk /\ req[t].ns = "memory"
  <2>1. req[t].op # "reset" /\ req[t].ns = "memory"
    BY DEF PutMemory, NeedsFile, RefineInv, ContentsInv, Core, TypeOK, RequestRecord, Namespace
  <2> QED
    BY <2>1 DEF PutMemory, Put
<1>3. memory'[req[t].project][TheCollection(t)] = Changed(t)
  BY <1>1, <1>2 DEF Collections
<1>4. Promise!Operation(TheCollection(t), memory[req[t].project][TheCollection(t)], Changed(t))
  BY <1>2, PutIsOperation DEF PutMemory, NeedsFile, Live
<1>5. Promise!Changes(memory, memory')
  BY <1>1, <1>2, <1>3, <1>4 DEF Promise!Changes
<1> QED
  BY <1>2, <1>5 DEF Promise!ChangeMemory, Contents

LEMMA PutPersistedRefines ==
  ASSUME NEW t \in Thread, RefineInv, PutPersisted(t)
  PROVE  Promise!ChangePersisted \/ Promise!Reset
<1>1. /\ req[t].project \in Project /\ persisted \in Collections /\ memory \in Collections
      /\ req[t].op \in Crud \cup {"seed", "reset"}
  BY DEF PutPersisted, RefineInv, ContentsInv, Core, TypeOK, RequestRecord, RequestOK, Crud
<1>2. CASE req[t].op = "reset"
  <2>1. req[t].cols \in {{c} : c \in Collection} \cup {Collection}
    BY <1>2 DEF RefineInv, ContentsInv, Core, RequestOK
  <2>2. /\ memory' = Promise!Wipe(memory, req[t].project, req[t].cols)
        /\ persisted' = Promise!Wipe(persisted, req[t].project, req[t].cols)
    BY <1>2, SameEmpty DEF PutPersisted, Put, Promise!Wipe
  <2> QED
    BY <1>1, <2>1, <2>2 DEF Promise!Reset, PutPersisted, OpenTemporary, Contents
<1>3. CASE req[t].op # "reset"
  <2>1. TheCollection(t) \in Collection
    BY <1>1, <1>3, TheCollectionType DEF RefineInv, ContentsInv, Core
  <2>2. persisted' = [persisted EXCEPT ![req[t].project][TheCollection(t)] = Changed(t)]
        /\ memory' = memory /\ disk' = disk /\ req[t].ns = "persisted"
    BY <1>3 DEF PutPersisted, Put, NeedsFile, OpenTemporary
  <2>3. persisted'[req[t].project][TheCollection(t)] = Changed(t)
    BY <1>1, <2>1, <2>2 DEF Collections
  <2>4. Promise!Operation(TheCollection(t), persisted[req[t].project][TheCollection(t)], Changed(t))
    BY <1>3, <2>2, PutIsOperation DEF PutPersisted, Live
  <2>5. Promise!Changes(persisted, persisted')
    BY <1>1, <2>1, <2>2, <2>3, <2>4 DEF Promise!Changes
  <2> QED
    BY <2>2, <2>5 DEF Promise!ChangePersisted, Contents
<1> QED
  BY <1>2, <1>3

LEMMA RenameRefines ==
  ASSUME NEW t \in Thread, RefineInv, Rename(t)
  PROVE  Promise!Save
<1>1. disk' = persisted /\ persisted \in Collections /\ memory' = memory /\ persisted' = persisted
  BY DEF RefineInv, ContentsInv, Core, Rename, TmpComplete, TypeOK
<1>2. Contents(disk)' = persisted
  BY <1>1, FileAssumption DEF Contents
<1> QED
  BY <1>1, <1>2 DEF Promise!Save

LEMMA NextRefines == RefineInv /\ [Next]_vars => [Promise!Next]_(Promise!vars)
<1> SUFFICES ASSUME RefineInv, [Next]_vars PROVE [Promise!Next]_(Promise!vars)
  OBVIOUS
<1>a. TypeOK /\ RequestOK
  BY DEF RefineInv, ContentsInv, Core
<1>b. ASSUME UNCHANGED <<memory, persisted, disk>> PROVE UNCHANGED Promise!vars
  BY <1>b DEF Promise!vars, Contents
<1> USE DEF store, threads, history, CanLock, Unlock, NeedsFile, OpenTemporary
<1>1. ASSUME NEW t \in Thread, Receive(t) PROVE UNCHANGED Promise!vars
  <2>1. PICK r \in RequestRecord, next \in {"seeding", "waiting"}, copy \in Coll :
          Begin(t, r, next, copy)
    BY <1>1, <1>a, ReceiveBegins
  <2> QED
    BY <2>1, <1>b DEF Begin
<1>2. ASSUME NEW t \in Thread, SeedAdd(t) \/ SeedInvalid(t) \/ Acquire(t) \/ Reject(t)
      PROVE  UNCHANGED Promise!vars
  BY <1>2, <1>b DEF SeedAdd, SeedInvalid, Acquire, Reject
<1>3. ASSUME NEW t \in Thread, FinishWrite(t) \/ FlushFails(t) PROVE UNCHANGED Promise!vars
  BY <1>3, <1>b DEF FinishWrite, FlushFails
<1>4. ASSUME NEW p \in Project, NEW m \in Mode, SetStateMode(p, m)
      PROVE  UNCHANGED Promise!vars
  BY <1>4, <1>b DEF SetStateMode
<1>5. ASSUME Restart PROVE Promise!Restart
  BY <1>5, SameEmpty DEF Restart, Promise!Restart, Contents
<1>6. CASE UNCHANGED vars
  BY <1>6, <1>b DEF vars
<1>7. CASE \E t \in Thread : PutMemory(t) \/ PutPersisted(t) \/ Rename(t)
  BY <1>7, PutMemoryRefines, PutPersistedRefines, RenameRefines DEF Promise!Next
<1> QED
  BY <1>1, <1>2, <1>3, <1>4, <1>5, <1>6, <1>7 DEF Next, Serve, Promise!Next

\* The state store implements what its port promises: no update is lost, the
\* two namespaces never mix, and a restart finds a state the persisted
\* namespace was really in.
THEOREM Refinement == Spec => ImplementsPromise
<1>1. Init => RefineInv
  <2> SUFFICES ASSUME Init PROVE RefineInv
    OBVIOUS
  <2>1. NoRequest.op = "none"
    BY DEF NoRequest, NewRequest
  <2>2. SeedProgress
    BY <2>1 DEF Init, SeedProgress
  <2> QED
    BY <2>2, InitContents DEF RefineInv
<1>2. RefineInv /\ [Next]_vars => RefineInv'
  BY NextContents, NextSeedProgress DEF RefineInv
<1> QED
  BY <1>1, <1>2, InitRefines, NextRefines, PTL DEF Spec, ImplementsPromise, Promise!Spec
=============================================================================
