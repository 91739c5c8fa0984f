---------------------------- MODULE StatePromise ----------------------------
(***************************************************************************)
(* What the port usecase.StateStore promises its callers: every change of  *)
(* a collection is one whole operation applied to the collection's current *)
(* contents, in one of two namespaces that never mix, and what survives a  *)
(* restart is a state the persisted namespace was really in.               *)
(*                                                                         *)
(* There are no threads, locks, copies or temporary files here.            *)
(***************************************************************************)
EXTENDS StateItems

CONSTANTS Project, Collection, Body, SeedList, StringIds, AddressedKey

VARIABLES
  memory,     \* the collections of the memory namespace
  persisted,  \* the collections of the persisted namespace
  saved       \* what a restart would load

vars == <<memory, persisted, saved>>

Empty == [p \in Project |-> [c \in Collection |-> NoCollection]]

Init == memory = Empty /\ persisted = Empty /\ saved = Empty

\* new holds one resource per object of the list, in order, under its own id
\* where it has one.
SeededFrom(list, new) ==
  /\ DOMAIN new.items = DOMAIN list
  /\ DistinctKeys(new)
  /\ \A i \in DOMAIN list :
       /\ new.items[i].data.fields = list[i].fields
       /\ list[i].id # NoId => new.items[i].data.id = list[i].id

\* One operation on one collection.  The objects, keys and seeds are those
\* of the requests.
Created(name, old, new) ==
  \E obj \in Body, uuid \in (IF name \in StringIds THEN Texts ELSE {Unset}) :
    ~Conflicts(old, obj, uuid) /\ new = AddItem(old, obj, uuid)

Updated(old, new) ==
  \E obj \in Body, key \in AddressedKey \cap Keys(old), merge \in BOOLEAN :
    new = UpdateItem(old, key, obj, merge)

Deleted(old, new) ==
  \E key \in AddressedKey \cap Keys(old) : new = RemoveItem(old, key)

Seeded(new) == \E list \in SeedList : SeededFrom(list, new)

Operation(name, old, new) ==
  Created(name, old, new) \/ Updated(old, new) \/ Deleted(old, new) \/ Seeded(new)

\* Exactly one collection of the namespace changes, by one operation.
Changes(before, after) ==
  \E p \in Project, c \in Collection :
    /\ after = [before EXCEPT ![p][c] = after[p][c]]
    /\ Operation(c, before[p][c], after[p][c])

Wipe(before, p, cols) ==
  [before EXCEPT ![p] = [c \in Collection |-> IF c \in cols THEN NoCollection ELSE @[c]]]

ChangeMemory == Changes(memory, memory') /\ UNCHANGED <<persisted, saved>>

ChangePersisted == Changes(persisted, persisted') /\ UNCHANGED <<memory, saved>>

Reset ==
  \E p \in Project, cols \in {{c} : c \in Collection} \cup {Collection} :
    /\ memory' = Wipe(memory, p, cols)
    /\ persisted' = Wipe(persisted, p, cols)
    /\ UNCHANGED saved

Save == saved' = persisted /\ UNCHANGED <<memory, persisted>>

Restart == memory' = Empty /\ persisted' = saved /\ UNCHANGED saved

Next == ChangeMemory \/ ChangePersisted \/ Reset \/ Save \/ Restart

Spec == Init /\ [][Next]_vars

=============================================================================
