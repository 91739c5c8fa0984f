----------------------------- MODULE StateStore -----------------------------
(***************************************************************************)
(* The state of stateful mocks: the use case that changes collections      *)
(* (internal/usecase/state_service.go) over the store that keeps them      *)
(* (internal/adapter/repository/statestore/store.go).                      *)
(*                                                                         *)
(* Each thread is an HTTP handler goroutine serving one request at a time. *)
(* A request reads the project's mode, may build a collection of its own   *)
(* (a seed), takes the store's lock, works on a copy, puts the copy back   *)
(* and, for the persisted namespace, writes state.json.tmp and renames it  *)
(* over state.json, all before it gives up the lock.  Any write or rename  *)
(* may fail, and the process may be killed and started again at any point. *)
(*                                                                         *)
(* The last three variables are history variables: what clients were told. *)
(***************************************************************************)
EXTENDS StateItems, FiniteSets

CONSTANTS
  Project, Collection, Thread,
  Body,          \* the JSON objects clients send
  SeedList,      \* the arrays of JSON objects clients seed with
  StringIds,     \* collections whose contract declares a string id
  AddressedKey,  \* the ids that PUT, PATCH and DELETE requests name
  MaxRequests,   \* bound: requests begun in a behaviour
  NoThread, NoFile, Torn

ASSUME BodyAssumption == Body \subseteq Object
ASSUME SeedAssumption == SeedList \subseteq Seq(Object)
ASSUME CollectionAssumption == StringIds \subseteq Collection
ASSUME AddressedAssumption == AddressedKey \subseteq Key
ASSUME ProjectAssumption == Project # {}
ASSUME NoThreadAssumption == NoThread \notin Thread

VARIABLES
  mode,       \* mode[p]: the project's state mode
  memory,     \* Store.memory
  persisted,  \* Store.persisted
  disk,       \* state.json
  tmp,        \* state.json.tmp
  lock,       \* Store.mu: the thread that holds it
  pc, req, work,   \* per thread: where it is, its request, its copy
  begun,      \* requests begun so far
  claim,      \* claim[t]: what t will have told its client if it succeeds
  known,      \* resources clients were told exist, and nobody removed since
  gone,       \* resources clients were told are removed, and nobody re-made
  issued      \* sequential ids clients were given, since the last reset

store == <<memory, persisted, disk, tmp, lock>>
threads == <<pc, req, work, claim>>
history == <<known, gone, issued>>
vars == <<mode, store, threads, begun, history>>

Namespace == {"memory", "persisted"}
Mode == Namespace \cup {"off"}

Collections == [Project -> [Collection -> Coll]]
Empty == [p \in Project |-> [c \in Collection |-> NoCollection]]

ASSUME FileAssumption ==
  NoFile \notin Collections /\ Torn \notin Collections /\ NoFile # Torn

RequestRecord ==
  [op : {"none", "create", "put", "patch", "delete", "seed", "reset"},
   project : Project, ns : Namespace, cols : SUBSET Collection,
   key : Key \cup {Unset}, obj : Object, uuid : Texts \cup {Unset},
   list : Seq(Object)]

Crud == {"create", "put", "patch", "delete"}

NoObject == [id |-> NoId, fields |-> [f \in Field |-> Unset]]

\* Everything a namespace holds, as resources <<namespace, project, collection, key>>.
Resources(ns, cols) ==
  UNION {{<<ns, p, c, k>> : k \in Keys(cols[p][c])} : p \in Project, c \in Collection}

NewRequest(op, p, ns, cols) ==
  [op |-> op, project |-> p, ns |-> ns, cols |-> cols, key |-> Unset,
   obj |-> NoObject, uuid |-> Unset, list |-> <<>>]

NoRequest == NewRequest("none", CHOOSE p \in Project : TRUE, "memory", {})

Resource == Namespace \X Project \X Collection \X Key

NoClaim == [made |-> {}, removed |-> {}, issued |-> {}]

\* The handler answers its client and forgets the request.
Answer(t) ==
  /\ pc' = [pc EXCEPT ![t] = "idle"]
  /\ req' = [req EXCEPT ![t] = NoRequest]
  /\ work' = [work EXCEPT ![t] = NoCollection]
  /\ claim' = [claim EXCEPT ![t] = NoClaim]

Contents(file) == IF file = NoFile THEN Empty ELSE file

-----------------------------------------------------------------------------
(***************************************************************************)
(* The start of a request, before it takes the lock.  The project's mode   *)
(* is read here and used for the rest of the request.                      *)
(***************************************************************************)

Begin(t, r, next, copy) ==
  /\ pc[t] = "idle"
  /\ begun < MaxRequests
  /\ begun' = begun + 1
  /\ pc' = [pc EXCEPT ![t] = next]
  /\ req' = [req EXCEPT ![t] = r]
  /\ work' = [work EXCEPT ![t] = copy]
  /\ UNCHANGED <<mode, store, claim, history>>

\* POST on a collection
Create(t) ==
  \E p \in Project, c \in Collection, obj \in Body :
    \E uuid \in (IF c \in StringIds THEN Texts ELSE {Unset}) :
      /\ mode[p] # "off"
      /\ Begin(t, [NewRequest("create", p, mode[p], {c})
                     EXCEPT !.obj = obj, !.uuid = uuid], "waiting", NoCollection)

\* PUT or PATCH on an item
Update(t) ==
  \E p \in Project, c \in Collection, obj \in Body, key \in AddressedKey,
     op \in {"put", "patch"} :
    /\ mode[p] # "off"
    /\ Begin(t, [NewRequest(op, p, mode[p], {c})
                   EXCEPT !.key = key, !.obj = obj], "waiting", NoCollection)

\* DELETE on an item
Delete(t) ==
  \E p \in Project, c \in Collection, key \in AddressedKey :
    /\ mode[p] # "off"
    /\ Begin(t, [NewRequest("delete", p, mode[p], {c}) EXCEPT !.key = key],
             "waiting", NoCollection)

\* PUT on the administration API: replace a collection
Seed(t) ==
  \E p \in Project, c \in Collection, list \in SeedList :
    /\ mode[p] # "off"
    /\ Begin(t, [NewRequest("seed", p, mode[p], {c}) EXCEPT !.list = list],
             "seeding", [items |-> <<>>, nextId |-> 1])

\* DELETE on the administration API: one collection or all, in any mode
Reset(t) ==
  \E p \in Project, cols \in {{c} : c \in Collection} \cup {Collection} :
    Begin(t, NewRequest("reset", p, "persisted", cols), "waiting", NoCollection)

-----------------------------------------------------------------------------
(***************************************************************************)
(* Seed's loop: one object of the array at a time, without the lock.       *)
(***************************************************************************)

NextObject(t) == req[t].list[Len(work[t].items) + 1]
SeedBuilt(t) == Len(work[t].items) >= Len(req[t].list)

SeedAdd(t) ==
  /\ pc[t] = "seeding"
  /\ ~SeedBuilt(t)
  /\ ~Conflicts(work[t], NextObject(t), Unset)
  /\ work' = [work EXCEPT ![t] = AddItem(@, NextObject(t), Unset)]
  /\ UNCHANGED <<mode, store, pc, req, claim, begun, history>>

\* ErrSeedInvalid: nothing reaches the store
SeedInvalid(t) ==
  /\ pc[t] = "seeding"
  /\ ~SeedBuilt(t)
  /\ Conflicts(work[t], NextObject(t), Unset)
  /\ Answer(t)
  /\ UNCHANGED <<mode, store, begun, history>>

-----------------------------------------------------------------------------
(***************************************************************************)
(* Transact, Replace and Reset: the part under the lock.                   *)
(***************************************************************************)

TheCollection(t) == CHOOSE c \in Collection : req[t].cols = {c}

LiveMemory(ns) == memory
Live(ns) == IF ns = "memory" THEN memory ELSE persisted

CanLock(t) == lock = NoThread

UnlockNever(t) == UNCHANGED lock
Unlock(t) == lock' = NoThread

\* Lock, then clone the collection (or the caller's, for Replace).
Acquire(t) ==
  /\ \/ pc[t] = "waiting"
     \/ pc[t] = "seeding" /\ SeedBuilt(t)
  /\ CanLock(t)
  /\ lock' = t
  /\ pc' = [pc EXCEPT ![t] = "working"]
  /\ work' = [work EXCEPT ![t] =
                IF req[t].op \in Crud
                THEN Live(req[t].ns)[req[t].project][TheCollection(t)] ELSE @]
  /\ UNCHANGED <<mode, memory, persisted, disk, tmp, req, claim, begun, history>>

\* fn returns an error: errStateNotFound or errStateConflict.
Rejected(t) ==
  LET r == req[t] IN
  \/ r.op = "create" /\ Conflicts(work[t], r.obj, r.uuid)
  \/ r.op \in {"put", "patch", "delete"} /\ ~Has(work[t], r.key)

\* The copy after fn.
Changed(t) ==
  LET r == req[t] IN
  CASE r.op = "create" -> AddItem(work[t], r.obj, r.uuid)
    [] r.op = "put"    -> UpdateItem(work[t], r.key, r.obj, FALSE)
    [] r.op = "patch"  -> UpdateItem(work[t], r.key, r.obj, TRUE)
    [] r.op = "delete" -> RemoveItem(work[t], r.key)
    [] OTHER           -> work[t]

\* A rejected transaction leaves the store as it was.
Reject(t) ==
  /\ pc[t] = "working"
  /\ Rejected(t)
  /\ Unlock(t)
  /\ Answer(t)
  /\ UNCHANGED <<mode, memory, persisted, disk, tmp, begun, history>>

\* put, or the deletions of Reset
Put(t) ==
  LET r == req[t]
      Replaced(cols) == [cols EXCEPT ![r.project][TheCollection(t)] = Changed(t)]
      Wiped(cols) == [cols EXCEPT ![r.project] =
                        [c \in Collection |-> IF c \in r.cols THEN NoCollection ELSE @[c]]]
  IN IF r.op = "reset"
     THEN memory' = Wiped(memory) /\ persisted' = Wiped(persisted)
     ELSE IF r.ns = "memory"
          THEN memory' = Replaced(memory) /\ UNCHANGED persisted
          ELSE persisted' = Replaced(persisted) /\ UNCHANGED memory

\* The sequential id fn generated, if it did.
Generated(t) ==
  LET r == req[t] IN
  IF r.op = "create" /\ r.obj.id = NoId /\ r.uuid = Unset
  THEN {<<r.ns, r.project, TheCollection(t), ChosenId(work[t], r.obj, Unset).id.key>>}
  ELSE {}

\* Ids a reset or a seed forgets: numbering starts again.
Forgotten(t) ==
  LET r == req[t] IN
  {i \in issued : /\ r.op = "reset" \/ (r.op = "seed" /\ i[1] = r.ns)
                  /\ i[2] = r.project
                  /\ i[3] \in r.cols}

NewClaim(t) ==
  LET before == Resources("memory", memory) \cup Resources("persisted", persisted)
      after == Resources("memory", memory') \cup Resources("persisted", persisted')
  IN [made |-> after \ before, removed |-> before \ after, issued |-> Generated(t)]

\* flush writes the file for the persisted mode, and for every reset.
NeedsFileForReset(t) == req[t].op = "reset"
NeedsFileForMode(t) == req[t].op # "reset" /\ req[t].ns = "persisted"
NeedsFile(t) == req[t].op = "reset" \/ req[t].ns = "persisted"

\* os.WriteFile truncates the temporary file before it fills it.
OpenInPlace(t) == disk' = Torn /\ UNCHANGED tmp
OpenTemporary(t) == tmp' = Torn /\ UNCHANGED disk

\* The memory namespace needs no file: the transaction is over.
PutMemory(t) ==
  /\ pc[t] = "working"
  /\ ~Rejected(t)
  /\ ~NeedsFile(t)
  /\ Put(t)
  /\ Unlock(t)
  /\ Answer(t)
  /\ known' = (known \ NewClaim(t).removed) \cup NewClaim(t).made
  /\ gone' = (gone \ NewClaim(t).made) \cup NewClaim(t).removed
  /\ issued' = (issued \ Forgotten(t)) \cup Generated(t)
  /\ UNCHANGED <<mode, disk, tmp, begun>>

\* Otherwise flush begins, still under the lock.
PutPersisted(t) ==
  /\ pc[t] = "working"
  /\ ~Rejected(t)
  /\ NeedsFile(t)
  /\ Put(t)
  /\ OpenTemporary(t)
  /\ pc' = [pc EXCEPT ![t] = "writing"]
  /\ claim' = [claim EXCEPT ![t] = NewClaim(t)]
  /\ known' = known \ NewClaim(t).removed
  /\ gone' = gone \ NewClaim(t).made
  /\ issued' = issued \ Forgotten(t)
  /\ UNCHANGED <<mode, lock, req, work, begun>>

FinishWrite(t) ==
  /\ pc[t] = "writing"
  /\ tmp' = persisted
  /\ pc' = [pc EXCEPT ![t] = "renaming"]
  /\ UNCHANGED <<mode, memory, persisted, disk, lock, req, work, claim, begun, history>>

Rename(t) ==
  /\ pc[t] = "renaming"
  /\ disk' = tmp
  /\ tmp' = NoFile
  /\ Unlock(t)
  /\ Answer(t)
  /\ known' = known \cup claim[t].made
  /\ gone' = gone \cup claim[t].removed
  /\ issued' = issued \cup claim[t].issued
  /\ UNCHANGED <<mode, memory, persisted, begun>>

\* The write or the rename fails: the client gets a 500, and what was put
\* in memory stays there.
FlushFails(t) ==
  /\ pc[t] \in {"writing", "renaming"}
  /\ Unlock(t)
  /\ Answer(t)
  /\ UNCHANGED <<mode, memory, persisted, disk, tmp, begun, history>>

-----------------------------------------------------------------------------
(***************************************************************************)
(* The rest of the system.                                                 *)
(***************************************************************************)

\* The project's settings change under a request that has read them.
SetStateMode(p, m) ==
  /\ mode[p] # m
  /\ mode' = [mode EXCEPT ![p] = m]
  /\ UNCHANGED <<store, threads, begun, history>>

\* The process dies and New loads state.json; a file New cannot parse would
\* keep the server from starting.
Restart ==
  /\ disk # Torn
  /\ memory' = Empty
  /\ persisted' = Contents(disk)
  /\ lock' = NoThread
  /\ pc' = [t \in Thread |-> "idle"]
  /\ req' = [t \in Thread |-> NoRequest]
  /\ work' = [t \in Thread |-> NoCollection]
  /\ claim' = [t \in Thread |-> NoClaim]
  /\ known' = {r \in known : r[1] = "persisted"}
  /\ gone' = {r \in gone : r[1] = "persisted"}
  /\ issued' = {r \in issued : r[1] = "persisted"}
  /\ UNCHANGED <<mode, disk, tmp, begun>>

Init ==
  /\ mode \in [Project -> Mode]
  /\ memory = Empty /\ persisted = Empty
  /\ disk = NoFile /\ tmp = NoFile
  /\ lock = NoThread
  /\ pc = [t \in Thread |-> "idle"]
  /\ req = [t \in Thread |-> NoRequest]
  /\ work = [t \in Thread |-> NoCollection]
  /\ begun = 0
  /\ claim = [t \in Thread |-> NoClaim]
  /\ known = {} /\ gone = {} /\ issued = {}

Receive(t) == Create(t) \/ Update(t) \/ Delete(t) \/ Seed(t) \/ Reset(t)

Serve(t) ==
  \/ SeedAdd(t) \/ SeedInvalid(t) \/ Acquire(t)
  \/ Reject(t) \/ PutMemory(t) \/ PutPersisted(t)
  \/ FinishWrite(t) \/ Rename(t) \/ FlushFails(t)

Next ==
  \/ \E t \in Thread : Receive(t) \/ Serve(t)
  \/ \E p \in Project, m \in Mode : SetStateMode(p, m)
  \/ Restart

Spec == Init /\ [][Next]_vars

-----------------------------------------------------------------------------
(***************************************************************************)
(* What the store must guarantee.                                          *)
(***************************************************************************)

\* Every variable and every thread's data has its type.
TypeOK ==
  /\ mode \in [Project -> Mode]
  /\ memory \in Collections /\ persisted \in Collections
  /\ disk \in Collections \cup {NoFile, Torn}
  /\ tmp \in Collections \cup {NoFile, Torn}
  /\ lock \in Thread \cup {NoThread}
  /\ pc \in [Thread -> {"idle", "seeding", "waiting", "working", "writing", "renaming"}]
  /\ req \in [Thread -> RequestRecord]
  /\ work \in [Thread -> Coll]
  /\ claim \in [Thread -> [made : SUBSET Resource, removed : SUBSET Resource,
                          issued : SUBSET Resource]]
  /\ known \subseteq Resource /\ gone \subseteq Resource /\ issued \subseteq Resource
  /\ begun \in Nat

\* No two resources of a collection ever share a URL, in memory or in the
\* file: every way of adding one (create, seed, restart) looks for a conflict
\* in the collection it really extends.
UniqueIds ==
  \A cols \in {memory, persisted, Contents(disk)} :
    \A p \in Project, c \in Collection : DistinctKeys(cols[p][c])

\* The "id" inside a resource is the one in its URL, whatever PUT and PATCH
\* bodies say.
IdMatchesUrl ==
  \A cols \in {memory, persisted, Contents(disk)} :
    \A p \in Project, c \in Collection : KeysMatchIds(cols[p][c])

\* A request under the lock works on a copy that is still what the store
\* holds: no change is lost between clone and put.
CopyIsCurrent ==
  \A t \in Thread :
    pc[t] = "working" /\ req[t].op \in Crud =>
      work[t] = Live(req[t].ns)[req[t].project][TheCollection(t)]

\* A resource a client was told exists is there until somebody removes it:
\* in the store and, when it is persisted, in the file a restart would load.
AcknowledgedKept ==
  /\ known \subseteq Resources("memory", memory) \cup Resources("persisted", persisted)
  /\ {r \in known : r[1] = "persisted"} \subseteq Resources("persisted", Contents(disk))

\* A resource a client was told is removed (by DELETE, a seed or a reset, in
\* whatever mode the project is) does not come back, not by a restart either.
RemovedStaysRemoved ==
  /\ gone \cap (Resources("memory", memory) \cup Resources("persisted", persisted)) = {}
  /\ gone \cap Resources("persisted", Contents(disk)) = {}

\* The sequential id about to be generated was never given to a client
\* before, not even one whose resource has been deleted since, nor before a
\* restart.
IdsNeverReused ==
  \A t \in Thread :
    pc[t] = "working" /\ ~Rejected(t) => Generated(t) \cap issued = {}

\* A sequential id the server draws is free, so the request cannot end in a
\* conflict of the server's making: also after ids clients chose themselves,
\* and after the counter has wrapped around the largest int.
DrawnIdIsFree ==
  \A t \in Thread :
    pc[t] = "working" /\ req[t].op = "create" /\ req[t].obj.id = NoId
      /\ req[t].uuid = Unset => ~Rejected(t)

\* A process killed at any point leaves a file the next one can load.
FileReadable == disk # Torn

Promise == INSTANCE StatePromise WITH saved <- Contents(disk)

\* The store implements the port's promise: see StatePromise.
ImplementsPromise == Promise!Spec

-----------------------------------------------------------------------------
(***************************************************************************)
(* Progress, as long as the process is not killed.  A handler that can     *)
(* take a step takes it; the lock is Go's RWMutex, whose waiting writers   *)
(* are served in turn, so a handler does not wait for it forever.          *)
(***************************************************************************)

Step(t) == Serve(t) /\ ~Acquire(t)

Fairness ==
  \A t \in Thread : WF_vars(Step(t)) /\ SF_vars(Acquire(t))

NextAlive ==
  \/ \E t \in Thread : Receive(t) \/ Serve(t)
  \/ \E p \in Project, m \in Mode : SetStateMode(p, m)

LiveSpec == Init /\ [][NextAlive]_vars /\ Fairness

\* Every request is answered: no path leaves the lock behind.
EveryRequestAnswered ==
  \A t \in Thread : pc[t] # "idle" ~> pc[t] = "idle"

=============================================================================
