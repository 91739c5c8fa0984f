---------------------------- MODULE SchemaCache ----------------------------
(***************************************************************************)
(* The cache of compiled schemas of the GraphQL engine (loadSchema in      *)
(* internal/adapter/graphql/engine.go).                                    *)
(*                                                                         *)
(* The cache is read under the engine's mutex, the schema compiled without *)
(* it, and the result stored under it again: two handlers may compile the  *)
(* same contract at once.  Each section under the mutex is one step.  The  *)
(* key is the hash of the contract's text, so a contract stands for its    *)
(* key, and for the one schema it compiles to.                             *)
(***************************************************************************)
EXTENDS Naturals, SequencesExt

CONSTANTS Handler,            \* the requests that may be open at once
          Contract,           \* the contracts that may be loaded
          Compiles,           \* those gqlparser compiles
          MaxCachedSchemas    \* MaxCachedSchemas, 64 in the code

ASSUME CompilesAssumption == Compiles \subseteq Contract
ASSUME CacheAssumption == MaxCachedSchemas \in Nat \ {0}

VARIABLES
  schemas,   \* Engine.schemas: the contracts whose schemas are cached
  order,     \* Engine.order: the cached contracts, the last used at the end
  load,      \* what each handler is at in loadSchema
  used       \* history: the contracts found or stored, the last one at the end

cacheVars == <<schemas, order, load, used>>

Outside == [at |-> "outside"]
LoadSteps == [at : {"load", "parse", "store", "loaded"}, contract : Contract]

CacheInit ==
  /\ schemas = {}
  /\ order = <<>>
  /\ used = <<>>
  /\ load = [h \in Handler |-> Outside]
-----------------------------------------------------------------------------
LeftInPlace(seq, c) == IF c \in Range(seq) THEN seq ELSE Append(seq, c)
MovedToEnd(seq, c) == Append(RemoveFirst(seq, c), c)
Noted(c) == Append(RemoveFirst(used, c), c)

To(h, at) == load' = [load EXCEPT ![h].at = at]

StartLoad(h, c) ==
  /\ load[h] = Outside
  /\ load' = [load EXCEPT ![h] = [at |-> "load", contract |-> c]]
  /\ UNCHANGED <<schemas, order, used>>

\* Under the mutex: a cached schema becomes the last used one.
Hit(h) ==
  /\ load[h].at = "load" /\ load[h].contract \in schemas
  /\ order' = MovedToEnd(order, load[h].contract)
  /\ used' = Noted(load[h].contract)
  /\ To(h, "loaded")
  /\ UNCHANGED schemas

Miss(h) ==
  /\ load[h].at = "load" /\ load[h].contract \notin schemas
  /\ To(h, "parse")
  /\ UNCHANGED <<schemas, order, used>>

\* Without the mutex.
Compile(h) ==
  /\ load[h].at = "parse" /\ load[h].contract \in Compiles
  /\ To(h, "store")
  /\ UNCHANGED <<schemas, order, used>>

FailToCompile(h) ==
  /\ load[h].at = "parse" /\ load[h].contract \notin Compiles
  /\ load' = [load EXCEPT ![h] = Outside]
  /\ UNCHANGED <<schemas, order, used>>

NeverCached(c) == FALSE
Cached(c) == c \in schemas

\* Under the mutex again: another handler stored the same contract meanwhile.
\* Its schema is taken, and the order stays as it is.
Existing(h) ==
  /\ load[h].at = "store" /\ Cached(load[h].contract)
  /\ To(h, "loaded")
  /\ UNCHANGED <<schemas, order, used>>

Full(o) == Len(o) > MaxCachedSchemas

\* The schema is stored, and the one at the front of the order dropped when the
\* cache holds more than it may.
Insert(h) ==
  LET c == load[h].contract
      longer == Append(order, c)
  IN /\ load[h].at = "store" /\ ~ Cached(c)
     /\ order' = IF Full(longer) THEN Tail(longer) ELSE longer
     /\ schemas' = (schemas \cup {c}) \ (IF Full(longer) THEN {Head(longer)} ELSE {})
     /\ used' = Noted(c)
     /\ To(h, "loaded")

Leave(h) ==
  /\ load[h].at = "loaded"
  /\ load' = [load EXCEPT ![h] = Outside]
  /\ UNCHANGED <<schemas, order, used>>

CacheNext ==
  \E h \in Handler :
    \/ \E c \in Contract : StartLoad(h, c)
    \/ Hit(h)
    \/ Miss(h)
    \/ Compile(h)
    \/ FailToCompile(h)
    \/ Existing(h)
    \/ Insert(h)
    \/ Leave(h)

CacheSpec == CacheInit /\ [][CacheNext]_cacheVars
-----------------------------------------------------------------------------
CacheTypeOK ==
  /\ schemas \subseteq Contract
  /\ order \in Seq(Contract)
  /\ load \in [Handler -> LoadSteps \cup {Outside}]

\* The order names the cached schemas, each of them once, and the cache never
\* holds more than it may: two handlers that compiled the same contract at once
\* must not list it twice, or an eviction would drop the schema and leave its
\* name (engine.go, "Re-check in case another goroutine stored it while we were
\* parsing").
CacheConsistent ==
  /\ \A i, j \in 1..Len(order) : order[i] = order[j] => i = j
  /\ {order[i] : i \in 1..Len(order)} = schemas
  /\ Len(order) <= MaxCachedSchemas

\* The cached contracts are the last ones found or stored: "the
\* least-recently-used entry is evicted" (engine.go, MaxCachedSchemas).
KeepsLastUsed == order = SubSeq(used, Len(used) - Len(order) + 1, Len(used))
=============================================================================
