# TLA+ models of openapi-mocker

openapi-mocker is a Go server that serves mock APIs from OpenAPI, GraphQL and
MCP contracts. It keeps projects, their contract versions, mock rules and
request logs in one JSON file, keeps the resources of stateful mocks in another,
forwards to and records from a real upstream, and compares its answers with
that upstream in the background. Everything runs in one process. HTTP handlers
are goroutines, the two stores each have a mutex, and there is no shutdown
handling at all: the process simply dies.

This directory models the parts where goroutines meet shared state and the
algorithms that decide what a client is answered, checks them with TLC on small
instances, and proves the central results about shared state, and about the loops that
choose a rule, compare two texts and answer a batch, with TLAPS for every value of the
constants.

    tlc -config StateStore.cfg MCStateStore      # a model-checking run
    tlapm ContractHistoryProofs.tla              # a module of proofs

`PROJECT.json` has the same information in a form for tools: components, runs,
the lines each definition models, hazards, findings and theorems.

## 1. Inventory

Paths are under `src/internal/`.

| Component | State | Operations | Hard behaviour | What makes it correct |
|---|---|---|---|---|
| Resource store: `usecase/state_service.go`, `adapter/repository/statestore/store.go` | collections per project in two namespaces (memory, persisted), `state.json`, one RWMutex | GET/POST/PUT/PATCH/DELETE of resources, seed, reset | concurrent changes; failing writes; a kill during a write; ids clients choose against ids that are drawn; int overflow; mode switched mid-request | no duplicate ids, no lost update, nothing acknowledged is lost, nothing removed returns, no id twice, file always readable |
| Contract history: `usecase/contract_service.go`, `contract_alerts.go` | a list of versions per project (in the JSON repository) | publish, rollback, diff, generate | read and append are two repository calls; save errors ignored; project deleted meanwhile | numbers are positions, history only grows, breaking versions are alerted |
| JSON repository: `adapter/repository/jsonstore/store.go` | projects, contracts, mocks, providers, logs, drift reports; `db.json`; one mutex | one method per use case, each holding the mutex to the end of its save | whole-database save, some of whose errors are dropped; hands out pointers to what it keeps | memory and file agree up to the failed saves; windows bounded |
| Proxy and record: `usecase/proxy.go` | `recordMu`, recorded rules | forward, record, replay | identical requests at once; slow upstream; lock on every path; the same request met by another path template | one rule per request and template, replay from then on |
| Settings: `usecase/project_service.go`, `serving_options.go`, `adapter/httpapi/handlers_projects.go` | the fields of the shared `*Project` | PATCH (three stages), reads by serving | read-modify-write without a lock; unlocked reads during writes; partial application | stored settings valid together; a patch changes its fields only |
| Mock serving: `usecase/mockserving_service.go`, `match.go`, `domain/match.go`, `adapter/httpapi/handlers_mockserver.go` | none of its own | validate, choose a rule, render, fall back to state, proxy or example | mode read twice; four kinds of rule and their ties; a client that leaves while the mock waits | the mode in force decides; the rule of the highest rank answers; the client gets what the log says |
| Mock rules: `usecase/mock_service.go` | rules (in the JSON repository) | create, update, delete, list | an update replaces the whole rule, after other checks than a creation | only rules that can be served as they promise are saved |
| Faults: `usecase/fault.go`, `domain/fault.go`, `adapter/mcp/fault.go` | none | one roll per request, or per call of a batch | slices of 0..99; the first hit decides a batch | slices disjoint, as wide as configured |
| Templates: `usecase/template.go`, `template_faker.go` | named counters, for REST and for MCP | render, check a body before it is saved | counters shared by handlers; values inside and outside JSON strings | the n-th use gives n; what was valid JSON is valid once rendered |
| MCP server: `usecase/mcp.go`, `adapter/mcp/` | none | initialize, tools/list, tools/call, batches | batches of requests, notifications and nonsense | one answer per request, none per notification |
| GraphQL server: `usecase/graphql.go`, `adapter/graphql/engine.go` | a cache of compiled schemas and its order | validate, list operations, execute a document | look-up and store in two locked sections; fragments, aliases, keys selected twice; limits that hide in fragments | cache and order agree, the oldest goes; answers are merged as the specification says |
| OpenAPI engine: `adapter/openapi/` | none | match, validate, example, diff, breaking changes | map iteration order; recursion over schemas; a cap of changes | most specific path; the diff is a shortest script; within what it compares, the detector reports what breaks a client and, but for types that are loosened, that only |
| Code generation: `agents/`, `usecase/code_generator.go`, `adapter/router/`, `adapter/codegen/` | none | plan, generate per language, validate, archive | one language of several fails | every language is in the archive or in the error |
| Commands: `cmd/server/` | none | serve, `diff` | flags in any order, unreadable files | exit codes as the usage says |
| LLM gateway, notifier, upstream client, HTTP router, web UI, ids, logs | wait group of the notifier | calls to services | timeouts | see `PROJECT.json` for each one's status |

How they interact: a handler calls a use case; a use case makes one or more
calls of a repository port, and nothing is locked between two calls; mock
serving also asks the resource store, the upstream client and the drift check;
a publication asks the breaking-change detector and hands an alert to the notifier,
which posts it in the background; every serving handler reads the active contract
and hands it to the engine of its format.

## 2. Modules

| Module | Models |
|---|---|
| `StateItems` | the pure operations on one collection: id allocation, conflict, merge and replacement, removal; int arithmetic of a given width |
| `StateStore` | the resource store: handlers, lock, copy, both namespaces, temporary file and rename, failures, restarts |
| `StatePromise` | what the port `StateStore` promises: whole operations on current contents, no threads, locks, copies or files |
| `StateStoreProofs` | theorems about these |
| `ContractHistory` | publish, rollback, alert, delete, failing saves, restart |
| `ContractLog` | what `ContractHistory` promises: one log per project and a file that follows it or stays behind, no threads and nothing read in one step and used in another |
| `ContractHistoryProofs` | theorems about it |
| `RecordReplay` | rule lookup, forwarding, recording under `recordMu`, the rule administration |
| `RecordReplayProofs` | theorems about it |
| `ProjectSettings` | PATCH in its stages, field-by-field writes under the mutex and reads outside it, a mock request that is served meanwhile |
| `ProjectSettingsProofs` | theorems about it |
| `DriftCheck` | handler, semaphore, wait group, check, report window, administration |
| `DriftCheckProofs` | theorems about it |
| `Sublists` | the loop that keeps some elements of a slice |
| `SublistProofs` | lemmas about it, about subsequences and about induction up to a bound, for the modules of proofs |
| `JsonValues` | decoded JSON values, paths into them, and their texts, for the modules below |
| `Matching` | conditions of rules and of MCP responses, and their operators |
| `Faults` | fault settings, their validation, the slices of a roll |
| `PathTemplates` | which path of a contract a request's path means |
| `Templates` | placeholders: scanning, sources of values, escaping, counters, stand-ins of the check |
| `DecodedTemplates` | the placeholders of a decoded JSON value, as MCP results have them |
| `MockRules` | which rules may be saved, which one answers a request, and what it answers |
| `McpEngine` | manifests, messages and batches, the choice of a tool's response, the faults of a run |
| `MockServer` | the REST and MCP handlers from request to last byte, over the five modules above and the repository's rules, with the administration of rules and contracts |
| `MockServerProofs` | theorems about it |
| `GraphQLEngine` | the choice of an operation, the refusals, and the answer a selection set is given |
| `SchemaCache` | the engine's cache of compiled schemas, with its two locked sections |
| `GraphQLServing` | GraphQL requests and publications: handler, service, cache and engine composed |
| `BreakingChanges` | the breaking-change detector |
| `TextDiff` | the line diff |
| `ContractTools` | the comparison of two versions, the `diff` command, and the code generation agent; which changes the detector finds is its parameter `Detected` |
| `ContractClients` | `ContractTools` and `BreakingChanges` together, and what clients of a contract notice |
| `EngineProofs` | theorems about `ContractTools` with `TextDiff`, and about `SchemaCache` |
| `MC...` | the instances TLC checks |

### Correspondence with the code

*StateStore.* `pc[t]` is where a handler is. `Create`, `Update`, `Delete`,
`Seed` and `Reset` are the part of a request before the lock, in which the mode
is read (`Handle`, `mode`) and a seed is built item by item (`SeedAdd`,
`SeedInvalid`). `Acquire` takes the mutex and makes the copy (`clone`). `Reject`
is the callback's error; `PutMemory` and `PutPersisted` are the callback, `put`
and the branch of `flush`; `FinishWrite`, `Rename` and `FlushFails` are the rest
of `flush`. The code does not undo a change in memory when the write fails, and
neither does `FlushFails`: the client gets an error and the change is there. The
file is `Torn` while it is being written; only the temporary file ever is.

*ContractHistory.* Every repository method is atomic, as its mutex makes it.
`Begin`, `ReadActive`, `Add` and `Alert` are the steps of Publish and of
Rollback. `Add` and `AddLog` drop the error of `save`; `Delete` returns it.
A contract is a member of `Doc`, and what the detector finds is the relation
`Breaks`, any relation; `BreakingChanges` defines the one of the code.

*RecordReplay.* What a client sends is its key (`requestKey`), and a rule has a key
or none. `findRule` and `record` know a request by its key and by the path template
it is matched with, which `Receive` chooses among those of the active contract that
fit equally well. `Receive` to `PassOn` follow `ServeRequest` for a request that the
contract describes; `Recordable`, `Scan`, `AnswerRecorded` and `SaveRecording` follow
`record`, with nothing locked between the two repository calls but `recordMu`.
`CreateRule` and `UpdateRule` take a rule as the body has it, a recording or the lack of
one included; an edit that takes a rule out of its project, or gives it conditions, is
one that leaves neither key nor default. `Publish` replaces the contract. `recorded`,
`covered` and the `saved` of a rule are history: `Forget` takes out of them what somebody
deleted or edited away.

*ProjectSettings.* `jsonstore.Get` returns the repository's own pointer. Setters
write through it with the mutex held (`LockToSet`, one `Write` per field,
`Save`), readers read it with nothing held (`ReadSetting`, `Validate`,
`Enforce`, `ReadConfig`). A Go string is two words, so a reader of a string
that is being written may see the old one, the new one or a mixture: `Torn`.
`TornFields` says for which fields the mixture is considered; the passing run
takes all string fields, the run that expects a violation none, so that its
counterexample does not depend on it.

*DriftCheck.* `hpc[r]` is the handler of request r and `gpc[r]` its check.
`driftSem` counts the slots taken, `driftWG` the checks counted. The deferred
calls of a check run in the order the code gives them: slot first, count last.

*MockServer.* `call[t]` is a handler goroutine. `NotDescribed`,
`RejectInvalidRequest`, `RespondWithExample` and `RespondFromRule` are the ways
`ServeRequest` and `respond` end; the rule is chosen by `FindRule` of MockRules,
whose four searches are the four of `findRule`. One step stands for the calls
that lead there: they hold one mutex at a time and change nothing, and the two
readings of the mode are in ProjectSettings. Rendering is one step per element
(`RenderNext`), so that the counters of two requests interleave. `Handle` runs a
whole MCP payload: the manifest's run holds no lock but the counters', and its
draws, one per call of a tool, are chosen beforehand (`Draws`). Both
handlers then share `Slept`, `Interrupted`, `Held` and `Write`, the latency, the
connection faults and the writing of the response, during which the client may go
away (`GiveUp`). `UpdateMock` has both forms a body may take: with the project
and the time of creation the rule had, and without.

*Templates.* A source is a sequence of characters and placeholders; the scanner's
state is whether it is inside a JSON string, and what it has written. Characters
other than quotes, backslashes and the punctuation of an object are one
character. The check of a rule's body renders with a stand-in for each
placeholder, as the code does, and `ValidJson` is a small grammar of what TLC
renders. `RenderValue` goes down a decoded value and is recursive, so it has a module
of its own: `McpEngine` has it as the parameter `RenderDecoded`, which each run
instantiates with it and the proofs leave open.

*GraphQLServing* takes one action of `SchemaCache` in each step that reaches
`loadSchema`, and leaves its variables alone in every other. `BuildSelSet`,
`ApplyField`, `MergeResponseMaps` and `MergeResponseValues` of GraphQLEngine are the
functions of these names. The GraphQL library
is a table: which contracts compile, and to what.

*BreakingChanges* has one operator per function of `comparer`. Changes are a set;
the order in which they are found decides only which ones fit in the list, so
`BreakingChanges(old, new)` is the set of lists it may return.

*ContractTools.* A task is one use of a tool. `LcsTable` is the table `lcsTable` builds
from its last cell to its first, as the function its cells are given by, and `Walk` is
`backtrackLCS` line by line; the two loops after the main one are the cases of
`NextType` in which one text has ended. The runs set `Detected` to the
`BreakingChanges` of the module of that name, which is recursive, and the proofs leave it
open. `Generate` is one round of the
agent's loop; `Respond` is what the handler makes of results and errors.

## 3. Runs

| Run | Asks | Shows |
|---|---|---|
| `state_store` | Do two handlers, failing writes, mode switches and restarts ever duplicate, lose or resurrect a resource? | They do not; and every change is a whole operation of `StatePromise` (`ImplementsPromise`). 277,000 states |
| `state_edge` | What if a client stores the largest int as an id, and is every request answered? | The counter wraps, drawn ids stay free, no error path keeps the lock. |
| `contract_history` | Does a history stay linear when publications, rollbacks, failing saves, deletion and restarts interleave? | Rollback restores what it names, the file's history only grows, alerts are true, lone breaks are alerted, confirmed deletions stand, and told versions stand unless a save failed; and every step is one whole change of `ContractLog` or none (`ImplementsLog`, by which version n is also the n-th of its history). 2.1 million states |
| `record_replay` | Is one rule saved per request, is it used from then on, and is every request answered, while rules are written, edited and deleted and contracts published? | Yes, for each path template a request is matched with, with the exceptions below. 200,000 states |
| `settings` | Can overlapping patches, torn reads and failing saves leave settings that are not valid together? | No, whatever was validated against whatever; a patch that nothing overlaps changes just its fields; a request is rejected or left unchecked only under a mode that was in force. |
| `drift_check` | Are checks bounded, are slots given back, does `WaitDrift` wait? | Bounded, given back if checks run, and it waits. Only handlers are scheduled fairly here, so checks may hang and the handlers do not need them. |
| `mock_server` | Does the right rule answer, do faults hit as often as they say, do counters and bodies render right, are batches answered as JSON-RPC demands, and does the client get what the log says? | Yes, while rules and contracts change and clients leave; and every request ends. The exceptions are in the properties' comments and below. |
| `graphql` | Do cache and eviction stay right when two requests compile at once, and is a query answered as the specification merges it? | The cache does; the answers do down to lists below a field that is selected twice, and documents with hidden introspection, too deep or circular are refused. 250,000 states |
| `contract_tools` | Does the detector report what breaks a client, and only that? Does the diff rebuild both texts, and is there no shorter one? Is every language accounted for? | Yes for all pairs of a hundred documents, against a reference that asks which values old and new contract accept, within what the detector compares, and but for types that are loosened (both below); yes for all texts of up to four lines of two kinds, against every way to match their equal lines; yes for all lists of up to three languages. |

Three runs expect a violation; each is a disagreement between the code and what
it says about itself, and is a finding in `PROJECT.json`:

| Run | The code says | The run shows |
|---|---|---|
| `contract_alerts` | a version that breaks the previous one sends an alert | of two overlapping publications one is compared with a version it does not follow |
| `settings_lost` | only the fields in the body are modified | an overlapping patch's field is put back |
| `graphql_merge` | fields that share a response key have their sub-selections merged per spec | of a list below a field selected twice, the first selection is lost |

### Met on the way

What the modules contain and no run is about.

*Storage.* `AddVersion` drops the error of its save (`jsonstore/store.go:240`):
after a restart a version that was told is gone and its number given again,
although `contract_service.go:178` says that nothing is rewritten;
`SavedVersionsStand` says what is left of the promise. A publication or a
recording in flight when its project is deleted is saved under the deleted id
(`store.go:224`, `proxy.go:211`). `AddDrift` keeps the last 1000 reports of all
projects together (`store.go:473`), where `README.md:84` of the repository speaks
of each project. `proxyConfig` reads mode and URL of a shared project one after
the other (`serving_options.go:83`), so a request may be forwarded to an empty
URL. `ServeRequest` reads the validation mode twice, so a request can be served
with warnings when the mode goes from enforce to off in between. `bumpNextID`
wraps at the largest int (`state_edge` shows what keeps that harmless).

*Rules.* `PUT` of a rule replaces it: a body without a project takes the rule out
of its project, one without a creation time makes it the oldest, and of two
updates the last one wins whole. It answers 404 for a body that is not
JSON. A backslash before a placeholder in a JSON string passes the check, but
may render as invalid JSON. `{{counter.x}}` is left as it is but counts (twice as
a lone string of an MCP result). `{{faker.int a b}}` computes `b - a + 1` in int
(`template_faker.go:147`), which overflows for bounds far enough apart.

*MCP.* A batch of notifications that meets an error fault is logged with the
fault's status and answered with 202. A garbage body is logged as a match when it
answers a single message, and as none when it answers a batch.

*GraphQL.* A schema that another handler stored meanwhile is taken without being
moved to the end of the order, and the comments on the order call its front the
most recent where the code uses its end. `limit: 0.5` gives a list of size 0,
where the comment speaks of 1 to 20. `__typename` of a union or an interface is
the abstract type's name; `@skip` and `@include` are not looked at.

*Recording.* That a recording serves its request "from then on" (`proxy.go:187`) has
exceptions, which `AnsweredFromThenOn` names: another template is found for the
request, somebody deletes a recording of it or edits it away (a `PUT` that leaves
`recording` out does), or the save of a recording failed, which `CreateMock` does not
tell (`store.go:288`), and the process was restarted. The template differs when two
templates with as many static segments fit, and `match.go:29` meets either one first, or
when a new version of the contract renames a parameter.

*Tools.* Removing a response `2XX` is a warning only, since the code is read as
the number 2. A request's media type that is gone is not reported. What only one
version declares (a type, an enum, items) and required names without a property
are not compared, nor is what an `allOf` says of types, values and items, of which
only properties are collected, nor any but the last declaration of a property that
several parts declare; of a parameter only the type is. `Comparable` and
`ComparableParam` name these limits. Sets of types are compared as a whole, on both
sides alike: a request that takes strings and integers where it took strings, or a
response that has only strings left, is reported as breaking. `README.md:90` of the
repository lists any changed type as breaking, so `BreakingIsReal` names this as its
exception (`TypesLoosened`). The list ends at 500 changes (`breaking.go:56`), whatever
comes after; `BreaksAreReported` says nothing of a full list. The agent's `strategy` is not looked at by the router. A
language that is asked for twice is in the archive twice. `saveContract` ignores
the `format` that `README.md:253` of the repository lists.

### Bounds, and why they are enough

- Two handlers (`Thread`, `Patcher`, `Handler`): the hazards are between a read
  and a write of one handler and a write of another. In `record_replay` they
  serve three requests with one key: two at once, and one after them. Its first contract
  has two templates that fit, its second only one of them. What is matched with the one
  and with the other are the two requests of which one must not disturb the other. One
  rule is created or edited by hand (`MaxWrites`); deletions, publications and switches of
  the mode are not bounded.
- `MaxRequests = 3` in StateStore: a set-up request, then two that collide, or a
  create, a delete and a create. Restarts, mode switches and failures are not
  bounded. One project and one collection: the lock is common to all, and what
  is kept apart is the namespaces, of which there are both.
- `MaxInt = 7` is out of reach of three requests; `MaxInt = 3` in `state_edge` is
  reached by the body that has it as its id.
- `MaxRequests = 4` in ContractHistory: two versions, then two publications or
  rollbacks that overlap.  `Breaks` has one direction only, so that comparing
  the wrong way round is noticed.
- `MaxPatches = 2` in `settings`: one to overlap the other, or one after the
  other; the bodies turn the proxy on and off as a whole and in parts, and some
  are invalid in themselves. The violation uses three.
- `drift_check` has two requests for one slot and a window of one report, so that
  both limits are reached by requests of the same and of different projects.
- `mock_server`: a roll is in 0..3 (`PercentBase = 4`), so that each rate of 1 is
  one roll and the rates of a rule can fill the whole. Two events (`MaxEvents`)
  after a database of an earlier run with up to three rules: two requests at
  once, or a change and a request. The stored rules tie in rank and in the number
  of conditions, and two templates of the contract, one more specific, match the same path.
- `graphql`: three contracts that compile compete for two places
  (`MaxCachedSchemas = 2`), and four requests (`MaxRequests`) are enough to fill
  the cache, use the older entry and evict. One handler sends each of 361 pairs of
  selections to the one schema that has them, the other plain queries only.
  `MaxMockListSize = 4` and `MaxQueryDepth = 3` are both exceeded by documents.
- `contract_tools`: the schemas have properties, inheritance, circles, lists, enums and
  sets of two types; some have nothing but an `allOf`, some an `allOf` that says
  something else than they do. Each document differs from the others in its parameters, its body or its
  responses. `MaxChanges = 3` is exceeded by some pairs, and `MaxDiffCells = 12` by
  texts of four lines against four.
- Symmetry is used for handlers in runs that check safety only, and never with
  a liveness property.
- `CHECK_DEADLOCK FALSE` in RecordReplay, MockServer, GraphQL and ContractTools:
  requests are bounded there and a restart is not modelled (it would only lose
  threads), so the system comes to rest.

### Fairness

Safety runs have none. For liveness a handler or check that can take a step
takes it (weak fairness): goroutines are scheduled, timers fire, file and upstream
calls return, the latter after their timeout at the latest. Taking a mutex is
strongly fair, since Go's mutexes hand over to a waiter that has starved.
Clients need not send anything, wait or leave: neither receiving a request nor
`GiveUp` is ever fair. Restarts are left out of the liveness specification of
StateStore, as a process that is killed answers nobody. `drift_check` has fairness
for handlers only; `SlotsComeBack` names the fairness of the checks as its premise.

## 4. Proofs

All are checked by `tlapm`, for any number of threads, projects, collections, requests
and contracts, any width of int and of a roll, any bodies and rules, any relation of
breaking changes and any size of the cache. Beyond the named assumptions of the
constants, which TLC evaluates in each run, they rest on nothing, with two exceptions
that are named in the theorems (below). The assumptions say that

- the markers `NoThread`, `NoVersion`, `NoOne`, `NoKey` and `Unset` differ from what they
  mark, and `Torn` from every mode: the address of one mode's text with the length of
  another's spells none of them (`TornAssumption`);
- bodies are what decoding makes of them: objects, structs with all their fields
  (`RuleBodiesAssumption`), or patches of the settings there are (`PatchAssumption`);
- a database of an earlier run has an active contract, or none, for each project, and
  finitely many rules, under ids of their own and with a scenario (`StoredAssumption`: the
  repository draws an id for each rule, and `Create` fills the scenario in);
- texts, lists of languages and batches are finite sequences (`TasksAssumption`,
  `MessagesAssumption`), and a payload of one message has one (`MessagesAssumption`);
- a cache has a place, there is a slot for checks and room for a report, and ints, rolls
  and the cells of a diff have a bound.

**StateStore.** The invariant is built in layers, each inductive given the one
below it. They rest on the lemmas about the operators of `StateItems`, the first half
of `StateStoreProofs`.

1. `Core`: `TypeOK`; each request has what its operation needs (`RequestOK`);
   the lock belongs to exactly the thread between `Acquire` and its answer
   (`LockInv`); the temporary file is complete when it is renamed
   (`TmpComplete`); hence `FileReadable`. `LockInv` is what everything else
   needs: nothing but the lock's holder changes a collection.
2. `CopyIsCurrent`: given `Core`, the copy stays what the store has.
3. `ContentsInv`: all collections, in memory, in the file, in a copy or in a
   seed under construction, have distinct ids that match their URLs. It is the
   lemmas about adding, updating and removing that carry
   it. `UniqueIds` and `IdMatchesUrl` follow.
4. `AckInv`: what clients were told is in memory and, for the persisted
   namespace, in the file: a claim becomes an acknowledgement only at the rename.
   `AcknowledgedKept` and `RemovedStaysRemoved` follow.
5. `RefineInv`: a seed under construction is the beginning of its list, and so
   every `Put` is one operation of `StatePromise` and every other step, but the
   rename and the restart, a stutter. `ImplementsPromise` follows.
6. `DrawnIdIsFree` holds of the walk over taken ids by the pigeonhole principle, also
   when it wraps, provided that a collection has no more items than there are positive
   ints: the theorem's premise `SlicesFit`, true of every Go slice.
7. `FreshInv`: every counter is past the ids clients were given, in memory and in the
   file, so also after a restart. This is false once a counter has wrapped at the
   largest int (as `state_edge` lets it do), so `IdsAreNeverReused` has
   the premise `CountersHaveRoom` and speaks of the behaviours that stay
   below.

**ContractHistory.** `VersionIsPosition` (version n is the n-th, in memory and in the
file) is proved and not listed in a run: a log that numbers what it appends,
`ImplementsLog`, implies it. `Core` is `TypeOK` and that a thread that alerts has a
version. `HistoryInv` adds to `VersionIsPosition` and `DeletedStaysDeleted` that
a project nobody deleted is in memory and in the file (`KeptIsLive`) and that
the file has a prefix of each history in memory (`SavedIsPrefix`). The prefix
is needed because a failed save leaves the two apart: the next save, of anything,
must extend the file and not rewrite it. `HistoryKept` follows.

A thread holds what it read in an earlier step, and the other four properties
need to say what of that is still true. `RollbackRestores`: the version to go back
to is still in the history, with the contract taken from it (`TargetInHistory`).
`AlertsSound`: what a thread compares with is older than what it adds
(`ReadIsOlder`), but perhaps not the one before. `LoneBreakAlerted`: for a thread
that is alone in its project it is the one before, unless the project is deleted meanwhile
(`AloneIsAlone`, `AloneReadLast`). `SavedVersionsStand`: the file has what memory
has as long as no save fails (`FileIsMemory`), so a restart takes no version away
that a thread has added but not yet told (`AddedStands`).

`HistoryIsALog` shows that the threads refine `ContractLog`. `Add` is the abstract
publication or rollback, and whatever a thread does before or after it a stutter. For a
rollback this needs `TargetInHistory`, so that the contract it carries is one the log
has now; after a deletion that may be false, and the step is the abstract `LateRollback`.
A restart is the abstract one since the file has what memory had at some save. The
refinement is by the invariant's conjuncts, step by step, with no new invariant.

**ContractTools.** Two inductions over data are in reach because table, walk and loop
are recursive functions rather than recursive operators.

`DiffReplays`: that `LcsTable` is a function at all is by induction on the distance of a
cell from the ends of the texts (`TableIsDefined`). No way to match the lines that are
left from a cell has more of them than the cell says (`TableBounds`): when the first two
lines are equal a matching without what it has of either is one of the rest and at most
one smaller (`WithoutTheFirst`), and when they differ it leaves one of the two out
(`OneOfTheFirst`). `Walked` is the invariant of the walk: its lines replay the beginning
of both texts, and the lines kept so far and the cell it stands at make up the first
cell of the table; it takes at most one step per line of the texts (`OneLineWalked`).
So the lines it keeps are as many as the first cell says, and no matching has more
(`BacktrackIsRight`). `CoarseDiff` replays both texts as well (`CoarseIsRight`); of the
steps of the tools the theorem needs only that what a comparison answers is
`DiffLines` of its two versions (`ComparedRight`).

`LanguagesAccountedFor`: while the agent is at work, the requests that are left are the
end of the list, and each language is in the results and the errors together as often as
in what comes before that end (`Done`). Adapters and their failures do not matter to it.

**SchemaCache.** `CacheInv` says that the order lists no contract twice, that it
names exactly the cached schemas, that it fits, and that it is the end of the
history of what was found or stored, which lists no contract twice either. The
first two are needed together: a contract that is inserted is not in the order
because it is not cached, and the one that is evicted is listed nowhere else. That
the history has no repetition is what makes a contract that moves to the end
move past the cached ones only (`LEMMA NotedAfterOrder` and the lemmas on
`RemoveFirst` before it). `CacheConsistent` and `KeepsLastUsed` follow.

**RecordReplay.** Beside the types the invariant says that a busy handler has a
request (`Serving`), that the one that has scanned the rules holds `recordMu`
(`Holds`), and that where its scan found nothing, no rule that record saved for its
request is there (`StillAbsent`). The last needs the second: a recording is saved only by
the holder of the lock. Rules that are written by hand may be recordings as well, so it
speaks of the saved ones. `OneRulePerRequest` follows. For `AnsweredFromThenOn` the
invariant adds that what was recorded has a rule (`RecordedKept`) and that what a
request was covered by when it began is recorded, or forgotten (`CoveredRecorded`), so
the lookup finds a rule. `LEMMA Appending`, `Removing` and `Editing` say what becomes of the
recordings of a request when another rule is written, deleted or edited, and
`AdministeringKeepsInv` that no more than that is needed of the administration.

**ProjectSettings.** `Core` is the types, that the mutex is held from `LockToSet` to
`Save` (`LockInv`), that what a setter is called with is valid with itself (`CfgInv`),
and that the proxy settings are valid except while a setter writes them, of which
those it has written are its own (`StoreInv`). `StoredSettingsValid` follows: a
setter writes a whole group, so it does not matter which settings its values were
read from. For `ServedByAModeInForce`, `ServeInv` follows the modes in force during a
request, also of a project that is deleted while its pointer is held; a torn mode
neither rejects nor lets through. For `LonePatchExact`, `LoneInv` says at each
stage of a patch that is alone which fields have their new meaning already (`Done`),
that the others are as it found them, and that what it is about to set agrees with
its body over them.

**DriftCheck.** The two counters of the code are sizes of sets of checks:
`driftSem` of those that hold a slot (`SlotsInv`), `driftWG` of those that have begun
and are not done (`CountInv`). The proof follows the sets through every step.
`ChecksBounded` follows, and `WaitSeesReports`, since a set of size 0 has none of the
checks that `WaitDrift` was to wait for. `KeepsNewest`: `drifts` and `added` are cleared
by the same loop, and what it keeps of the end of a list is the end of what it keeps of
the list (`KeptOfSuffix`), so that the one stays the end of the other.

**MockServer.** `FaultSlicesExact`: `ValidStore` says that every rule and every active
manifest passed its validation, whichever way it came there; `SlicesAreExact` shows
that rates that pass cut a roll into intervals, and that an interval has as many
rolls as its rate. `ClientGetsWhatIsLogged`: `GoodCall` says of each stage between
the choice of a response and the end of the connection that the status to be logged
is the response's and is 0 just for the faults that drop it. `CountersCountUses`:
a counter stands at the number of its uses (`CountInv`), of which each element
that is rendered adds at most one; rules are rendered by the counters of REST, so
that nothing MCP does, whatever `RenderDecoded` is, touches them.

`SelectsByRank`: the property chooses among sets of rules, the code goes through lists.
`ListMocks` is an enumeration of a project's rules by their time of creation (it exists,
as the set is finite), `OfOperation` keeps their order (`KeptPlaces`), so the first place
in the list that satisfies a search is the first rule of the set the property names, and
the last place the last one. For conditions, `IsBest` is the invariant of the loop: of the
rules it has passed, no match has more conditions, nor as many and an earlier
place. That the default of an unnamed scenario is one named "default" needs
`StoredRules`: every saved rule has a scenario.

`OneAnswerPerRequest`: each way `ExecuteOne` ends adds the one answer of its message, or
nothing for a notification (`Adds`), whatever the manifest, the fault and the schema;
by induction over the batch (`RunOfFirst`) the ids answered are those of the wanting
messages so far. `AnsweredRightly` keeps it from the run to the end of the request.

**Only model-checked.** Liveness (`EveryRequestAnswered`, `EveryRequestEnds`,
`SlotsComeBack`), which the prover does not reach. `SavedBodiesStayJson` is about the
scanner of templates and a grammar of JSON, both folds over characters from the
community modules, of which tlapm knows nothing. `BreaksAreReported` and
`BreakingIsReal` compare two recursive walks through schemas, which may have circles, and
`TopLevelMergedPerSpec` and `RefusesWhatItCannotServe` are about the recursion through
selections: these are RECURSIVE operators, of which tlapm proves nothing. Collections
with string ids are in the proofs but in no run.

## 5. Not modelled, and why

- The code generators (`adapter/codegen/*_adapter.go`, `generate.go`): one pass over a
  parsed contract into the text of another language, without state. What they
  promise is that this text compiles, which is not a property of their own
  steps. ContractTools has their outcome.
- The LLM gateway and its providers: HTTP clients of external services, and records
  that are created, listed and deleted.
- Ids, request logs and the logger: random ids are taken to be new; a log entry is one
  more reason to save the database (`AddLog`).
- The libraries: parsing and validation of OpenAPI and GraphQL documents, JSON
  Schema, regular expressions. Their outcomes are constants (`Violating`,
  `BadArguments`, `Compiles`, `RegexMatches`).
- Generated examples: any value of the schema, so one value is as good as another.
- The comparison of two responses by the drift check: a function of the two whose
  outcome is a choice.
- Reading requests (GET, list, `View`) change nothing.
- A body that cannot be parsed or an OpenAPI contract that does not validate ends
  the request before any state changes.
- A killed process is modelled, a machine that loses power is not: the code does
  not sync its files, and what a file system keeps is not in this repository.
- A state store with an empty directory, used by tests, never writes a file.
- Deleting a project leaves its resources in the state store; ids of projects are
  random and are not used again, so they are unreachable, not wrong.
- Texts: messages, headers, formats, the first changes an alert quotes.
- The `diff` command's exit codes are modelled, but no property is about them: it
  would restate a branch of the code. The jitter and the status that an MCP call
  draws are one value each (`Draws`), since no property depends on them.
- `Torn` stands for any mixture of two strings. In Go the mixture of a string
  and the empty one is the empty one or a panic that ends the request; the model
  also lets such a request go on, which only adds behaviours.

## 6. What could follow

A refinement for ProjectSettings: a one-writer record of settings, of which a patch
that nothing overlaps is one step.

Theorems: that templates which pass the check render as JSON, with the scanner as a
recursive function.

Models: the comparison of the drift check as an operator, and the background
posts of the notifier with `Wait`.
