---------------------------- MODULE ContractTools ----------------------------
(***************************************************************************)
(* The tools that read contracts: the comparison of two versions           *)
(* (usecase/contract_service.go Diff, behind GET .../diff), the command    *)
(* "openapi-mocker diff" (cmd/server/diff.go), and the code generation     *)
(* agent (agents/code_generation_agent.go, usecase/code_generator.go,      *)
(* adapter/router, behind POST .../codegen/agent).                         *)
(*                                                                         *)
(* A task is one use of a tool, with its input: [tool, versions, from, to] *)
(* of a diff, [tool, args] of the command, [tool, versions, languages] of  *)
(* the agent.  A contract is [format, lines, doc], doc being NoDoc when it *)
(* is not an OpenAPI document.                                             *)
(***************************************************************************)
EXTENDS TextDiff, FiniteSetsExt

CONSTANTS
  Tasks,
  Detected(_, _), \* BreakingChanges of module BreakingChanges: the changes of documents
  NoDoc,      \* of a contract that does not parse as OpenAPI
  Latest,     \* no "to" version is given
  Files,      \* [file arguments -> contracts, or Unreadable]
  Unreadable,
  Languages   \* allLanguages: each has a native adapter

\* A text is a sequence of lines, and languages are asked for in a list.
ASSUME TasksAssumption ==
  \A t \in Tasks :
    /\ t.tool = "diff" =>
         \A v \in DOMAIN t.versions : t.versions[v].lines \in Seq(Range(t.versions[v].lines))
    /\ t.tool = "generate" => t.languages \in Seq(Range(t.languages))

VARIABLES
  task,   \* what is asked for
  at,     \* how far the task is
  out     \* what has been answered

vars == <<task, at, out>>

Answer(o) == at' = "done" /\ out' = o /\ UNCHANGED task
-----------------------------------------------------------------------------
(* GET .../diff                                                              *)

\* Nothing for formats other than OpenAPI.
Changes(from, to) ==
  IF from.format = "openapi" /\ to.format = "openapi"
  THEN Detected(from.doc, to.doc) ELSE {{}}

VersionNumber(n) == IF n = Latest THEN Len(task.versions) ELSE n

Diff ==
  LET from == task.from
      to == VersionNumber(task.to)
      have == DOMAIN task.versions
  IN /\ at = "start" /\ task.tool = "diff"
     /\ IF {from, to} \subseteq have
        THEN \E changes \in Changes(task.versions[from], task.versions[to]) :
               Answer([status |-> 200, changes |-> changes,
                       lines |-> DiffLines(task.versions[from].lines, task.versions[to].lines)])
        ELSE Answer([status |-> 404])
-----------------------------------------------------------------------------
(* The command.  Arguments that are not in Files are flags.                  *)

NoOptions == [files |-> <<>>, fail |-> FALSE, format |-> "text", stop |-> "", valueNext |-> FALSE]

ApplyDiffFlag(o, flag) ==
  CASE flag = "--fail-on-breaking" -> [o EXCEPT !.fail = TRUE]
    [] flag = "--format" -> [o EXCEPT !.valueNext = TRUE]
    [] flag \in {"-h", "--help"} -> [o EXCEPT !.stop = "help"]
    [] flag = "--format=json" -> [o EXCEPT !.format = "json"]
    [] flag = "--format=xml" -> [o EXCEPT !.format = "xml"]
    [] OTHER -> [o EXCEPT !.stop = "usage"]

\* The first flag that ends the command wins.
ParseDiffArg(o, arg) ==
  CASE o.stop # "" -> o
    [] o.stop = "" /\ o.valueNext -> [o EXCEPT !.format = arg, !.valueNext = FALSE]
    [] o.stop = "" /\ ~ o.valueNext /\ arg \in DOMAIN Files -> [o EXCEPT !.files = Append(@, arg)]
    [] OTHER -> ApplyDiffFlag(o, arg)

ParseDiffArgs(args) ==
  LET o == FoldLeft(ParseDiffArg, NoOptions, args)
      bad == o.valueNext \/ o.format \notin {"text", "json"} \/ Len(o.files) # 2
  IN IF o.stop = "" /\ bad THEN [o EXCEPT !.stop = "usage"] ELSE o

CountBreaking(changes) == Cardinality({c \in changes : c.severity = "breaking"})

ExitOK == 0
ExitBreaking == 1
ExitUsage == 2

Exit(code) == Answer([status |-> code, changes |-> {}])

RunDiff ==
  LET o == ParseDiffArgs(task.args)
      old == Files[o.files[1]]
      new == Files[o.files[2]]
  IN /\ at = "start" /\ task.tool = "command"
     /\ CASE o.stop = "help" -> Exit(ExitOK)
          [] o.stop = "usage" -> Exit(ExitUsage)
          [] OTHER ->
               IF Unreadable \in {old, new} THEN Exit(ExitUsage)
               ELSE IF NoDoc \in {old.doc, new.doc} THEN Exit(ExitUsage)
               ELSE \E changes \in Detected(old.doc, new.doc) :
                      Answer([status |-> IF o.fail /\ CountBreaking(changes) > 0
                                         THEN ExitBreaking ELSE ExitOK,
                              changes |-> changes])
-----------------------------------------------------------------------------
(* The code generation agent                                                 *)

Adapters(lang) == IF lang \in Languages THEN <<"native", "openapi", "cicd">> ELSE <<>>

\* Every rule of the router is for a native adapter; the strategy that was asked
\* for is not looked at.
SelectStrategy(lang) == IF lang \in Languages THEN "native" ELSE "openapi"

SelectAdapter(lang) ==
  LET fit == SelectSeq(Adapters(lang), LAMBDA a : a = SelectStrategy(lang))
  IN CASE Adapters(lang) = <<>> -> "openapi"
       [] Adapters(lang) # <<>> -> IF fit # <<>> THEN fit[1] ELSE Adapters(lang)[1]

\* The files an adapter generates, or failed: a native one parses the contract, the
\* fallback knows the same languages.
Generated(adapter, lang, contract) ==
  [failed |-> contract.doc = NoDoc \/ (adapter = "openapi" /\ lang \notin Languages),
   lang |-> lang, files |-> {"server", "client"}]

NotLoaded == task.versions = <<>>

\* The contract is loaded, and one request is planned for each language.
Plan ==
  /\ at = "start" /\ task.tool = "generate"
  /\ IF NotLoaded \/ task.languages = <<>> THEN Answer([status |-> 422])
     ELSE /\ at' = "generating"
          /\ out' = [requests |-> task.languages, results |-> <<>>, errs |-> <<>>]
          /\ UNCHANGED task

StopAtFailure(requests) == <<>>
Continue(requests) == Tail(requests)

\* The next language.  A failure is noted, and the others still have their turn.
Generate ==
  LET lang == Head(out.requests)
      active == task.versions[Len(task.versions)]
      result == Generated(SelectAdapter(lang), lang, active)
      bad == result.failed \/ result.files = {}
  IN /\ at = "generating" /\ out.requests # <<>>
     /\ out' = IF bad
               THEN [out EXCEPT !.requests = Continue(out.requests),
                                !.errs = Append(out.errs, lang)]
               ELSE [out EXCEPT !.requests = Tail(out.requests),
                                !.results = Append(out.results, result)]
     /\ UNCHANGED <<task, at>>

Entries(result) == {<<result.lang, f>> : f \in result.files}

\* An archive of what succeeded, whose manifest tells of what did not; no archive
\* when nothing did.
Respond ==
  /\ at = "generating" /\ out.requests = <<>>
  /\ IF out.results = <<>> THEN Answer([status |-> 422, error |-> out.errs])
     ELSE Answer([status |-> 200, archive |-> UNION {Entries(r) : r \in Range(out.results)},
                  manifest |-> [i \in DOMAIN out.results |-> out.results[i].lang],
                  error |-> out.errs])
-----------------------------------------------------------------------------
Init == task \in Tasks /\ at = "start" /\ out = <<>>

Next == Diff \/ RunDiff \/ Plan \/ Generate \/ Respond

Spec == Init /\ [][Next]_vars
-----------------------------------------------------------------------------
(* What the tools promise                                                     *)

\* The versions a finished comparison is of.
Compared ==
  IF at # "done" \/ task.tool # "diff" \/ out.status # 200 THEN {}
  ELSE {<<task.versions[task.from], task.versions[VersionNumber(task.to)]>>}

\* The diff rebuilds both texts, and keeps as many lines as two texts can share: no
\* way to match equal lines in their order has more ("classic
\* longest-common-subsequence", diff.go), unless the texts are too long to be
\* compared.
DiffReplays ==
  \A p \in Compared :
    LET a == p[1].lines
        b == p[2].lines
    IN /\ Side(out.lines, {"same", "removed"}) = a
       /\ Side(out.lines, {"same", "added"}) = b
       /\ Len(a) * Len(b) <= MaxDiffCells =>
            \A M \in Matchings(a, b) : Cardinality(M) <= Len(Side(out.lines, {"same"}))

\* Every language that was asked for is in the archive and its manifest, or in the
\* error that goes with them, as often as it was asked for; the archive holds files
\* of exactly the languages in its manifest.
LanguagesAccountedFor ==
  at = "done" /\ task.tool = "generate" /\ task.versions # <<>> /\ task.languages # <<>> =>
    LET done == IF out.status = 200 THEN out.manifest ELSE <<>>
        count(s, lang) == Cardinality({i \in DOMAIN s : s[i] = lang})
    IN /\ \A lang \in Range(task.languages) :
            count(done, lang) + count(out.error, lang) = count(task.languages, lang)
       /\ out.status = 200 => {e[1] : e \in out.archive} = Range(done)
       /\ out.status = 422 <=> done = <<>>
=============================================================================
