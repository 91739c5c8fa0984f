----------------------------- MODULE DriftCheck -----------------------------
(***************************************************************************)
(* Background drift checks (internal/usecase/drift.go) and the window of   *)
(* reports they fill (internal/adapter/repository/jsonstore/store.go).     *)
(*                                                                         *)
(* Each Request is a safe one that the mock answered itself.  Its handler  *)
(* takes a slot of driftSem if there is one, counts the check in driftWG   *)
(* and starts a goroutine, which asks the upstream, adds a report, gives   *)
(* the slot back and counts itself out.  WaitDrift waits for the count.    *)
(*                                                                         *)
(* A report is the request it is about: what it says is left out.          *)
(***************************************************************************)
EXTENDS Naturals, Sequences, FiniteSets, SequencesExt, Sublists

CONSTANTS
  Project, Request,
  Slots,        \* maxParallelDrifts
  MaxReports    \* maxDriftReports

ASSUME LimitAssumption == Slots \in Nat \ {0} /\ MaxReports \in Nat \ {0}

VARIABLES
  live, checked,  \* the projects, and those with driftCheck on
  owner,          \* per request: its project
  hpc, gpc,       \* per request: step of its handler, and of its check
  driftSem,       \* slots taken
  driftWG,        \* checks counted
  drifts,         \* Store.d.Drifts, oldest first
  waiter, due,    \* WaitDrift, and the checks begun by requests answered before it
  added,          \* history: all reports ever added, but for cleared projects
  cleared         \* history: some project's reports were cleared

settings == <<live, checked>>
checks == <<owner, hpc, gpc, driftSem, driftWG>>
wait == <<waiter, due>>
vars == <<settings, checks, drifts, wait, added, cleared>>

HandlerTo(r, step) == hpc' = [hpc EXCEPT ![r] = step]
CheckTo(r, step) == gpc' = [gpc EXCEPT ![r] = step]

-----------------------------------------------------------------------------
(***************************************************************************)
(* The handler: startDrift, and the answer.                                *)
(***************************************************************************)

\* ServeRequest up to the call of startDrift.
Serve(r) ==
  /\ hpc[r] = "new"
  /\ owner[r] \in live
  /\ HandlerTo(r, "served")
  /\ UNCHANGED <<settings, owner, gpc, driftSem, driftWG, drifts, wait, added, cleared>>

\* The project does not want checks, or is gone.
NotChecked(r) ==
  /\ hpc[r] = "served"
  /\ owner[r] \notin checked \cap live
  /\ HandlerTo(r, "finishing")
  /\ UNCHANGED <<settings, owner, gpc, driftSem, driftWG, drifts, wait, added, cleared>>

Wanted(r) == hpc[r] = "served" /\ owner[r] \in checked \cap live

\* select: a slot, or no check.
HasSlotAtLimit == driftSem <= Slots
HasSlot == driftSem < Slots

TakeSlot(r) ==
  /\ Wanted(r)
  /\ HasSlot
  /\ driftSem' = driftSem + 1
  /\ HandlerTo(r, "starting")
  /\ UNCHANGED <<settings, owner, gpc, driftWG, drifts, wait, added, cleared>>

SkipWithoutSlot(r) ==
  /\ Wanted(r)
  /\ ~HasSlot
  /\ HandlerTo(r, "finishing")
  /\ UNCHANGED <<settings, owner, gpc, driftSem, driftWG, drifts, wait, added, cleared>>

\* driftWG.Add happens before the goroutine starts.
AddsWhenRunning(step) == IF step = "run" THEN 1 ELSE 0
Adds(step) == IF step = "go" THEN 1 ELSE 0

StartCheck(r) ==
  /\ hpc[r] = "starting"
  /\ driftWG' = driftWG + Adds("go")
  /\ CheckTo(r, "started")
  /\ HandlerTo(r, "finishing")
  /\ UNCHANGED <<settings, owner, driftSem, drifts, wait, added, cleared>>

\* finish
Answer(r) ==
  /\ hpc[r] = "finishing"
  /\ HandlerTo(r, "answered")
  /\ UNCHANGED <<settings, owner, gpc, driftSem, driftWG, drifts, wait, added, cleared>>

-----------------------------------------------------------------------------
(***************************************************************************)
(* The check.                                                              *)
(***************************************************************************)

Run(r) ==
  /\ gpc[r] = "started"
  /\ driftWG' = driftWG + Adds("run")
  /\ CheckTo(r, "asking")
  /\ UNCHANGED <<settings, owner, hpc, driftSem, drifts, wait, added, cleared>>

\* The upstream answers, fails, or is cut off after driftTimeout.
Asked(r) ==
  \E how \in {"live", "failed"} :
    /\ gpc[r] = "asking"
    /\ CheckTo(r, how)
    /\ UNCHANGED <<settings, owner, hpc, driftSem, driftWG, drifts, wait, added, cleared>>

\* The newest reports.
OldestReports(s) == SubSeq(s, 1, IF Len(s) < MaxReports THEN Len(s) ELSE MaxReports)
Window(s) == IF Len(s) > MaxReports THEN SubSeq(s, Len(s) - MaxReports + 1, Len(s)) ELSE s

\* AddDrift, whether or not the project still exists.
Report(r) ==
  /\ gpc[r] \in {"live", "failed"}
  /\ drifts' = Window(Append(drifts, r))
  /\ added' = Append(added, r)
  /\ CheckTo(r, IF gpc[r] = "live" THEN "reported" ELSE "reported failure")
  /\ UNCHANGED <<settings, owner, hpc, driftSem, driftWG, wait, cleared>>

\* The deferred calls, last one first.
ReleasedOnSuccess(r) == IF gpc[r] = "reported" THEN 1 ELSE 0
Released(r) == 1

ReleaseSlot(r) ==
  /\ gpc[r] \in {"reported", "reported failure"}
  /\ driftSem' = driftSem - Released(r)
  /\ CheckTo(r, "released")
  /\ UNCHANGED <<settings, owner, hpc, driftWG, drifts, wait, added, cleared>>

Done(r) ==
  /\ gpc[r] = "released"
  /\ driftWG' = driftWG - 1
  /\ CheckTo(r, "done")
  /\ UNCHANGED <<settings, owner, hpc, driftSem, drifts, wait, added, cleared>>

-----------------------------------------------------------------------------
(***************************************************************************)
(* WaitDrift, and the administration of the reports.                       *)
(***************************************************************************)

Wait ==
  /\ waiter = "idle"
  /\ waiter' = "waiting"
  /\ due' = {r \in Request : hpc[r] = "answered" /\ gpc[r] # "none"}
  /\ UNCHANGED <<settings, checks, drifts, added, cleared>>

Waited ==
  /\ waiter = "waiting"
  /\ driftWG = 0
  /\ waiter' = "returned"
  /\ UNCHANGED <<due, settings, checks, drifts, added, cleared>>

\* dropDrifts
OthersThan(p, s) == Kept(s, {r \in Request : owner[r] # p})

\* ClearDrift
Clear(p) ==
  /\ drifts' = OthersThan(p, drifts)
  /\ added' = OthersThan(p, added)
  /\ cleared' = TRUE
  /\ UNCHANGED <<settings, checks, wait>>

Delete(p) ==
  /\ p \in live
  /\ live' = live \ {p}
  /\ drifts' = OthersThan(p, drifts)
  /\ added' = OthersThan(p, added)
  /\ cleared' = TRUE
  /\ UNCHANGED <<checked, checks, wait>>

\* SetProxy
Toggle(p) ==
  /\ p \in live
  /\ checked' = IF p \in checked THEN checked \ {p} ELSE checked \cup {p}
  /\ UNCHANGED <<live, checks, drifts, wait, added, cleared>>

Init ==
  /\ live = Project /\ checked = Project
  /\ owner \in [Request -> Project]
  /\ hpc = [r \in Request |-> "new"]
  /\ gpc = [r \in Request |-> "none"]
  /\ driftSem = 0 /\ driftWG = 0
  /\ drifts = <<>> /\ added = <<>>
  /\ waiter = "idle" /\ due = {}
  /\ cleared = FALSE

Handle(r) ==
  \/ Serve(r) \/ NotChecked(r) \/ TakeSlot(r) \/ SkipWithoutSlot(r)
  \/ StartCheck(r) \/ Answer(r)

Check(r) == Run(r) \/ Asked(r) \/ Report(r) \/ ReleaseSlot(r) \/ Done(r)

Next ==
  \/ \E r \in Request : Handle(r) \/ Check(r)
  \/ \E p \in Project : Clear(p) \/ Delete(p) \/ Toggle(p)
  \/ Wait \/ Waited

Spec == Init /\ [][Next]_vars

-----------------------------------------------------------------------------
(***************************************************************************)
(* What the checks must guarantee.                                         *)
(***************************************************************************)

Reported == {"reported", "reported failure", "released", "done"}
HoldsSlot(r) ==
  hpc[r] = "starting" \/ gpc[r] \in {"started", "asking", "live", "failed",
                                     "reported", "reported failure"}

\* However many requests are served, at most Slots checks run at once, and a
\* slot is taken only while one runs.
ChecksBounded ==
  /\ driftSem <= Slots
  /\ driftSem = Cardinality({r \in Request : HoldsSlot(r)})

\* "WaitDrift blocks until the drift checks started so far are done"
\* (drift.go:23): those of every request answered before the call have reported.
WaitSeesReports ==
  waiter = "returned" => \A r \in due : gpc[r] \in Reported

\* The store keeps the newest reports, as many as it has room for: what it has
\* is the end of what was added, and all of it that fits, until a clear makes room.
KeepsNewest ==
  /\ IsSuffix(drifts, added)
  /\ Len(drifts) <= MaxReports
  /\ ~cleared => drifts = Window(added)

-----------------------------------------------------------------------------
(***************************************************************************)
(* Progress.  Handlers and checks that can take a step take it: the        *)
(* upstream call has a timeout.                                            *)
(***************************************************************************)

HandlersRun == \A r \in Request : WF_vars(Handle(r) /\ ~Serve(r))
ChecksRun == \A r \in Request : WF_vars(Check(r))

\* The upstream may never answer, and no timeout come.
HandlersOnlySpec == Spec /\ HandlersRun

\* As long as the checks run, every slot comes back, whatever the upstream does.
SlotsComeBack == ChecksRun => <>[](driftSem = 0)

=============================================================================
