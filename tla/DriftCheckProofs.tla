--------------------------- MODULE DriftCheckProofs ---------------------------
(***************************************************************************)
(* Theorems about DriftCheck, for every number of requests, projects and   *)
(* slots.  Each of the two counters of the code is the size of a set of    *)
(* requests; the proofs follow that set through every step.                *)
(***************************************************************************)
EXTENDS DriftCheck, SublistProofs, FiniteSetTheorems

HandlerStep == {"new", "served", "starting", "finishing", "answered"}
CheckStep ==
  {"none", "started", "asking", "live", "failed", "reported", "reported failure",
   "released", "done"}

TypeOK ==
  /\ hpc \in [Request -> HandlerStep]
  /\ gpc \in [Request -> CheckStep]
  /\ driftSem \in Nat /\ driftWG \in Nat
  /\ due \subseteq Request
  /\ waiter \in {"idle", "waiting", "returned"}

\* A check begins when its handler has started it, and not before.
NoneBeforeStart ==
  \A r \in Request : hpc[r] \in {"new", "served", "starting"} => gpc[r] = "none"

\* The checks driftWG counts: from driftWG.Add to driftWG.Done.
Counted(r) == gpc[r] \notin {"none", "done"}

Holders == {r \in Request : HoldsSlot(r)}
Running == {r \in Request : Counted(r)}

SlotsInv ==
  /\ IsFiniteSet(Holders) /\ driftSem = Cardinality(Holders) /\ driftSem <= Slots

CountInv == IsFiniteSet(Running) /\ driftWG = Cardinality(Running)

\* WaitDrift waits for checks that have begun.
DueBegun == \A r \in due : gpc[r] # "none"

DriftInv ==
  /\ TypeOK /\ NoneBeforeStart /\ SlotsInv /\ CountInv
  /\ DueBegun /\ WaitSeesReports

LEMMA InitDrift == Init => DriftInv
<1> SUFFICES ASSUME Init PROVE DriftInv
  OBVIOUS
<1>1. TypeOK /\ NoneBeforeStart /\ DueBegun /\ WaitSeesReports
  BY DEF Init, TypeOK, NoneBeforeStart, DueBegun, WaitSeesReports, HandlerStep, CheckStep
<1>2. Holders = {} /\ Running = {}
  BY DEF Init, Holders, HoldsSlot, Running, Counted
<1>3. SlotsInv /\ CountInv
  BY <1>2, FS_EmptySet, LimitAssumption DEF Init, SlotsInv, CountInv
<1> QED
  BY <1>1, <1>3 DEF DriftInv

\* A step that takes no slot and gives none back.
LEMMA SameSlots ==
  ASSUME SlotsInv, driftSem' = driftSem, \A r \in Request : HoldsSlot(r)' <=> HoldsSlot(r)
  PROVE  SlotsInv'
<1>1. Holders' = Holders
  BY DEF Holders
<1> QED
  BY <1>1 DEF SlotsInv

LEMMA SameCount ==
  ASSUME CountInv, driftWG' = driftWG, \A r \in Request : Counted(r)' <=> Counted(r)
  PROVE  CountInv'
<1>1. Running' = Running
  BY DEF Running
<1> QED
  BY <1>1 DEF CountInv

\* What a step of one handler or check leaves alone.
LEMMA OneMoves ==
  ASSUME TypeOK, NEW r \in Request, Handle(r) \/ Check(r)
  PROVE  /\ \A s \in Request \ {r} : hpc'[s] = hpc[s] /\ gpc'[s] = gpc[s]
         /\ waiter' = waiter /\ due' = due
BY DEF TypeOK, Handle, Check, Serve, NotChecked, TakeSlot, SkipWithoutSlot, StartCheck, Answer,
       Run, Asked, Report, ReleaseSlot, Done, HandlerTo, CheckTo, wait

LEMMA StepTypes ==
  ASSUME TypeOK, NEW r \in Request, Handle(r) \/ Check(r)
  PROVE  hpc' \in [Request -> HandlerStep] /\ gpc' \in [Request -> CheckStep]
<1>1. ASSUME NEW step \in HandlerStep, HandlerTo(r, step)
      PROVE  hpc' \in [Request -> HandlerStep]
  BY <1>1 DEF HandlerTo, TypeOK
<1>2. ASSUME NEW step \in CheckStep, CheckTo(r, step)
      PROVE  gpc' \in [Request -> CheckStep]
  BY <1>2 DEF CheckTo, TypeOK
<1>3. (\E step \in HandlerStep : HandlerTo(r, step)) \/ hpc' = hpc
  BY DEF HandlerStep, Handle, Check, Serve, NotChecked, TakeSlot, SkipWithoutSlot, StartCheck,
         Answer, Run, Asked, Report, ReleaseSlot, Done
<1>4. (\E step \in CheckStep : CheckTo(r, step)) \/ gpc' = gpc
  BY DEF CheckStep, Handle, Check, Serve, NotChecked, TakeSlot, SkipWithoutSlot, StartCheck,
         Answer, Run, Asked, Report, ReleaseSlot, Done
<1> QED
  BY <1>1, <1>2, <1>3, <1>4 DEF TypeOK

LEMMA Counts == Adds("run") = 0 /\ Adds("go") = 1
BY DEF Adds

LEMMA TakeSlots ==
  ASSUME TypeOK, NoneBeforeStart, SlotsInv, NEW r \in Request, TakeSlot(r)
  PROVE  SlotsInv'
<1>1. hpc[r] = "served" /\ gpc[r] = "none" /\ hpc'[r] = "starting" /\ gpc' = gpc
  BY DEF TakeSlot, Wanted, HandlerTo, NoneBeforeStart, TypeOK
<1>2. \A s \in Request \ {r} : hpc'[s] = hpc[s]
  BY DEF TakeSlot, HandlerTo, TypeOK
<1>3. Holders' = Holders \cup {r} /\ r \notin Holders
  BY <1>1, <1>2 DEF Holders, HoldsSlot
<1>4. IsFiniteSet(Holders') /\ Cardinality(Holders') = Cardinality(Holders) + 1
  BY <1>3, FS_AddElement DEF SlotsInv
<1>5. driftSem' = driftSem + 1 /\ driftSem' <= Slots
  BY LimitAssumption DEF TakeSlot, HasSlot, TypeOK
<1> QED
  BY <1>4, <1>5 DEF SlotsInv

LEMMA ReleaseSlots ==
  ASSUME TypeOK, NoneBeforeStart, SlotsInv, NEW r \in Request, ReleaseSlot(r)
  PROVE  SlotsInv' /\ driftSem' \in Nat
<1>1. gpc[r] \in {"reported", "reported failure"} /\ gpc'[r] = "released" /\ hpc' = hpc
  BY DEF ReleaseSlot, CheckTo, TypeOK
<1>2. \A s \in Request \ {r} : gpc'[s] = gpc[s]
  BY DEF ReleaseSlot, CheckTo, TypeOK
<1>3. Holders' = Holders \ {r} /\ r \in Holders
  BY <1>1, <1>2 DEF Holders, HoldsSlot, NoneBeforeStart
<1>4. IsFiniteSet(Holders') /\ Cardinality(Holders') = Cardinality(Holders) - 1
  BY <1>3, FS_RemoveElement DEF SlotsInv
<1>5. driftSem' = driftSem - 1 /\ Cardinality(Holders') \in Nat
  BY <1>4, FS_CardinalityType DEF ReleaseSlot, Released
<1> QED
  BY <1>4, <1>5, LimitAssumption DEF SlotsInv, TypeOK

LEMMA StartCounts ==
  ASSUME TypeOK, NoneBeforeStart, CountInv, NEW r \in Request, StartCheck(r)
  PROVE  CountInv'
<1>1. gpc[r] = "none" /\ gpc'[r] = "started" /\ \A s \in Request \ {r} : gpc'[s] = gpc[s]
  BY DEF StartCheck, CheckTo, NoneBeforeStart, TypeOK
<1>2. Running' = Running \cup {r} /\ r \notin Running
  BY <1>1 DEF Running, Counted
<1>3. IsFiniteSet(Running') /\ Cardinality(Running') = Cardinality(Running) + 1
  BY <1>2, FS_AddElement DEF CountInv
<1> QED
  BY <1>3 DEF StartCheck, Adds, CountInv

LEMMA DoneCounts ==
  ASSUME TypeOK, CountInv, NEW r \in Request, Done(r)
  PROVE  CountInv' /\ driftWG' \in Nat
<1>1. gpc[r] = "released" /\ gpc'[r] = "done" /\ \A s \in Request \ {r} : gpc'[s] = gpc[s]
  BY DEF Done, CheckTo, TypeOK
<1>2. Running' = Running \ {r} /\ r \in Running
  BY <1>1 DEF Running, Counted
<1>3. IsFiniteSet(Running') /\ Cardinality(Running') = Cardinality(Running) - 1
  BY <1>2, FS_RemoveElement DEF CountInv
<1>4. driftWG' = Cardinality(Running') /\ Cardinality(Running') \in Nat
  BY <1>3, FS_CardinalityType DEF Done, CountInv
<1> QED
  BY <1>3, <1>4 DEF CountInv

\* A check only goes forward.
Forward(r) ==
  /\ gpc[r] # "none" => gpc'[r] # "none"
  /\ gpc[r] \in Reported => gpc'[r] \in Reported

LEMMA DueStays ==
  ASSUME DueBegun, WaitSeesReports, TypeOK, waiter' = waiter, due' = due,
         \A r \in Request : Forward(r)
  PROVE  DueBegun' /\ WaitSeesReports'
BY DEF DueBegun, WaitSeesReports, TypeOK, Forward

\* A handler's or a check's step, other than the four that move a counter.
LEMMA PlainStep ==
  ASSUME TypeOK, NoneBeforeStart, SlotsInv, CountInv, DueBegun, WaitSeesReports,
         NEW r \in Request,
         \/ Serve(r) \/ NotChecked(r) \/ SkipWithoutSlot(r) \/ Answer(r)
         \/ Run(r) \/ Asked(r) \/ Report(r)
  PROVE  DriftInv'
<1>1. /\ \A s \in Request \ {r} : hpc'[s] = hpc[s] /\ gpc'[s] = gpc[s]
      /\ waiter' = waiter /\ due' = due
  BY OneMoves DEF Handle, Check
<1>2. waiter' = waiter /\ due' = due /\ driftSem' = driftSem /\ driftWG' = driftWG
  <2>1. CASE Run(r)
    BY <1>1, <2>1, Counts DEF Run, TypeOK
  <2>2. CASE ~Run(r)
    BY <1>1, <2>2 DEF Serve, NotChecked, SkipWithoutSlot, Answer, Asked, Report
  <2> QED
    BY <2>1, <2>2
<1>3. TypeOK'
  BY <1>2, StepTypes DEF TypeOK, Handle, Check
<1> USE DEF HandlerTo, CheckTo, HandlerStep, CheckStep
<1>4. CASE Serve(r) \/ NotChecked(r) \/ SkipWithoutSlot(r) \/ Answer(r)
  <2>1. /\ gpc' = gpc
        /\ \/ hpc[r] \in {"new", "served"} /\ hpc'[r] \in {"served", "finishing"}
           \/ hpc[r] = "finishing" /\ hpc'[r] = "answered"
    BY <1>4 DEF Serve, NotChecked, SkipWithoutSlot, Answer, Wanted, TypeOK
  <2>2. NoneBeforeStart'
    BY <1>1, <2>1 DEF NoneBeforeStart
  <2>3. \A s \in Request : HoldsSlot(s)' <=> HoldsSlot(s)
    BY <1>1, <2>1 DEF HoldsSlot
  <2>4. \A s \in Request : (Counted(s)' <=> Counted(s)) /\ Forward(s)
    BY <2>1 DEF Counted, Forward
  <2> QED
    BY <1>3, <1>2, <2>2, <2>3, <2>4, SameSlots, SameCount, DueStays DEF DriftInv
<1>5. CASE Run(r) \/ Asked(r) \/ Report(r)
  <2>1. /\ hpc' = hpc
        /\ \/ gpc[r] = "started" /\ gpc'[r] = "asking"
           \/ gpc[r] = "asking" /\ gpc'[r] \in {"live", "failed"}
           \/ gpc[r] \in {"live", "failed"} /\ gpc'[r] \in {"reported", "reported failure"}
    BY <1>5 DEF Run, Asked, Report, TypeOK
  <2>2. NoneBeforeStart'
    BY <1>1, <2>1 DEF NoneBeforeStart
  <2>3. \A s \in Request : HoldsSlot(s)' <=> HoldsSlot(s)
    BY <1>1, <2>1 DEF HoldsSlot
  <2>4. \A s \in Request : (Counted(s)' <=> Counted(s)) /\ Forward(s)
    BY <1>1, <2>1 DEF Counted, Forward, Reported
  <2> QED
    BY <1>3, <1>2, <2>2, <2>3, <2>4, SameSlots, SameCount, DueStays DEF DriftInv
<1> QED
  BY <1>4, <1>5

LEMMA NextDrift == DriftInv /\ [Next]_vars => DriftInv'
<1> SUFFICES ASSUME DriftInv, [Next]_vars PROVE DriftInv'
  OBVIOUS
<1>a. TypeOK /\ NoneBeforeStart /\ SlotsInv /\ CountInv /\ DueBegun /\ WaitSeesReports
  BY DEF DriftInv
<1> USE DEF HandlerTo, CheckTo
<1>1. ASSUME NEW r \in Request, TakeSlot(r) PROVE DriftInv'
  <2>0. driftSem' \in Nat
    BY <1>1, <1>a DEF TakeSlot, TypeOK
  <2>1. TypeOK' /\ NoneBeforeStart'
    <3>1. TypeOK'
      BY <1>1, <1>a, <2>0, StepTypes, OneMoves DEF TakeSlot, TypeOK, Handle
    <3>2. NoneBeforeStart'
      BY <1>1, <1>a DEF TakeSlot, Wanted, TypeOK, NoneBeforeStart
    <3> QED
      BY <3>1, <3>2
  <2>2. gpc' = gpc /\ driftWG' = driftWG /\ waiter' = waiter /\ due' = due
    BY <1>1 DEF TakeSlot, wait
  <2>3. \A s \in Request : (Counted(s)' <=> Counted(s)) /\ Forward(s)
    BY <2>2 DEF Counted, Forward
  <2> QED
    BY <1>1, <1>a, <2>1, <2>2, <2>3, TakeSlots, SameCount, DueStays DEF DriftInv
<1>2. ASSUME NEW r \in Request, StartCheck(r) PROVE DriftInv'
  <2>1. TypeOK'
    <3>1. driftWG' \in Nat
      BY <1>2, <1>a, Counts DEF StartCheck, TypeOK
    <3> QED
      BY <1>2, <1>a, <3>1, StepTypes, OneMoves DEF StartCheck, TypeOK, Handle
  <2>2. \A s \in Request \ {r} : hpc'[s] = hpc[s] /\ gpc'[s] = gpc[s]
    BY <1>2, <1>a, OneMoves DEF Handle
  <2>3. /\ hpc[r] = "starting" /\ gpc[r] = "none" /\ hpc'[r] = "finishing" /\ gpc'[r] = "started"
        /\ driftSem' = driftSem /\ waiter' = waiter /\ due' = due
    BY <1>2, <1>a DEF StartCheck, TypeOK, NoneBeforeStart, wait
  <2>4. NoneBeforeStart'
    BY <1>a, <2>2, <2>3 DEF NoneBeforeStart
  <2>5. \A s \in Request : (HoldsSlot(s)' <=> HoldsSlot(s)) /\ Forward(s)
    BY <2>2, <2>3 DEF HoldsSlot, Forward, Reported
  <2> QED
    BY <1>2, <1>a, <2>1, <2>3, <2>4, <2>5, StartCounts, SameSlots, DueStays DEF DriftInv
<1>3. ASSUME NEW r \in Request, ReleaseSlot(r) PROVE DriftInv'
  <2>1. SlotsInv' /\ driftSem' \in Nat
    BY <1>3, <1>a, ReleaseSlots
  <2>2. TypeOK'
    BY <1>3, <1>a, <2>1, StepTypes, OneMoves DEF ReleaseSlot, TypeOK, Check
  <2>3. \A s \in Request \ {r} : hpc'[s] = hpc[s] /\ gpc'[s] = gpc[s]
    BY <1>3, <1>a, OneMoves DEF Check
  <2>4. /\ gpc[r] \in {"reported", "reported failure"} /\ gpc'[r] = "released" /\ hpc' = hpc
        /\ driftWG' = driftWG /\ waiter' = waiter /\ due' = due
    BY <1>3, <1>a DEF ReleaseSlot, TypeOK, wait
  <2>5. NoneBeforeStart'
    BY <1>a, <2>3, <2>4 DEF NoneBeforeStart
  <2>6. \A s \in Request : (Counted(s)' <=> Counted(s)) /\ Forward(s)
    BY <2>3, <2>4 DEF Counted, Forward, Reported
  <2> QED
    BY <1>a, <2>1, <2>2, <2>4, <2>5, <2>6, SameCount, DueStays DEF DriftInv
<1>4. ASSUME NEW r \in Request, Done(r) PROVE DriftInv'
  <2>1. CountInv' /\ driftWG' \in Nat
    BY <1>4, <1>a, DoneCounts
  <2>2. TypeOK'
    BY <1>4, <1>a, <2>1, StepTypes, OneMoves DEF Done, TypeOK, Check
  <2>3. \A s \in Request \ {r} : hpc'[s] = hpc[s] /\ gpc'[s] = gpc[s]
    BY <1>4, <1>a, OneMoves DEF Check
  <2>4. /\ gpc[r] = "released" /\ gpc'[r] = "done" /\ hpc' = hpc
        /\ driftSem' = driftSem /\ waiter' = waiter /\ due' = due
    BY <1>4, <1>a DEF Done, TypeOK, wait
  <2>5. NoneBeforeStart'
    BY <1>a, <2>3, <2>4 DEF NoneBeforeStart
  <2>6. \A s \in Request : (HoldsSlot(s)' <=> HoldsSlot(s)) /\ Forward(s)
    BY <2>3, <2>4 DEF HoldsSlot, Forward, Reported
  <2> QED
    BY <1>a, <2>1, <2>2, <2>4, <2>5, <2>6, SameSlots, DueStays DEF DriftInv
<1>5. ASSUME UNCHANGED checks,
             \/ UNCHANGED wait \/ Wait \/ Waited
      PROVE  DriftInv'
  <2>1. /\ hpc' = hpc /\ gpc' = gpc /\ driftSem' = driftSem /\ driftWG' = driftWG
    BY <1>5 DEF checks
  <2>2. \A s \in Request : /\ HoldsSlot(s)' <=> HoldsSlot(s)
                           /\ Counted(s)' <=> Counted(s)
    BY <2>1 DEF HoldsSlot, Counted
  <2>3. TypeOK' /\ NoneBeforeStart' /\ SlotsInv' /\ CountInv'
    BY <1>5, <1>a, <2>1, <2>2, SameSlots, SameCount
       DEF TypeOK, NoneBeforeStart, wait, Wait, Waited
  <2>4. DueBegun' /\ WaitSeesReports'
    <3>1. CASE UNCHANGED wait
      BY <1>a, <2>1, <3>1 DEF wait, DueBegun, WaitSeesReports
    <3>2. CASE Wait
      BY <2>1, <3>2 DEF Wait, DueBegun, WaitSeesReports
    <3>3. CASE Waited
      <4>1. Running = {}
        BY <1>a, <3>3, FS_EmptySet DEF Waited, CountInv
      <4>2. \A r \in due : gpc[r] = "done"
        BY <1>a, <4>1 DEF Running, Counted, DueBegun, TypeOK
      <4>3. due' = due
        BY <3>3 DEF Waited
      <4> QED
        BY <2>1, <4>2, <4>3 DEF DueBegun, WaitSeesReports, Reported
    <3> QED
      BY <1>5, <3>1, <3>2, <3>3
  <2> QED
    BY <2>3, <2>4 DEF DriftInv
<1>6. ASSUME NEW r \in Request, Handle(r) \/ Check(r) PROVE DriftInv'
  BY <1>1, <1>2, <1>3, <1>4, <1>6, <1>a, PlainStep DEF Handle, Check
<1>7. ASSUME NEW p \in Project, Clear(p) \/ Delete(p) \/ Toggle(p) PROVE DriftInv'
  BY <1>5, <1>7 DEF Clear, Delete, Toggle
<1>8. CASE UNCHANGED vars
  BY <1>5, <1>8 DEF vars
<1>9. CASE Wait \/ Waited
  BY <1>5, <1>9 DEF Wait, Waited
<1> QED
  BY <1>6, <1>7, <1>8, <1>9 DEF Next

LEMMA DriftInvariant == Spec => []DriftInv
BY InitDrift, NextDrift, PTL DEF Spec

\* However many requests are served and however their checks interleave, at
\* most Slots checks run at once, and every slot taken is held by one of them.
THEOREM ChecksAreBounded == Spec => []ChecksBounded
<1>1. DriftInv => ChecksBounded
  BY DEF DriftInv, SlotsInv, ChecksBounded, Holders
<1> QED
  BY <1>1, DriftInvariant, PTL

\* When WaitDrift returns, every check of a request answered before the call
\* has added its report.
THEOREM WaitIsForReports == Spec => []WaitSeesReports
<1>1. DriftInv => WaitSeesReports
  BY DEF DriftInv
<1> QED
  BY <1>1, DriftInvariant, PTL

-----------------------------------------------------------------------------
(***************************************************************************)
(* The window of reports: an end of what was added, whatever is cleared.   *)
(***************************************************************************)

\* s is the end of t, element by element.
Ends(s, t) ==
  /\ Len(s) <= Len(t)
  /\ \A i \in 1 .. Len(s) : s[i] = t[Len(t) - Len(s) + i]

LEMMA EndsIsSuffix ==
  ASSUME NEW T, NEW s \in Seq(T), NEW t \in Seq(T), Ends(s, t)
  PROVE  IsSuffix(s, t)
<1> DEFINE rs == Reverse(s)
           rt == Reverse(t)
<1>1. Len(s) \in Nat /\ Len(t) \in Nat /\ Len(s) <= Len(t)
  BY DEF Ends
<1>2. /\ rs \in Seq(T) /\ Len(rs) = Len(s)
      /\ \A i \in 1 .. Len(s) : rs[i] = s[(Len(s) - i) + 1]
  BY <1>1 DEF Reverse
<1>3. /\ rt \in Seq(T) /\ Len(rt) = Len(t)
      /\ \A i \in 1 .. Len(t) : rt[i] = t[(Len(t) - i) + 1]
  BY <1>1 DEF Reverse
<1>4. \A i \in 1 .. Len(s) : rs[i] = rt[i]
  <2> SUFFICES ASSUME NEW i \in 1 .. Len(s) PROVE rs[i] = rt[i]
    OBVIOUS
  <2> HIDE DEF rs, rt
  <2>1. (Len(s) - i) + 1 \in 1 .. Len(s) /\ i \in 1 .. Len(t)
    BY <1>1
  <2>2. s[(Len(s) - i) + 1] = t[Len(t) - Len(s) + ((Len(s) - i) + 1)]
    BY <2>1 DEF Ends
  <2>3. Len(t) - Len(s) + ((Len(s) - i) + 1) = (Len(t) - i) + 1
    BY <1>1
  <2> QED
    BY <1>2, <1>3, <2>1, <2>2, <2>3
<1> HIDE DEF rs, rt
<1>5. SubSeq(rs, 1, Len(rs)) = SubSeq(rt, 1, Len(rs))
  BY <1>1, <1>2, <1>3, <1>4
<1> QED
  BY <1>1, <1>2, <1>3, <1>5 DEF IsSuffix, IsPrefix, rs, rt

LEMMA EndsOfEnds ==
  ASSUME NEW T, NEW s \in Seq(T), NEW t \in Seq(T), NEW u \in Seq(T), Ends(s, t), Ends(t, u)
  PROVE  Ends(s, u)
<1>1. Len(s) \in Nat /\ Len(t) \in Nat /\ Len(u) \in Nat /\ Len(s) <= Len(t) /\ Len(t) <= Len(u)
  BY DEF Ends
<1>2. ASSUME NEW i \in 1 .. Len(s) PROVE s[i] = u[Len(u) - Len(s) + i]
  <2>1. Len(t) - Len(s) + i \in 1 .. Len(t)
    BY <1>1
  <2>2. s[i] = u[Len(u) - Len(t) + (Len(t) - Len(s) + i)]
    BY <2>1 DEF Ends
  <2>3. Len(u) - Len(t) + (Len(t) - Len(s) + i) = Len(u) - Len(s) + i
    BY <1>1
  <2> QED
    BY <2>2, <2>3
<1> QED
  BY <1>1, <1>2 DEF Ends

LEMMA EndsAreEqual ==
  ASSUME NEW T, NEW s \in Seq(T), NEW t \in Seq(T), NEW u \in Seq(T),
         Ends(s, u), Ends(t, u), Len(s) = Len(t)
  PROVE  s = t
<1>1. \A i \in 1 .. Len(s) : s[i] = t[i]
  BY DEF Ends
<1> QED
  BY <1>1, SeqEqual

LEMMA AppendEnds ==
  ASSUME NEW T, NEW s \in Seq(T), NEW t \in Seq(T), NEW e \in T, Ends(s, t)
  PROVE  Ends(Append(s, e), Append(t, e))
<1> DEFINE se == Append(s, e)
           te == Append(t, e)
<1>1. /\ se \in Seq(T) /\ te \in Seq(T) /\ Len(s) \in Nat /\ Len(t) \in Nat
      /\ Len(se) = Len(s) + 1 /\ Len(te) = Len(t) + 1
      /\ se[Len(s) + 1] = e /\ te[Len(t) + 1] = e
      /\ \A i \in 1 .. Len(s) : se[i] = s[i]
      /\ \A i \in 1 .. Len(t) : te[i] = t[i]
  OBVIOUS
<1> HIDE DEF se, te
<1>2. Len(s) <= Len(t)
  BY DEF Ends
<1>3. ASSUME NEW i \in 1 .. Len(se) PROVE se[i] = te[Len(te) - Len(se) + i]
  <2>1. Len(te) - Len(se) = Len(t) - Len(s)
    BY <1>1
  <2>2. CASE i = Len(s) + 1
    <3>1. Len(te) - Len(se) + i = Len(t) + 1
      BY <1>1, <2>2
    <3> QED
      BY <1>1, <2>2, <3>1
  <2>3. CASE i # Len(s) + 1
    <3>1. i \in 1 .. Len(s) /\ Len(t) - Len(s) + i \in 1 .. Len(t)
      BY <1>1, <1>2, <2>3
    <3>2. s[i] = t[Len(t) - Len(s) + i]
      BY <3>1 DEF Ends
    <3> QED
      BY <1>1, <2>1, <3>1, <3>2
  <2> QED
    BY <2>2, <2>3
<1>4. Len(se) <= Len(te)
  BY <1>1, <1>2
<1>5. Ends(se, te)
  BY <1>3, <1>4 DEF Ends
<1> QED
  BY <1>5 DEF se, te

LEMMA WindowEnds ==
  ASSUME NEW T, NEW s \in Seq(T)
  PROVE  /\ Window(s) \in Seq(T)
         /\ Len(Window(s)) = IF Len(s) > MaxReports THEN MaxReports ELSE Len(s)
         /\ Ends(Window(s), s)
<1>1. Len(s) \in Nat /\ MaxReports \in Nat /\ MaxReports > 0
  BY LimitAssumption
<1>2. CASE Len(s) > MaxReports
  <2> DEFINE w == SubSeq(s, Len(s) - MaxReports + 1, Len(s))
  <2>1. /\ w \in Seq(T) /\ Len(w) = MaxReports
        /\ \A i \in 1 .. MaxReports : w[i] = s[(Len(s) - MaxReports + 1) + i - 1]
    BY <1>1, <1>2
  <2>2. Window(s) = w
    BY <1>2 DEF Window
  <2> HIDE DEF w
  <2>3. Ends(w, s)
    BY <1>1, <1>2, <2>1 DEF Ends
  <2> QED
    BY <1>2, <2>1, <2>2, <2>3
<1>3. CASE ~(Len(s) > MaxReports)
  <2>1. Window(s) = s
    BY <1>3 DEF Window
  <2>2. Ends(s, s)
    BY <1>1 DEF Ends
  <2> QED
    BY <1>3, <2>1, <2>2
<1> QED
  BY <1>2, <1>3

\* Making room report after report leaves what making room once would leave.
LEMMA WindowOfWindow ==
  ASSUME NEW T, NEW s \in Seq(T), NEW e \in T
  PROVE  Window(Append(Window(s), e)) = Window(Append(s, e))
<1> DEFINE w == Window(s)
           we == Append(w, e)
           se == Append(s, e)
<1>1. /\ w \in Seq(T) /\ Len(w) = (IF Len(s) > MaxReports THEN MaxReports ELSE Len(s))
      /\ Ends(w, s)
  BY WindowEnds
<1> HIDE DEF w
<1>2. /\ we \in Seq(T) /\ se \in Seq(T) /\ Len(we) = Len(w) + 1 /\ Len(se) = Len(s) + 1
      /\ Len(s) \in Nat
  BY <1>1
<1>3. Ends(we, se)
  BY <1>1, AppendEnds
<1> HIDE DEF we, se
<1>4. /\ Window(we) \in Seq(T) /\ Window(se) \in Seq(T)
      /\ Ends(Window(we), we) /\ Ends(Window(se), se)
      /\ Len(Window(we)) = IF Len(we) > MaxReports THEN MaxReports ELSE Len(we)
      /\ Len(Window(se)) = IF Len(se) > MaxReports THEN MaxReports ELSE Len(se)
  BY <1>2, WindowEnds
<1>5. Len(Window(we)) = Len(Window(se))
  BY <1>1, <1>2, <1>4, LimitAssumption
<1>6. Ends(Window(we), se)
  BY <1>2, <1>3, <1>4, EndsOfEnds
<1>7. Window(we) = Window(se)
  BY <1>2, <1>4, <1>5, <1>6, EndsAreEqual
<1> QED
  BY <1>7 DEF w, we, se

\* What is left of the end is the end of what is left.
LEMMA OthersEnd ==
  ASSUME NEW s \in Seq(Request), NEW t \in Seq(Request), NEW p, Ends(s, t)
  PROVE  /\ OthersThan(p, s) \in Seq(Request) /\ OthersThan(p, t) \in Seq(Request)
         /\ Len(OthersThan(p, s)) <= Len(s)
         /\ Ends(OthersThan(p, s), OthersThan(p, t))
<1> DEFINE S == {r \in Request : owner[r] # p}
           ks == Kept(s, S)
           kt == Kept(t, S)
           head == KeptOfFirst(t, S)[Len(t) - Len(s)]
<1>0. /\ Len(s) \in Nat /\ Len(t) \in Nat /\ Len(t) - Len(s) \in 0 .. Len(t)
      /\ Len(s) <= Len(t) /\ \A i \in 1 .. Len(s) : s[i] = t[Len(t) - Len(s) + i]
  BY DEF Ends
<1>1. ks = OthersThan(p, s) /\ kt = OthersThan(p, t)
  BY DEF OthersThan
<1>2. Request \cap S = S /\ S \subseteq Request
  OBVIOUS
<1> HIDE DEF S
<1>3. ks \in Seq(S) /\ Len(ks) <= Len(s)
  BY <1>2, KeptType
<1>4. kt \in Seq(S) /\ head \in Seq(S)
  BY <1>0, <1>2, KeptType
<1>5. kt = head \o ks
  BY <1>0, KeptOfSuffix
<1>6. ks \in Seq(Request) /\ kt \in Seq(Request)
  <2> HIDE DEF ks, kt, head
  <2> QED
    BY <1>2, <1>3, <1>4
<1> HIDE DEF ks, kt, head
<1>7. Ends(ks, kt)
  <2>1. /\ Len(head) \in Nat /\ Len(ks) \in Nat /\ Len(kt) = Len(head) + Len(ks)
    BY <1>3, <1>4, <1>5
  <2>2. ASSUME NEW i \in 1 .. Len(ks) PROVE ks[i] = kt[Len(kt) - Len(ks) + i]
    <3>1. Len(kt) - Len(ks) + i = Len(head) + i
      BY <2>1
    <3>2. (head \o ks)[Len(head) + i] = ks[i]
      BY <1>3, <1>4, <2>1
    <3> QED
      BY <1>5, <3>1, <3>2
  <2> QED
    BY <2>1, <2>2 DEF Ends
<1> QED
  BY <1>1, <1>3, <1>6, <1>7

\* KeepsNewest by elements, with the types the steps above need.
NewestInv ==
  /\ drifts \in Seq(Request) /\ added \in Seq(Request)
  /\ Ends(drifts, added)
  /\ Len(drifts) <= MaxReports
  /\ ~cleared => drifts = Window(added)

LEMMA InitNewest == Init => NewestInv
<1> SUFFICES ASSUME Init PROVE NewestInv
  OBVIOUS
<1>1. drifts = <<>> /\ added = <<>>
  BY DEF Init
<1>2. drifts \in Seq(Request) /\ Len(drifts) = 0 /\ Ends(drifts, added)
  BY <1>1 DEF Ends
<1>3. Window(added) = added
  BY <1>1, <1>2, LimitAssumption DEF Window
<1> QED
  BY <1>1, <1>2, <1>3, LimitAssumption DEF NewestInv

LEMMA NextNewest == NewestInv /\ [Next]_vars => NewestInv'
<1> SUFFICES ASSUME NewestInv, [Next]_vars PROVE NewestInv'
  OBVIOUS
<1>1. ASSUME NEW r \in Request, Report(r) PROVE NewestInv'
  <2>1. drifts' = Window(Append(drifts, r)) /\ added' = Append(added, r) /\ cleared' = cleared
    BY <1>1 DEF Report
  <2>2. drifts \in Seq(Request) /\ added \in Seq(Request) /\ Ends(drifts, added)
    BY DEF NewestInv
  <2> DEFINE de == Append(drifts, r)
             ae == Append(added, r)
  <2>3. de \in Seq(Request) /\ ae \in Seq(Request) /\ Ends(de, ae)
    BY <2>2, AppendEnds
  <2>4. ~cleared => Window(de) = Window(ae)
    BY <2>2, WindowOfWindow DEF NewestInv
  <2> HIDE DEF de, ae
  <2>5. /\ Window(de) \in Seq(Request) /\ Ends(Window(de), de)
        /\ Len(Window(de)) = IF Len(de) > MaxReports THEN MaxReports ELSE Len(de)
    BY <2>3, WindowEnds
  <2>6. Ends(Window(de), ae)
    BY <2>3, <2>5, EndsOfEnds
  <2>7. Len(Window(de)) <= MaxReports
    BY <2>3, <2>5, LimitAssumption
  <2>8. drifts' = Window(de) /\ added' = ae
    BY <2>1 DEF de, ae
  <2> QED
    BY <2>1, <2>3, <2>4, <2>5, <2>6, <2>7, <2>8 DEF NewestInv
<1>2. ASSUME NEW p \in Project, Clear(p) \/ Delete(p) PROVE NewestInv'
  <2>1. drifts' = OthersThan(p, drifts) /\ added' = OthersThan(p, added) /\ cleared'
    BY <1>2 DEF Clear, Delete
  <2>2. drifts \in Seq(Request) /\ added \in Seq(Request) /\ Ends(drifts, added)
        /\ Len(drifts) <= MaxReports
    BY DEF NewestInv
  <2>3. /\ drifts' \in Seq(Request) /\ added' \in Seq(Request) /\ Ends(drifts', added')
        /\ Len(drifts') <= Len(drifts)
    BY <2>1, <2>2, OthersEnd
  <2>4. Len(drifts') <= MaxReports
    BY <2>2, <2>3, LimitAssumption
  <2> QED
    BY <2>1, <2>3, <2>4 DEF NewestInv
<1>3. ASSUME UNCHANGED <<drifts, added, cleared>> PROVE NewestInv'
  BY <1>3 DEF NewestInv, Ends, Window
<1>4. ASSUME NEW r \in Request, Handle(r) \/ Check(r), ~Report(r) PROVE NewestInv'
  BY <1>3, <1>4 DEF Handle, Check, Serve, NotChecked, TakeSlot, SkipWithoutSlot, StartCheck,
       Answer, Run, Asked, ReleaseSlot, Done
<1>5. CASE UNCHANGED vars \/ Wait \/ Waited \/ \E p \in Project : Toggle(p)
  BY <1>3, <1>5 DEF vars, Wait, Waited, Toggle
<1> QED
  BY <1>1, <1>2, <1>4, <1>5 DEF Next

\* The store holds the newest reports, at most MaxReports of them: the end of
\* what was added, however the checks interleave and whatever is cleared, and
\* all of it that fits until something is.
THEOREM WindowIsNewest == Spec => []KeepsNewest
<1>1. NewestInv => KeepsNewest
  BY EndsIsSuffix DEF NewestInv, KeepsNewest
<1>2. Spec => []NewestInv
  BY InitNewest, NextNewest, PTL DEF Spec
<1> QED
  BY <1>1, <1>2, PTL
=============================================================================
