-------------------------- MODULE RecordReplayProofs --------------------------
(***************************************************************************)
(* Theorems about RecordReplay, for any number of handlers, requests,      *)
(* templates, contracts and rules: one rule is saved per request, and what *)
(* is recorded is answered from the recording.                             *)
(***************************************************************************)
EXTENDS RecordReplay, TLAPS

\* The recordings of a request, of some list of rules, and those that record saved.
RecordingsIn(list, r) == {i \in DOMAIN list : RequestOf(list[i]) = r}
SavedIn(list, r) == {i \in RecordingsIn(list, r) : list[i].saved}

AtMostOne(list, r) == \A i, j \in SavedIn(list, r) : i = j

LEMMA RecordingsAreIn == \A r : Recordings(r) = RecordingsIn(rules, r)
BY DEF Recordings, RecordingsIn

\* A rule that is appended is one more recording of its request, and of no other.
LEMMA Appending ==
  ASSUME NEW list \in Seq(Rule), NEW x \in Rule, NEW r
  PROVE  /\ Append(list, x) \in Seq(Rule)
         /\ RecordingsIn(list, r) # {} => RecordingsIn(Append(list, x), r) # {}
         /\ RequestOf(x) = r => RecordingsIn(Append(list, x), r) # {}
         /\ ~(x.saved /\ RequestOf(x) = r) => SavedIn(Append(list, x), r) = SavedIn(list, r)
         /\ SavedIn(list, r) = {} => AtMostOne(Append(list, x), r)
<1> DEFINE longer == Append(list, x)
<1>1. /\ longer \in Seq(Rule) /\ Len(longer) = Len(list) + 1 /\ Len(list) \in Nat
      /\ DOMAIN longer = 1..(Len(list) + 1) /\ DOMAIN list = 1..Len(list)
      /\ \A i \in 1..Len(list) : longer[i] = list[i]
      /\ longer[Len(list) + 1] = x
  OBVIOUS
<1> HIDE DEF longer
<1>2. RecordingsIn(list, r) \subseteq RecordingsIn(longer, r)
  BY <1>1 DEF RecordingsIn
<1>3. RequestOf(x) = r => Len(list) + 1 \in RecordingsIn(longer, r)
  BY <1>1 DEF RecordingsIn
<1>4. SavedIn(longer, r) \subseteq SavedIn(list, r) \cup {Len(list) + 1}
  BY <1>1 DEF SavedIn, RecordingsIn
<1>5. ~(x.saved /\ RequestOf(x) = r) => Len(list) + 1 \notin SavedIn(longer, r)
  BY <1>1 DEF SavedIn, RecordingsIn
<1>6. SavedIn(list, r) \subseteq SavedIn(longer, r)
  BY <1>1 DEF SavedIn, RecordingsIn
<1> QED
  BY <1>1, <1>2, <1>3, <1>4, <1>5, <1>6 DEF longer, AtMostOne

\* The i-th rule is removed: the others keep their order.
Shortened(list, i) == [j \in 1 .. Len(list) - 1 |-> list[IF j < i THEN j ELSE j + 1]]

LEMMA Removing ==
  ASSUME NEW list \in Seq(Rule), NEW i \in DOMAIN list, NEW r
  PROVE  /\ Shortened(list, i) \in Seq(Rule)
         /\ RequestOf(list[i]) # r /\ RecordingsIn(list, r) # {}
              => RecordingsIn(Shortened(list, i), r) # {}
         /\ SavedIn(list, r) = {} => SavedIn(Shortened(list, i), r) = {}
         /\ AtMostOne(list, r) => AtMostOne(Shortened(list, i), r)
<1> DEFINE fewer == Shortened(list, i)
           was(j) == IF j < i THEN j ELSE j + 1
<1>1. /\ Len(list) \in Nat /\ DOMAIN list = 1..Len(list) /\ i \in 1..Len(list)
      /\ \A j \in 1..Len(list) : list[j] \in Rule
  OBVIOUS
<1>2. \A j \in 1..(Len(list) - 1) : was(j) \in 1..Len(list)
  BY <1>1
<1>3. /\ DOMAIN fewer = 1..(Len(list) - 1)
      /\ \A j \in 1..(Len(list) - 1) : fewer[j] = list[was(j)]
  BY DEF Shortened
<1>4. fewer \in Seq(Rule)
  <2>1. fewer \in [1..(Len(list) - 1) -> Rule]
    BY <1>1, <1>2 DEF Shortened
  <2>2. Len(list) - 1 \in Nat
    BY <1>1
  <2> QED
    BY <2>1, <2>2
<1> HIDE DEF fewer
<1>5. \A j \in SavedIn(fewer, r) : j \in 1..(Len(list) - 1) /\ was(j) \in SavedIn(list, r)
  BY <1>1, <1>2, <1>3 DEF SavedIn, RecordingsIn
<1>6. SavedIn(list, r) = {} => SavedIn(fewer, r) = {}
  BY <1>5
<1>7. ASSUME RequestOf(list[i]) # r, RecordingsIn(list, r) # {}
      PROVE  RecordingsIn(fewer, r) # {}
  <2>1. PICK n \in 1..Len(list) : RequestOf(list[n]) = r
    BY <1>1, <1>7 DEF RecordingsIn
  <2>2. n # i
    BY <1>7, <2>1
  <2> DEFINE m == IF n < i THEN n ELSE n - 1
  <2>3. m \in 1..(Len(list) - 1) /\ was(m) = n
    BY <1>1, <2>1, <2>2
  <2>4. fewer[m] = list[n]
    BY <1>3, <2>3
  <2> QED
    BY <1>3, <2>1, <2>3, <2>4 DEF RecordingsIn
<1>8. ASSUME AtMostOne(list, r), NEW a \in SavedIn(fewer, r), NEW b \in SavedIn(fewer, r)
      PROVE  a = b
  <2>1. was(a) = was(b)
    BY <1>5, <1>8 DEF AtMostOne
  <2>2. a \in Nat /\ b \in Nat /\ i \in Nat
    BY <1>1, <1>5
  <2> QED
    BY <2>1, <2>2
<1> QED
  BY <1>4, <1>6, <1>7, <1>8 DEF fewer, AtMostOne

\* The i-th rule is edited: it counts as saved only if it was, and is of the same
\* request as before.
LEMMA Editing ==
  ASSUME NEW list \in Seq(Rule), NEW i \in DOMAIN list, NEW x \in Rule, NEW r,
         x.saved => list[i].saved /\ RequestOf(x) = RequestOf(list[i])
  PROVE  /\ [list EXCEPT ![i] = x] \in Seq(Rule)
         /\ RequestOf(list[i]) # r \/ RequestOf(x) = RequestOf(list[i]) =>
              (RecordingsIn(list, r) # {} => RecordingsIn([list EXCEPT ![i] = x], r) # {})
         /\ SavedIn([list EXCEPT ![i] = x], r) \subseteq SavedIn(list, r)
<1> DEFINE edited == [list EXCEPT ![i] = x]
<1>1. /\ edited \in Seq(Rule) /\ DOMAIN edited = DOMAIN list /\ edited[i] = x
      /\ \A j \in DOMAIN list : j # i => edited[j] = list[j]
  OBVIOUS
<1> HIDE DEF edited
<1>2. \A j \in RecordingsIn(list, r) :
        RequestOf(list[i]) # r \/ RequestOf(x) = RequestOf(list[i]) => j \in RecordingsIn(edited, r)
  BY <1>1 DEF RecordingsIn
<1>3. SavedIn(edited, r) \subseteq SavedIn(list, r)
  BY <1>1 DEF SavedIn, RecordingsIn
<1> QED
  BY <1>1, <1>2, <1>3 DEF edited
-----------------------------------------------------------------------------
\* A handler that is not idle has a request, and the one that has scanned the rules
\* holds recordMu: what record saved is what it saw until it saves its own.
Serving == \A t \in Thread : pc[t] # "idle" => req[t] \in Request
Holds == \A t \in Thread : pc[t] = "scanned" => recordMu = t
StillAbsent ==
  \A t \in Thread : pc[t] = "scanned" /\ ~ found[t] => SavedIn(rules, req[t]) = {}

\* What was recorded is recorded, until it is forgotten.
RecordedKept == \A r \in recorded : RecordingsIn(rules, r) # {}
CoveredRecorded == \A t \in Thread : covered[t] \subseteq recorded

SavedOnce == \A r \in Request : AtMostOne(rules, r)

Inv ==
  /\ TypeOK /\ Serving /\ Holds /\ StillAbsent /\ SavedOnce
  /\ RecordedKept /\ CoveredRecorded /\ AnsweredFromThenOn

LEMMA InitInv == Init => Inv
<1> SUFFICES ASSUME Init PROVE Inv
  OBVIOUS
<1>1. TypeOK
  BY ContractsAssumption DEF Init, TypeOK, Mode
<1>2. Serving /\ Holds /\ StillAbsent /\ RecordedKept /\ CoveredRecorded /\ AnsweredFromThenOn
  BY DEF Init, Serving, Holds, StillAbsent, RecordedKept, CoveredRecorded, AnsweredFromThenOn
<1>3. SavedOnce
  BY DEF Init, SavedOnce, AtMostOne, SavedIn, RecordingsIn
<1> QED
  BY <1>1, <1>2, <1>3 DEF Inv

LEMMA AnswerType ==
  ASSUME TypeOK, NEW t \in Thread, Answer(t)
  PROVE  /\ pc' \in [Thread -> {"idle", "matching", "choosing", "forwarding", "recording", "scanned"}]
         /\ req' \in [Thread -> Request \cup {NoRequest}]
         /\ cfg' \in [Thread -> Mode]
         /\ found' \in [Thread -> BOOLEAN]
         /\ covered' \in [Thread -> SUBSET Request]
BY DEF TypeOK, Answer, Mode

\* Who answers leaves the others where they are.
LEMMA AnswerKeeps ==
  ASSUME Inv, NEW t \in Thread, Answer(t), NEW s \in Thread
  PROVE  IF s = t THEN pc'[s] = "idle" /\ covered'[s] = {}
         ELSE /\ pc'[s] = pc[s] /\ req'[s] = req[s] /\ found'[s] = found[s]
              /\ covered'[s] = covered[s]
BY DEF Inv, TypeOK, Answer

\* The ways of answering that leave the rules alone.
LEMMA AnsweringKeepsInv ==
  ASSUME Inv, NEW t \in Thread, Answer(t), UNCHANGED <<shared, begun, written, recorded>>
  PROVE  Inv'
<1> USE DEF shared
<1>1. TypeOK'
  BY AnswerType DEF Inv, TypeOK
<1>2. Serving' /\ Holds' /\ CoveredRecorded' /\ AnsweredFromThenOn'
  BY AnswerKeeps DEF Inv, Serving, Holds, CoveredRecorded, AnsweredFromThenOn, Upstream
<1>3. StillAbsent'
  BY AnswerKeeps DEF Inv, StillAbsent
<1>4. SavedOnce' /\ RecordedKept'
  BY DEF Inv, SavedOnce, RecordedKept
<1> QED
  BY <1>1, <1>2, <1>3, <1>4 DEF Inv

\* A handler that goes on to its next step, with the rules and what is said of them
\* left alone.
LEMMA MovingKeepsInv ==
  ASSUME Inv, NEW t \in Thread, NEW at \in {"choosing", "forwarding", "recording"},
         pc[t] \in {"matching", "choosing", "forwarding"}, req[t] \notin covered[t],
         pc' = [pc EXCEPT ![t] = at], cfg' \in [Thread -> Mode],
         UNCHANGED <<shared, req, found, begun, written, recorded, covered>>
  PROVE  Inv'
<1> USE DEF shared
<1>1. TypeOK'
  BY DEF Inv, TypeOK
<1>2. \A s \in Thread : pc'[s] = IF s = t THEN at ELSE pc[s]
  BY DEF Inv, TypeOK
<1>3. Serving' /\ Holds' /\ CoveredRecorded' /\ AnsweredFromThenOn'
  BY <1>2 DEF Inv, Serving, Holds, CoveredRecorded, AnsweredFromThenOn
<1>4. StillAbsent' /\ SavedOnce' /\ RecordedKept'
  BY <1>2 DEF Inv, StillAbsent, SavedOnce, RecordedKept
<1> QED
  BY <1>1, <1>3, <1>4 DEF Inv

LEMMA ReceiveInv == ASSUME Inv, NEW t \in Thread, Receive(t) PROVE Inv'
<1> USE DEF shared
<1>1. PICK k \in Key, template \in Template :
        /\ pc[t] = "idle"
        /\ begun' = begun + 1
        /\ pc' = [pc EXCEPT ![t] = "matching"]
        /\ req' = [req EXCEPT ![t] = [key |-> k, template |-> template]]
        /\ covered' = [covered EXCEPT ![t] = {r \in recorded : r.key = k}]
        /\ UNCHANGED <<shared, cfg, found, written, recorded>>
  BY DEF Receive, Inv, TypeOK
<1>2. [key |-> k, template |-> template] \in Request
  BY DEF Request
<1>3. TypeOK'
  BY <1>1, <1>2 DEF Inv, TypeOK
<1>4. \A s \in Thread :
        IF s = t THEN pc'[s] = "matching" /\ req'[s] \in Request /\ covered'[s] \subseteq recorded
        ELSE pc'[s] = pc[s] /\ req'[s] = req[s] /\ covered'[s] = covered[s]
  BY <1>1, <1>2 DEF Inv, TypeOK
<1>5. Serving' /\ Holds' /\ CoveredRecorded'
  BY <1>1, <1>4 DEF Inv, Serving, Holds, CoveredRecorded
<1>6. AnsweredFromThenOn'
  BY <1>4 DEF Inv, AnsweredFromThenOn, Upstream
<1>7. StillAbsent' /\ SavedOnce' /\ RecordedKept'
  BY <1>1, <1>4 DEF Inv, StillAbsent, SavedOnce, RecordedKept
<1> QED
  BY <1>3, <1>5, <1>6, <1>7 DEF Inv

\* Up to the upstream's answer: a request that is recorded finds its recording.
LEMMA MatchingInv ==
  ASSUME Inv, NEW t \in Thread,
         AnswerFromRule(t) \/ NoRuleMatches(t) \/ AnswerWithExample(t) \/ Forward(t)
           \/ PassOn(t) \/ Recordable(t)
  PROVE  Inv'
<1>1. CASE AnswerFromRule(t) \/ AnswerWithExample(t) \/ PassOn(t)
  BY <1>1, AnsweringKeepsInv DEF AnswerFromRule, AnswerWithExample, PassOn
<1>2. CASE NoRuleMatches(t)
  <2>1. req[t] \notin covered[t]
    BY <1>2, RecordingsAreIn DEF NoRuleMatches, Matched, Inv, CoveredRecorded, RecordedKept
  <2>2. cfg' \in [Thread -> Mode]
    BY <1>2 DEF NoRuleMatches, Inv, TypeOK
  <2> QED
    BY <1>2, <2>1, <2>2, MovingKeepsInv DEF NoRuleMatches
<1>3. CASE Forward(t)
  <2>1. req[t] \notin covered[t]
    BY <1>3 DEF Forward, Inv, AnsweredFromThenOn, Upstream
  <2>2. cfg' \in [Thread -> Mode]
    BY <1>3 DEF Forward, Inv, TypeOK
  <2> QED
    BY <1>3, <2>1, <2>2, MovingKeepsInv DEF Forward
<1>4. CASE Recordable(t)
  <2>1. req[t] \notin covered[t]
    BY <1>4 DEF Recordable, Inv, AnsweredFromThenOn, Upstream
  <2>2. cfg' \in [Thread -> Mode]
    BY <1>4 DEF Recordable, Inv, TypeOK
  <2> QED
    BY <1>4, <2>1, <2>2, MovingKeepsInv DEF Recordable
<1> QED
  BY <1>1, <1>2, <1>3, <1>4

\* Only one handler is between its scan and its answer.
LEMMA ScannedAlone ==
  ASSUME Inv, NEW t \in Thread, pc[t] = "scanned" \/ recordMu = NoThread
  PROVE  \A s \in Thread : s # t => pc[s] # "scanned"
BY ThreadAssumption DEF Inv, Holds

LEMMA ScanInv == ASSUME Inv, NEW t \in Thread, Scan(t) PROVE Inv'
<1>1. /\ pc[t] = "recording" /\ recordMu = NoThread /\ recordMu' = t
      /\ found' = [found EXCEPT ![t] = RecordingsIn(rules, req[t]) # {}]
      /\ pc' = [pc EXCEPT ![t] = "scanned"]
      /\ recorded' = IF RecordingsIn(rules, req[t]) # {} THEN recorded \cup {req[t]} ELSE recorded
      /\ UNCHANGED <<rules, contract, live, mode, req, cfg, begun, written, covered>>
  BY RecordingsAreIn DEF Scan, Lock, Seen
<1>2. req[t] \in Request
  BY <1>1 DEF Inv, Serving
<1>3. found' \in [Thread -> BOOLEAN]
  BY <1>1 DEF Inv, TypeOK
<1>4. TypeOK'
  BY <1>1, <1>2, <1>3 DEF Inv, TypeOK
<1>5. \A s \in Thread :
        IF s = t THEN pc'[s] = "scanned" /\ found'[s] = (RecordingsIn(rules, req[t]) # {})
        ELSE pc'[s] = pc[s] /\ pc[s] # "scanned"
  BY <1>1, ScannedAlone DEF Inv, TypeOK
<1>6. req[t] \notin covered[t]
  BY <1>1 DEF Inv, AnsweredFromThenOn, Upstream
<1>7. Serving' /\ Holds' /\ AnsweredFromThenOn'
  BY <1>1, <1>5, <1>6 DEF Inv, Serving, Holds, AnsweredFromThenOn
<1>8. CoveredRecorded'
  BY <1>1 DEF Inv, CoveredRecorded
<1>9. StillAbsent'
  BY <1>1, <1>5 DEF StillAbsent, SavedIn
<1>10. SavedOnce' /\ RecordedKept'
  BY <1>1 DEF Inv, SavedOnce, RecordedKept
<1> QED
  BY <1>4, <1>7, <1>8, <1>9, <1>10 DEF Inv

LEMMA AnswerRecordedInv == ASSUME Inv, NEW t \in Thread, AnswerRecorded(t) PROVE Inv'
<1>1. /\ pc[t] = "scanned" /\ recordMu' = NoThread /\ Answer(t)
      /\ UNCHANGED <<rules, contract, live, mode, begun, written, recorded>>
  BY DEF AnswerRecorded, Unlock
<1>2. TypeOK'
  BY <1>1, AnswerType DEF Inv, TypeOK
<1>3. \A s \in Thread : pc'[s] # "scanned"
  BY <1>1, AnswerKeeps, ScannedAlone
<1>4. Serving' /\ CoveredRecorded' /\ AnsweredFromThenOn'
  BY <1>1, AnswerKeeps DEF Inv, Serving, CoveredRecorded, AnsweredFromThenOn, Upstream
<1>5. Holds' /\ StillAbsent'
  BY <1>3 DEF Holds, StillAbsent
<1>6. SavedOnce' /\ RecordedKept'
  BY <1>1 DEF Inv, SavedOnce, RecordedKept
<1> QED
  BY <1>2, <1>4, <1>5, <1>6 DEF Inv

\* The rule is saved while nobody else can save one: none was saved for its request.
LEMMA SaveRecordingInv == ASSUME Inv, NEW t \in Thread, SaveRecording(t) PROVE Inv'
<1> DEFINE rule == Recording(req[t])
<1>1. /\ pc[t] = "scanned" /\ ~ found[t] /\ recordMu' = NoThread /\ Answer(t)
      /\ rules' = Append(rules, rule) /\ recorded' = recorded \cup {req[t]}
      /\ UNCHANGED <<contract, live, mode, begun, written>>
  BY DEF SaveRecording, Unlock
<1>2. req[t] \in Request /\ SavedIn(rules, req[t]) = {}
  BY <1>1 DEF Inv, Serving, StillAbsent
<1>3. rules \in Seq(Rule) /\ rule \in Rule /\ RequestOf(rule) = req[t]
  BY <1>2 DEF Inv, TypeOK, Rule, Request, Recording, RequestOf
<1> HIDE DEF rule
<1>4. rules' \in Seq(Rule)
  BY <1>1, <1>3, Appending
<1>5. \A r : RecordingsIn(rules, r) # {} => RecordingsIn(rules', r) # {}
  BY <1>1, <1>3, Appending
<1>6. RecordingsIn(rules', req[t]) # {} /\ AtMostOne(rules', req[t])
  BY <1>1, <1>2, <1>3, Appending
<1>7. \A r : r # req[t] => SavedIn(rules', r) = SavedIn(rules, r)
  BY <1>1, <1>3, Appending
<1>8. TypeOK'
  BY <1>1, <1>2, <1>4, AnswerType DEF Inv, TypeOK
<1>9. \A s \in Thread : pc'[s] # "scanned"
  BY <1>1, AnswerKeeps, ScannedAlone
<1>10. Serving' /\ CoveredRecorded' /\ AnsweredFromThenOn'
  BY <1>1, AnswerKeeps DEF Inv, Serving, CoveredRecorded, AnsweredFromThenOn, Upstream
<1>11. Holds' /\ StillAbsent'
  BY <1>9 DEF Holds, StillAbsent
<1>12. SavedOnce'
  BY <1>6, <1>7 DEF Inv, SavedOnce, AtMostOne
<1>13. RecordedKept'
  BY <1>1, <1>5, <1>6 DEF Inv, RecordedKept
<1> QED
  BY <1>8, <1>10, <1>11, <1>12, <1>13 DEF Inv
-----------------------------------------------------------------------------
\* An administrator changes the rules and perhaps the contract and the project, and
\* the recordings of some requests are forgotten: what is left of the invariant is
\* what it says of the rules.
LEMMA AdministeringKeepsInv ==
  ASSUME Inv, NEW requests,
         recorded' = recorded \ requests,
         covered' = [t \in Thread |-> covered[t] \ requests],
         UNCHANGED <<recordMu, local, begun>>,
         rules' \in Seq(Rule), contract' \in [Key -> SUBSET Template],
         live' \in BOOLEAN, mode' \in Mode, written' \in Nat,
         \A r \in recorded' : RecordingsIn(rules', r) # {},
         \A r \in Request : /\ SavedIn(rules, r) = {} => SavedIn(rules', r) = {}
                            /\ AtMostOne(rules, r) => AtMostOne(rules', r)
  PROVE  Inv'
<1> USE DEF local
<1>1. recorded' \subseteq Request /\ covered' \in [Thread -> SUBSET Request]
  BY DEF Inv, TypeOK
<1>2. TypeOK'
  BY <1>1 DEF Inv, TypeOK
<1>3. \A s \in Thread : covered'[s] = covered[s] \ requests
  OBVIOUS
<1>4. Serving' /\ Holds'
  BY DEF Inv, Serving, Holds
<1>5. CoveredRecorded' /\ AnsweredFromThenOn'
  BY <1>3 DEF Inv, CoveredRecorded, AnsweredFromThenOn
<1>6. StillAbsent'
  BY DEF Inv, Serving, StillAbsent
<1>7. SavedOnce' /\ RecordedKept'
  BY DEF Inv, SavedOnce, RecordedKept
<1> QED
  BY <1>2, <1>4, <1>5, <1>6, <1>7 DEF Inv

\* A rule written by hand was not saved by record, whatever its body says.
LEMMA CreateRuleInv == ASSUME Inv, NEW rule \in Body, CreateRule(rule) PROVE Inv'
<1>1. /\ rules' = Append(rules, rule) /\ written' = written + 1
      /\ UNCHANGED <<contract, live, mode, recordMu, local, begun, recorded, covered>>
  BY DEF CreateRule, Write
<1>2. rules \in Seq(Rule) /\ rule \in Rule /\ ~ rule.saved
  BY DEF Inv, TypeOK, Body
<1>3. /\ rules' \in Seq(Rule)
      /\ \A r : RecordingsIn(rules, r) # {} => RecordingsIn(rules', r) # {}
      /\ \A r : SavedIn(rules', r) = SavedIn(rules, r)
  BY <1>1, <1>2, Appending
<1>4. /\ recorded' = recorded \ {} /\ covered' = [t \in Thread |-> covered[t] \ {}]
      /\ contract' \in [Key -> SUBSET Template] /\ live' \in BOOLEAN /\ mode' \in Mode
      /\ written' \in Nat
  BY <1>1 DEF Inv, TypeOK
<1>5. \A r \in recorded' : RecordingsIn(rules', r) # {}
  BY <1>1, <1>3 DEF Inv, RecordedKept
<1>6. \A r \in Request : /\ SavedIn(rules, r) = {} => SavedIn(rules', r) = {}
                         /\ AtMostOne(rules, r) => AtMostOne(rules', r)
  BY <1>3 DEF AtMostOne
<1> QED
  BY <1>1, <1>3, <1>4, <1>5, <1>6, AdministeringKeepsInv

\* A rule that is edited into one of another request is no recording of its own any
\* more, and that recording is forgotten.
LEMMA UpdateRuleInv ==
  ASSUME Inv, NEW i \in DOMAIN rules, NEW rule \in Body, UpdateRule(i, rule)
  PROVE  Inv'
<1> DEFINE same == RequestOf(rule) = RequestOf(rules[i])
           x == [rule EXCEPT !.saved = rules[i].saved /\ same]
           requests == IF same THEN {} ELSE {RequestOf(rules[i])}
<1>1. /\ rules' = [rules EXCEPT ![i] = x] /\ written' = written + 1
      /\ recorded' = recorded \ requests
      /\ covered' = [t \in Thread |-> covered[t] \ requests]
      /\ UNCHANGED <<contract, live, mode, recordMu, local, begun>>
  BY DEF UpdateRule, Write, Forget
<1>2. rules \in Seq(Rule) /\ rules[i] \in Rule /\ rule \in Rule
  BY DEF Inv, TypeOK, Body
<1>3. /\ x \in Rule /\ RequestOf(x) = RequestOf(rule)
      /\ x.saved => rules[i].saved /\ RequestOf(x) = RequestOf(rules[i])
  BY <1>2 DEF Rule, RequestOf
<1>4. \A r \in recorded' : RequestOf(rules[i]) # r \/ RequestOf(x) = RequestOf(rules[i])
  BY <1>1, <1>3
<1> HIDE DEF x, requests
<1>5. rules' \in Seq(Rule) /\ \A r : SavedIn(rules', r) \subseteq SavedIn(rules, r)
  BY <1>1, <1>2, <1>3, Editing
<1>6. \A r : RequestOf(rules[i]) # r \/ RequestOf(x) = RequestOf(rules[i]) =>
               (RecordingsIn(rules, r) # {} => RecordingsIn(rules', r) # {})
  BY <1>1, <1>2, <1>3, Editing
<1>7. \A r \in recorded' : RecordingsIn(rules', r) # {}
  BY <1>1, <1>4, <1>6 DEF Inv, RecordedKept
<1>8. \A r \in Request : /\ SavedIn(rules, r) = {} => SavedIn(rules', r) = {}
                         /\ AtMostOne(rules, r) => AtMostOne(rules', r)
  BY <1>5 DEF AtMostOne
<1>9. contract' \in [Key -> SUBSET Template] /\ live' \in BOOLEAN /\ mode' \in Mode
      /\ written' \in Nat
  BY <1>1 DEF Inv, TypeOK
<1> QED
  BY <1>1, <1>5, <1>7, <1>8, <1>9, AdministeringKeepsInv

\* With its rule, a recording is forgotten.
LEMMA DeleteRuleInv == ASSUME Inv, NEW i \in DOMAIN rules, DeleteRule(i) PROVE Inv'
<1> DEFINE requests == {RequestOf(rules[i])}
<1>1. /\ rules' = Shortened(rules, i)
      /\ recorded' = recorded \ requests
      /\ covered' = [t \in Thread |-> covered[t] \ requests]
      /\ UNCHANGED <<contract, live, mode, recordMu, local, begun, written>>
  BY DEF DeleteRule, Without, Shortened, Forget
<1>2. rules \in Seq(Rule)
  BY DEF Inv, TypeOK
<1>3. rules' \in Seq(Rule)
  BY <1>1, <1>2, Removing
<1>4. \A r : /\ SavedIn(rules, r) = {} => SavedIn(rules', r) = {}
             /\ AtMostOne(rules, r) => AtMostOne(rules', r)
  BY <1>1, <1>2, Removing
<1>5. \A r : RequestOf(rules[i]) # r /\ RecordingsIn(rules, r) # {} => RecordingsIn(rules', r) # {}
  BY <1>1, <1>2, Removing
<1>6. \A r \in recorded' : RecordingsIn(rules', r) # {}
  BY <1>1, <1>5 DEF Inv, RecordedKept
<1>7. contract' \in [Key -> SUBSET Template] /\ live' \in BOOLEAN /\ mode' \in Mode
      /\ written' \in Nat
  BY <1>1 DEF Inv, TypeOK
<1> QED
  BY <1>1, <1>3, <1>4, <1>6, <1>7, AdministeringKeepsInv

LEMMA DeleteProjectInv == ASSUME Inv, DeleteProject PROVE Inv'
<1>1. /\ rules' = <<>> /\ live' = FALSE /\ contract' = [k \in Key |-> {}]
      /\ recorded' = recorded \ Request
      /\ covered' = [t \in Thread |-> covered[t] \ Request]
      /\ UNCHANGED <<mode, recordMu, local, begun, written>>
  BY DEF DeleteProject, Forget
<1>2. recorded' = {}
  BY <1>1 DEF Inv, TypeOK
<1>3. /\ rules' \in Seq(Rule)
      /\ contract' \in [Key -> SUBSET Template]
      /\ live' \in BOOLEAN
  <2>1. rules' \in Seq(Rule)
    BY <1>1
  <2>2. contract' \in [Key -> SUBSET Template]
    BY <1>1
  <2>3. live' \in BOOLEAN
    BY <1>1
  <2> QED
    BY <2>1, <2>2, <2>3
<1>4. mode' \in Mode /\ written' \in Nat
  BY <1>1 DEF Inv, TypeOK
<1>5. \A r : SavedIn(rules', r) = {} /\ AtMostOne(rules', r)
  BY <1>1 DEF SavedIn, RecordingsIn, AtMostOne
<1> QED
  BY <1>1, <1>2, <1>3, <1>4, <1>5, AdministeringKeepsInv

\* The contract and the proxy mode are settings: recordings do not depend on them.
LEMMA SettingInv ==
  ASSUME Inv, contract' \in [Key -> SUBSET Template], mode' \in Mode,
         UNCHANGED <<rules, live, recordMu, local, begun, written, recorded, covered>>
  PROVE  Inv'
<1>1. recorded' = recorded \ {} /\ covered' = [t \in Thread |-> covered[t] \ {}]
  BY DEF Inv, TypeOK
<1>2. rules' \in Seq(Rule) /\ live' \in BOOLEAN /\ written' \in Nat
  BY DEF Inv, TypeOK
<1>3. \A r \in recorded' : RecordingsIn(rules', r) # {}
  BY DEF Inv, RecordedKept
<1> QED
  BY <1>1, <1>2, <1>3, AdministeringKeepsInv

LEMMA NextInv == Inv /\ [Next]_vars => Inv'
<1> SUFFICES ASSUME Inv, [Next]_vars PROVE Inv'
  OBVIOUS
<1>1. ASSUME NEW t \in Thread, Receive(t) \/ Serve(t) PROVE Inv'
  <2>1. CASE Receive(t)
    BY <2>1, ReceiveInv
  <2>2. CASE Scan(t)
    BY <2>2, ScanInv
  <2>3. CASE AnswerRecorded(t)
    BY <2>3, AnswerRecordedInv
  <2>4. CASE SaveRecording(t)
    BY <2>4, SaveRecordingInv
  <2>5. CASE AnswerFromRule(t) \/ NoRuleMatches(t) \/ AnswerWithExample(t) \/ Forward(t)
               \/ PassOn(t) \/ Recordable(t)
    BY <2>5, MatchingInv
  <2> QED
    BY <1>1, <2>1, <2>2, <2>3, <2>4, <2>5 DEF Serve
<1>2. ASSUME Administer PROVE Inv'
  <2>1. CASE \E rule \in Body : CreateRule(rule)
    BY <2>1, CreateRuleInv
  <2>2. CASE \E i \in DOMAIN rules : DeleteRule(i) \/ \E rule \in Body : UpdateRule(i, rule)
    BY <2>2, DeleteRuleInv, UpdateRuleInv
  <2>3. ASSUME NEW c \in Contracts, Publish(c) PROVE Inv'
    <3>1. contract' \in [Key -> SUBSET Template] /\ mode' \in Mode
      BY <2>3, ContractsAssumption DEF Publish, Inv, TypeOK
    <3> QED
      BY <2>3, <3>1, SettingInv DEF Publish
  <2>4. ASSUME NEW m \in Mode, SetMode(m) PROVE Inv'
    <3>1. contract' \in [Key -> SUBSET Template] /\ mode' \in Mode
      BY <2>4 DEF SetMode, Inv, TypeOK
    <3> QED
      BY <2>4, <3>1, SettingInv DEF SetMode
  <2>5. CASE DeleteProject
    BY <2>5, DeleteProjectInv
  <2> QED
    BY <1>2, <2>1, <2>2, <2>3, <2>4, <2>5 DEF Administer
<1>3. CASE UNCHANGED vars
  <2>1. contract' \in [Key -> SUBSET Template] /\ mode' \in Mode
    BY <1>3 DEF vars, shared, Inv, TypeOK
  <2> QED
    BY <1>3, <2>1, SettingInv DEF vars, shared
<1> QED
  BY <1>1, <1>2, <1>3 DEF Next

LEMMA Invariance == Spec => []Inv
BY InitInv, NextInv, PTL DEF Spec

\* Every variable of the proxy keeps its type, whatever handlers and administrators do.
THEOREM TypeCorrect == Spec => []TypeOK
<1>1. Inv => TypeOK
  BY DEF Inv
<1> QED
  BY Invariance, <1>1, PTL

\* record saves one rule for a request and its template, however many handlers ask the
\* upstream for it at once and whatever rules are written by hand meanwhile: recordMu
\* is held from the scan of the rules to the save.
THEOREM RecordedOnce == Spec => []OneRulePerRequest
<1>1. Inv => OneRulePerRequest
  BY RecordingsAreIn DEF Inv, SavedOnce, AtMostOne, SavedIn, OneRulePerRequest
<1> QED
  BY Invariance, <1>1, PTL

\* Once record has found or saved a rule for a request, the same request is answered
\* from a rule when the same template is found for it, and does not go upstream, until
\* somebody deletes a recording of it or edits it into one of another request.
THEOREM RecordedIsReplayed == Spec => []AnsweredFromThenOn
<1>1. Inv => AnsweredFromThenOn
  BY DEF Inv
<1> QED
  BY Invariance, <1>1, PTL
=============================================================================
