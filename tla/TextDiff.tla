------------------------------ MODULE TextDiff ------------------------------
(***************************************************************************)
(* The line diff of two contracts: adapter/openapi/diff.go.  A text is the *)
(* sequence of its lines; a diff is a sequence of [type, line].            *)
(***************************************************************************)
EXTENDS Naturals, SequencesExt, Sublists

CONSTANT MaxDiffCells   \* maxDiffCells

ASSUME CellsAssumption == MaxDiffCells \in Nat

Mark(type, lines) == [i \in DOMAIN lines |-> [type |-> type, line |-> lines[i]]]

\* A cell of the table: a line of each text, or the end of one.
Cells(a, b) == (1..(Len(a) + 1)) \X (1..(Len(b) + 1))

LongestBelow(a, b, dp, i, j) ==
  CASE i > Len(a) \/ j > Len(b) -> 0
    [] i <= Len(a) /\ j <= Len(b) ->
         IF a[i] = b[j] THEN dp[<<i + 1, j + 1>>] + 1 ELSE dp[<<i + 1, j>>]

\* The length of the longest common subsequence of what is left of a from line i and
\* of b from line j.
Longest(a, b, dp, i, j) ==
  CASE i > Len(a) \/ j > Len(b) -> 0
    [] i <= Len(a) /\ j <= Len(b) ->
         IF a[i] = b[j] THEN dp[<<i + 1, j + 1>>] + 1
         ELSE IF dp[<<i + 1, j>>] >= dp[<<i, j + 1>>] THEN dp[<<i + 1, j>>]
         ELSE dp[<<i, j + 1>>]

LcsTable(a, b) ==
  LET dp[p \in Cells(a, b)] == Longest(a, b, dp, p[1], p[2])
  IN dp

\* The type of the next line of the diff at lines i and j: what is left of one text,
\* when the other one has ended, comes last.
NextType(a, b, dp, i, j) ==
  CASE i <= Len(a) /\ j <= Len(b) ->
         IF a[i] = b[j] THEN "same"
         ELSE IF dp[<<i + 1, j>>] >= dp[<<i, j + 1>>] THEN "removed" ELSE "added"
    [] i <= Len(a) /\ j > Len(b) -> "removed"
    [] i > Len(a) /\ j <= Len(b) -> "added"
    [] OTHER -> "end"

\* One line more, and past it in the texts it is in.
Emit(a, b, w, type) ==
  [i |-> IF type \in {"same", "removed"} THEN w.i + 1 ELSE w.i,
   j |-> IF type \in {"same", "added"} THEN w.j + 1 ELSE w.j,
   out |-> Append(w.out, [type |-> type, line |-> IF type = "added" THEN b[w.j] ELSE a[w.i]])]

WalkOn(a, b, dp, w) ==
  LET type == NextType(a, b, dp, w.i, w.j)
  IN IF type = "end" THEN w ELSE Emit(a, b, w, type)

\* The walk along the table after k lines.
Walk(a, b, dp) ==
  LET walk[k \in 0..(Len(a) + Len(b))] ==
        IF k = 0 THEN [i |-> 1, j |-> 1, out |-> <<>>] ELSE WalkOn(a, b, dp, walk[k - 1])
  IN walk

BacktrackLCS(a, b, dp) == Walk(a, b, dp)[Len(a) + Len(b)].out

CoarseDiff(a, b) == Mark("removed", a) \o Mark("added", b)

\* A table that is too large is not built.
DiffLines(a, b) ==
  IF Len(a) * Len(b) > MaxDiffCells THEN CoarseDiff(a, b)
  ELSE BacktrackLCS(a, b, LcsTable(a, b))
-----------------------------------------------------------------------------
(* What a diff is to say of the texts                                         *)

\* The lines of the diff that have one of the types, as a text.
Side(diff, types) ==
  LET marks == Kept(diff, {mark \in Range(diff) : mark.type \in types})
  IN [i \in DOMAIN marks |-> marks[i].line]

\* The ways to match equal lines of the texts, in their order.
Matchings(a, b) ==
  {M \in SUBSET {p \in (DOMAIN a) \X (DOMAIN b) : a[p[1]] = b[p[2]]} :
     \A p, q \in M : p[1] < q[1] <=> p[2] < q[2]}
=============================================================================
