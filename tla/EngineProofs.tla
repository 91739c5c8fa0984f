---------------------------- MODULE EngineProofs ----------------------------
(***************************************************************************)
(* Theorems about the engines behind the tools that read contracts         *)
(* (ContractTools: the diff of two texts and the code generation agent,    *)
(* for every pair of texts and every list of languages) and behind the     *)
(* GraphQL mock server (SchemaCache, for every number of handlers, every   *)
(* set of contracts and every size of the cache).                          *)
(***************************************************************************)
EXTENDS ContractTools, SchemaCache, SublistProofs

-----------------------------------------------------------------------------
(***************************************************************************)
(* The table of the longest common subsequences.                           *)
(***************************************************************************)

\* The table is a function: there is one up to any distance from the ends of the
\* texts.
LEMMA TableIsDefined ==
  ASSUME NEW T, NEW a \in Seq(T), NEW b \in Seq(T)
  PROVE  \A p \in Cells(a, b) :
           LcsTable(a, b)[p] = Longest(a, b, LcsTable(a, b), p[1], p[2])
<1> DEFINE C == Cells(a, b)
           N == Len(a) + Len(b)
           Left(p) == (Len(a) + 1 - p[1]) + (Len(b) + 1 - p[2])
           Step(f, p) == Longest(a, b, f, p[1], p[2])
           Defines(f, m) == \A p \in C : Left(p) <= m => f[p] = Step(f, p)
           Good == {m \in 0 .. N : \E f : Defines(f, m)}
<1>1. Len(a) \in Nat /\ Len(b) \in Nat /\ N \in Nat
  OBVIOUS
<1>2. \A p \in C : /\ p[1] \in 1 .. Len(a) + 1 /\ p[2] \in 1 .. Len(b) + 1 /\ p = <<p[1], p[2]>>
                   /\ Left(p) \in 0 .. N
  BY <1>1 DEF Cells
<1>3. \A p \in C : p[1] <= Len(a) /\ p[2] <= Len(b) =>
        /\ <<p[1] + 1, p[2] + 1>> \in C /\ Left(<<p[1] + 1, p[2] + 1>>) <= Left(p) - 1
        /\ <<p[1] + 1, p[2]>> \in C /\ Left(<<p[1] + 1, p[2]>>) <= Left(p) - 1
        /\ <<p[1], p[2] + 1>> \in C /\ Left(<<p[1], p[2] + 1>>) <= Left(p) - 1
  <2> SUFFICES ASSUME NEW p \in C, p[1] <= Len(a) /\ p[2] <= Len(b)
               PROVE  /\ <<p[1] + 1, p[2] + 1>> \in C /\ Left(<<p[1] + 1, p[2] + 1>>) <= Left(p) - 1
                      /\ <<p[1] + 1, p[2]>> \in C /\ Left(<<p[1] + 1, p[2]>>) <= Left(p) - 1
                      /\ <<p[1], p[2] + 1>> \in C /\ Left(<<p[1], p[2] + 1>>) <= Left(p) - 1
    OBVIOUS
  <2> DEFINE i == p[1]
             j == p[2]
  <2>1. i \in 1 .. Len(a) /\ j \in 1 .. Len(b)
    <3>1. i \in 1 .. Len(a) + 1 /\ j \in 1 .. Len(b) + 1
      BY <1>2, Zenon
    <3>2. i <= Len(a) /\ j <= Len(b)
      OBVIOUS
    <3> HIDE DEF i, j, C, N, Left
    <3> QED
      BY <1>1, <3>1, <3>2
  <2>2. /\ i \in 1 .. Len(a) + 1 /\ i + 1 \in 1 .. Len(a) + 1
        /\ j \in 1 .. Len(b) + 1 /\ j + 1 \in 1 .. Len(b) + 1
    <3> HIDE DEF i, j, C, N, Left
    <3> QED
      BY <1>1, <2>1
  <2> HIDE DEF i, j
  <2>3. <<i + 1, j + 1>> \in C /\ <<i + 1, j>> \in C /\ <<i, j + 1>> \in C
    <3> DEFINE A == 1 .. Len(a) + 1
               B == 1 .. Len(b) + 1
    <3>1. C = A \X B
      BY DEF Cells
    <3>2. i \in A /\ i + 1 \in A /\ j \in B /\ j + 1 \in B
      BY <2>2
    <3> HIDE DEF A, B, C
    <3> QED
      BY <3>1, <3>2
  <2>4. /\ Left(<<i + 1, j + 1>>) = (Len(a) + 1 - (i + 1)) + (Len(b) + 1 - (j + 1))
        /\ Left(<<i + 1, j>>) = (Len(a) + 1 - (i + 1)) + (Len(b) + 1 - j)
        /\ Left(<<i, j + 1>>) = (Len(a) + 1 - i) + (Len(b) + 1 - (j + 1))
    OBVIOUS
  <2>5. Left(p) = (Len(a) + 1 - i) + (Len(b) + 1 - j)
    BY DEF i, j
  <2> HIDE DEF C, Left
  <2>6. /\ Left(<<i + 1, j + 1>>) <= Left(p) - 1
        /\ Left(<<i + 1, j>>) <= Left(p) - 1
        /\ Left(<<i, j + 1>>) <= Left(p) - 1
    BY <1>1, <2>1, <2>4, <2>5
  <2> QED
    BY <2>3, <2>6 DEF i, j
<1>4. ASSUME NEW f, NEW g, NEW p \in C,
             \A q \in C : Left(q) <= Left(p) - 1 => f[q] = g[q]
      PROVE  Step(f, p) = Step(g, p)
  <2>1. CASE p[1] <= Len(a) /\ p[2] <= Len(b)
    <3>1. /\ f[<<p[1] + 1, p[2] + 1>>] = g[<<p[1] + 1, p[2] + 1>>]
          /\ f[<<p[1] + 1, p[2]>>] = g[<<p[1] + 1, p[2]>>]
          /\ f[<<p[1], p[2] + 1>>] = g[<<p[1], p[2] + 1>>]
      <4> HIDE DEF C, Left
      <4> QED
        BY <1>3, <1>4, <2>1
    <3> QED
      BY <3>1 DEF Longest
  <2>2. CASE p[1] > Len(a) \/ p[2] > Len(b)
    BY <1>1, <1>2, <2>2 DEF Longest
  <2> QED
    BY <1>1, <1>2, <2>1, <2>2
<1> HIDE DEF C, Left, Step
<1>5. 0 \in Good
  <2> DEFINE g == [p \in C |-> Step(<<>>, p)]
  <2>1. Defines(g, 0)
    <3> SUFFICES ASSUME NEW p \in C, Left(p) <= 0 PROVE g[p] = Step(g, p)
      OBVIOUS
    <3>1. g[p] = Step(<<>>, p)
      OBVIOUS
    <3>2. \A q \in C : Left(q) <= Left(p) - 1 => <<>>[q] = g[q]
      <4>1. Left(p) \in 0 .. N /\ \A q \in C : Left(q) \in 0 .. N
        BY <1>2
      <4> HIDE DEF g, N
      <4> QED
        BY <1>1, <4>1
    <3> HIDE DEF g
    <3>3. Step(<<>>, p) = Step(g, p)
      BY <1>4, <3>2
    <3> QED
      BY <3>1, <3>3
  <2>2. 0 \in 0 .. N
    BY <1>1
  <2> HIDE DEF Defines
  <2> QED
    BY <2>1, <2>2
<1>6. ASSUME NEW m \in 0 .. N, m < N, m \in Good PROVE m + 1 \in Good
  <2>1. PICK f : Defines(f, m)
    BY <1>6
  <2> DEFINE g == [p \in C |-> IF Left(p) <= m THEN f[p] ELSE Step(f, p)]
  <2>2. m \in Nat /\ m + 1 \in 0 .. N
    BY <1>1, <1>6
  <2>3. \A p \in C : Left(p) <= m => g[p] = f[p] /\ f[p] = Step(f, p)
    BY <2>1
  <2>4. \A p \in C : g[p] = Step(f, p)
    BY <2>3
  <2>5. Defines(g, m + 1)
    <3> SUFFICES ASSUME NEW p \in C, Left(p) <= m + 1 PROVE g[p] = Step(g, p)
      OBVIOUS
    <3>1. \A q \in C : Left(q) <= Left(p) - 1 => f[q] = g[q]
      <4>1. Left(p) \in 0 .. N /\ \A q \in C : Left(q) \in 0 .. N
        BY <1>2
      <4>2. \A q \in C : Left(q) <= Left(p) - 1 => Left(q) <= m
        <5> HIDE DEF g, N
        <5> QED
          BY <1>1, <2>2, <4>1
      <4> HIDE DEF g
      <4> QED
        BY <2>3, <4>2
    <3> HIDE DEF g
    <3>2. Step(f, p) = Step(g, p)
      BY <1>4, <3>1
    <3> QED
      BY <2>4, <3>2
  <2> HIDE DEF Defines
  <2> QED
    BY <2>2, <2>5
<1>7. N \in Good
  <2> HIDE DEF Good
  <2>1. 0 .. N \subseteq Good
    BY <1>1, <1>5, <1>6, UpTo
  <2>2. N \in 0 .. N
    BY <1>1
  <2> QED
    BY <2>1, <2>2
<1>8. PICK f : \A p \in C : f[p] = Step(f, p)
  <2>1. PICK f : Defines(f, N)
    BY <1>7
  <2>2. \A p \in C : Left(p) <= N
    <3> HIDE DEF N
    <3> QED
      BY <1>1, <1>2
  <2> QED
    BY <2>1, <2>2
<1> DEFINE h == [p \in C |-> f[p]]
<1>9. \A p \in C : h[p] = f[p]
  OBVIOUS
<1>10. h = [p \in C |-> Step(h, p)]
  <2>1. \A p \in C : f[p] = Step(h, p)
    <3> SUFFICES ASSUME NEW p \in C PROVE f[p] = Step(h, p)
      OBVIOUS
    <3> HIDE DEF h
    <3>1. Step(f, p) = Step(h, p)
      BY <1>4, <1>9
    <3> QED
      BY <1>8, <3>1
  <2> QED
    BY <2>1
<1>11. LcsTable(a, b) = [p \in C |-> Step(LcsTable(a, b), p)]
  <2> HIDE DEF h
  <2> QED
    BY <1>10 DEF LcsTable, C, Step
<1> DEFINE table == LcsTable(a, b)
<1>12. \A p \in C : table[p] = Step(table, p)
  <2> HIDE DEF table
  <2> QED
    BY <1>11 DEF table
<1> QED
  BY <1>12 DEF C, Step

\* The entries of the table, by the lines they are for.
LEMMA TableEntries ==
  ASSUME NEW T, NEW a \in Seq(T), NEW b \in Seq(T), NEW i \in 1 .. Len(a) + 1,
         NEW j \in 1 .. Len(b) + 1
  PROVE  LcsTable(a, b)[<<i, j>>] = Longest(a, b, LcsTable(a, b), i, j)
<1> DEFINE p == <<i, j>>
<1>1. p \in Cells(a, b) /\ p[1] = i /\ p[2] = j
  BY DEF Cells
<1> HIDE DEF p
<1>2. LcsTable(a, b)[p] = Longest(a, b, LcsTable(a, b), p[1], p[2])
  BY <1>1, TableIsDefined
<1> QED
  BY <1>1, <1>2 DEF p

-----------------------------------------------------------------------------
(***************************************************************************)
(* No matching of the texts is larger than the table says.                 *)
(***************************************************************************)

\* The matchings of what is left from lines i and j.
Rest(a, b, i, j) == {M \in Matchings(a, b) : \A p \in M : i <= p[1] /\ j <= p[2]}

LEMMA MatchedPairs ==
  ASSUME NEW T, NEW a \in Seq(T), NEW b \in Seq(T), NEW M \in Matchings(a, b)
  PROVE  /\ IsFiniteSet(M)
         /\ \A p \in M : /\ p[1] \in 1 .. Len(a) /\ p[2] \in 1 .. Len(b) /\ p = <<p[1], p[2]>>
                         /\ a[p[1]] = b[p[2]]
         /\ \A p, q \in M : p[1] < q[1] <=> p[2] < q[2]
<1>1. M \subseteq (DOMAIN a) \X (DOMAIN b)
  BY DEF Matchings
<1>2. DOMAIN a = 1 .. Len(a) /\ DOMAIN b = 1 .. Len(b) /\ Len(a) \in Nat /\ Len(b) \in Nat
  OBVIOUS
<1>3. IsFiniteSet(1 .. Len(a)) /\ IsFiniteSet(1 .. Len(b))
  <2>1. 1 \in Int /\ Len(a) \in Int /\ Len(b) \in Int
    BY <1>2
  <2> QED
    BY <2>1, FS_Interval, ZenonT(20)
<1>4. IsFiniteSet((DOMAIN a) \X (DOMAIN b))
  BY <1>2, <1>3, FS_Product
<1>5. IsFiniteSet(M)
  BY <1>1, <1>4, FS_Subset
<1>6. \A p \in M : /\ p[1] \in 1 .. Len(a) /\ p[2] \in 1 .. Len(b) /\ p = <<p[1], p[2]>>
                   /\ a[p[1]] = b[p[2]]
  BY <1>1, <1>2 DEF Matchings
<1>7. \A p, q \in M : p[1] < q[1] <=> p[2] < q[2]
  BY DEF Matchings
<1> QED
  BY <1>5, <1>6, <1>7

LEMMA PartMatches ==
  ASSUME NEW a, NEW b, NEW M \in Matchings(a, b), NEW P \in SUBSET M
  PROVE  P \in Matchings(a, b)
BY DEF Matchings

\* Nothing is left of a text that has ended.
LEMMA NothingLeft ==
  ASSUME NEW T, NEW a \in Seq(T), NEW b \in Seq(T), NEW i \in 1 .. Len(a) + 1,
         NEW j \in 1 .. Len(b) + 1, i > Len(a) \/ j > Len(b), NEW M \in Rest(a, b, i, j)
  PROVE  M = {}
<1>1. M \in Matchings(a, b) /\ \A p \in M : i <= p[1] /\ j <= p[2]
  BY DEF Rest
<1>2. \A p \in M : p[1] \in 1 .. Len(a) /\ p[2] \in 1 .. Len(b)
  BY <1>1, MatchedPairs
<1>3. Len(a) \in Nat /\ Len(b) \in Nat
  OBVIOUS
<1> SUFFICES ASSUME NEW p \in M PROVE FALSE
  OBVIOUS
<1>4. i <= p[1] /\ j <= p[2] /\ p[1] \in 1 .. Len(a) /\ p[2] \in 1 .. Len(b)
  BY <1>1, <1>2
<1> QED
  BY <1>3, <1>4

\* Of pairs with the first line of either text there is at most one.
LEMMA OneWithTheFirst ==
  ASSUME NEW T, NEW a \in Seq(T), NEW b \in Seq(T), NEW i \in 1 .. Len(a), NEW j \in 1 .. Len(b),
         NEW M \in Rest(a, b, i, j), NEW p \in M, NEW q \in M, p[1] = i \/ p[2] = j,
         q[1] = i \/ q[2] = j
  PROVE  p = q
<1>1. M \in Matchings(a, b) /\ i <= p[1] /\ j <= p[2] /\ i <= q[1] /\ j <= q[2]
  BY DEF Rest
<1>2. /\ p[1] \in 1 .. Len(a) /\ p[2] \in 1 .. Len(b) /\ p = <<p[1], p[2]>>
      /\ q[1] \in 1 .. Len(a) /\ q[2] \in 1 .. Len(b) /\ q = <<q[1], q[2]>>
      /\ p[1] < q[1] <=> p[2] < q[2]
      /\ q[1] < p[1] <=> q[2] < p[2]
  BY <1>1, MatchedPairs
<1>3. p[1] \in Int /\ p[2] \in Int /\ q[1] \in Int /\ q[2] \in Int /\ i \in Int /\ j \in Int
  BY <1>2
<1>4. p[1] = q[1] /\ p[2] = q[2]
  BY <1>1, <1>2, <1>3
<1> QED
  BY <1>2, <1>4

Without(M, i, j) == {p \in M : p[1] # i /\ p[2] # j}

\* Without that one a matching is one of what comes after both.
LEMMA WithoutTheFirst ==
  ASSUME NEW T, NEW a \in Seq(T), NEW b \in Seq(T), NEW i \in 1 .. Len(a), NEW j \in 1 .. Len(b),
         NEW M \in Rest(a, b, i, j)
  PROVE  LET P == Without(M, i, j)
         IN /\ P \in Rest(a, b, i + 1, j + 1) /\ IsFiniteSet(P)
            /\ IsFiniteSet(M) /\ Cardinality(M) <= Cardinality(P) + 1
<1> DEFINE P == Without(M, i, j)
<1> USE DEF Without
<1>1. M \in Matchings(a, b) /\ \A p \in M : i <= p[1] /\ j <= p[2]
  BY DEF Rest
<1>2. IsFiniteSet(M) /\ \A p \in M : p[1] \in 1 .. Len(a) /\ p[2] \in 1 .. Len(b)
  BY <1>1, MatchedPairs
<1>3. P \in SUBSET M /\ P \in Matchings(a, b)
  BY <1>1, PartMatches
<1>4. P \in Rest(a, b, i + 1, j + 1)
  <2>1. \A p \in P : i + 1 <= p[1] /\ j + 1 <= p[2]
    <3> SUFFICES ASSUME NEW p \in P PROVE i + 1 <= p[1] /\ j + 1 <= p[2]
      OBVIOUS
    <3>1. i <= p[1] /\ j <= p[2] /\ p[1] # i /\ p[2] # j /\ p[1] \in Int /\ p[2] \in Int
      BY <1>1, <1>2
    <3> QED
      BY <3>1
  <2> QED
    BY <1>3, <2>1 DEF Rest
<1>5. IsFiniteSet(P)
  BY <1>2, <1>3, FS_Subset
<1>6. Cardinality(M) <= Cardinality(P) + 1
  <2>1. Cardinality(P) \in Nat
    BY <1>5, FS_CardinalityType
  <2>2. CASE M = P
    <3> HIDE DEF P
    <3> QED
      BY <2>1, <2>2
  <2>3. CASE M # P
    <3>1. PICK q \in M : q \notin P
      BY <1>3, <2>3
    <3>2. M = P \cup {q}
      <4>1. \A p \in M : p \notin P => p = q
        BY <3>1, OneWithTheFirst
      <4> HIDE DEF P
      <4> QED
        BY <1>3, <3>1, <4>1
    <3> HIDE DEF P
    <3>3. Cardinality(M) = Cardinality(P) + 1
      BY <1>5, <3>1, <3>2, FS_AddElement
    <3> QED
      BY <2>1, <3>3
  <2> QED
    BY <2>2, <2>3
<1> QED
  BY <1>2, <1>4, <1>5, <1>6

\* First lines that differ are not matched both.
LEMMA OneOfTheFirst ==
  ASSUME NEW T, NEW a \in Seq(T), NEW b \in Seq(T), NEW i \in 1 .. Len(a), NEW j \in 1 .. Len(b),
         a[i] # b[j], NEW M \in Rest(a, b, i, j)
  PROVE  M \in Rest(a, b, i + 1, j) \/ M \in Rest(a, b, i, j + 1)
<1>1. M \in Matchings(a, b) /\ \A p \in M : i <= p[1] /\ j <= p[2]
  BY DEF Rest
<1>2. \A p \in M : /\ p[1] \in 1 .. Len(a) /\ p[2] \in 1 .. Len(b) /\ p = <<p[1], p[2]>>
                   /\ a[p[1]] = b[p[2]]
  BY <1>1, MatchedPairs
<1>3. CASE \A p \in M : p[1] # i
  <2>1. \A p \in M : i + 1 <= p[1] /\ j <= p[2]
    <3> SUFFICES ASSUME NEW p \in M PROVE i + 1 <= p[1] /\ j <= p[2]
      OBVIOUS
    <3>1. i <= p[1] /\ j <= p[2] /\ p[1] # i /\ p[1] \in Int
      BY <1>1, <1>2, <1>3
    <3> QED
      BY <3>1
  <2> QED
    BY <1>1, <2>1 DEF Rest
<1>4. ASSUME NEW p \in M, p[1] = i PROVE M \in Rest(a, b, i, j + 1)
  <2>1. \A q \in M : i <= q[1] /\ j + 1 <= q[2]
    <3> SUFFICES ASSUME NEW q \in M PROVE i <= q[1] /\ j + 1 <= q[2]
      OBVIOUS
    <3>1. i <= q[1] /\ j <= q[2] /\ q[2] \in Int
      BY <1>1, <1>2
    <3>2. q[2] # j
      <4> SUFFICES ASSUME q[2] = j PROVE FALSE
        OBVIOUS
      <4>1. p = q
        BY <1>4, OneWithTheFirst
      <4> QED
        BY <1>2, <1>4, <4>1
    <3> QED
      BY <3>1, <3>2
  <2> QED
    BY <1>1, <2>1 DEF Rest
<1> QED
  BY <1>3, <1>4

\* An entry is a number that no matching of what is left exceeds.
Bounds(a, b, i, j) ==
  /\ LcsTable(a, b)[<<i, j>>] \in Nat
  /\ \A M \in Rest(a, b, i, j) : Cardinality(M) <= LcsTable(a, b)[<<i, j>>]

LEMMA BoundsAtTheEnd ==
  ASSUME NEW T, NEW a \in Seq(T), NEW b \in Seq(T), NEW i \in 1 .. Len(a) + 1,
         NEW j \in 1 .. Len(b) + 1, i > Len(a) \/ j > Len(b)
  PROVE  Bounds(a, b, i, j)
<1>1. LcsTable(a, b)[<<i, j>>] = 0
  <2>1. Longest(a, b, LcsTable(a, b), i, j) = 0
    BY DEF Longest
  <2> QED
    BY <2>1, TableEntries
<1>2. \A M \in Rest(a, b, i, j) : Cardinality(M) = 0
  BY NothingLeft, FS_EmptySet
<1> QED
  BY <1>1, <1>2 DEF Bounds

LEMMA BoundsBefore ==
  ASSUME NEW T, NEW a \in Seq(T), NEW b \in Seq(T), NEW i \in 1 .. Len(a), NEW j \in 1 .. Len(b),
         Bounds(a, b, i + 1, j + 1), Bounds(a, b, i + 1, j), Bounds(a, b, i, j + 1)
  PROVE  Bounds(a, b, i, j)
<1> DEFINE dp == LcsTable(a, b)
           here == dp[<<i, j>>]
           both == dp[<<i + 1, j + 1>>]
           down == dp[<<i + 1, j>>]
           right == dp[<<i, j + 1>>]
<1>1. both \in Nat /\ down \in Nat /\ right \in Nat
  BY DEF Bounds
<1>2. here = IF a[i] = b[j] THEN both + 1 ELSE IF down >= right THEN down ELSE right
  <2>1. i \in 1 .. Len(a) + 1 /\ j \in 1 .. Len(b) + 1 /\ i <= Len(a) /\ j <= Len(b)
    OBVIOUS
  <2>2. here = Longest(a, b, dp, i, j)
    BY <2>1, TableEntries
  <2>3. ~ (i > Len(a) \/ j > Len(b))
    BY <2>1
  <2> HIDE DEF dp
  <2> QED
    BY <2>1, <2>2, <2>3 DEF Longest
<1>3. CASE a[i] = b[j]
  <2>1. here = both + 1
    BY <1>2, <1>3
  <2>2. ASSUME NEW M \in Rest(a, b, i, j) PROVE Cardinality(M) <= here
    <3> DEFINE P == Without(M, i, j)
    <3>1. /\ P \in Rest(a, b, i + 1, j + 1) /\ IsFiniteSet(P)
          /\ IsFiniteSet(M) /\ Cardinality(M) <= Cardinality(P) + 1
      BY WithoutTheFirst
    <3> HIDE DEF P
    <3>2. Cardinality(P) <= both /\ Cardinality(P) \in Nat /\ Cardinality(M) \in Nat
      BY <3>1, FS_CardinalityType DEF Bounds
    <3> HIDE DEF here, both
    <3> QED
      BY <1>1, <2>1, <3>1, <3>2
  <2>3. here \in Nat
    <3> HIDE DEF here, both
    <3> QED
      BY <1>1, <2>1
  <2> QED
    BY <2>2, <2>3 DEF Bounds
<1>4. CASE a[i] # b[j]
  <2>1. here \in Nat /\ down <= here /\ right <= here
    <3> HIDE DEF here, down, right
    <3> QED
      BY <1>1, <1>2, <1>4
  <2>2. ASSUME NEW M \in Rest(a, b, i, j) PROVE Cardinality(M) <= here
    <3>1. Cardinality(M) <= down \/ Cardinality(M) <= right
      BY <1>4, OneOfTheFirst DEF Bounds
    <3>2. Cardinality(M) \in Nat
      BY MatchedPairs, FS_CardinalityType DEF Rest
    <3> HIDE DEF here, down, right
    <3> QED
      BY <1>1, <2>1, <3>1, <3>2
  <2> QED
    BY <2>1, <2>2 DEF Bounds
<1> QED
  BY <1>3, <1>4

\* By induction on how far a cell is from the ends of the texts.
LEMMA TableBounds ==
  ASSUME NEW T, NEW a \in Seq(T), NEW b \in Seq(T)
  PROVE  \A i \in 1 .. Len(a) + 1, j \in 1 .. Len(b) + 1 : Bounds(a, b, i, j)
<1> DEFINE n == Len(a)
           m == Len(b)
           Good == {k \in 0 .. n + m : \A i \in 1 .. n + 1, j \in 1 .. m + 1 :
                                         (n + 1 - i) + (m + 1 - j) <= k => Bounds(a, b, i, j)}
<1>1. n \in Nat /\ m \in Nat
  OBVIOUS
<1>2. 0 \in Good
  <2> SUFFICES ASSUME NEW i \in 1 .. n + 1, NEW j \in 1 .. m + 1,
                      (n + 1 - i) + (m + 1 - j) <= 0
               PROVE  Bounds(a, b, i, j)
    BY <1>1
  <2>1. i > Len(a) \/ j > Len(b)
    BY <1>1
  <2> QED
    BY <2>1, BoundsAtTheEnd
<1>3. ASSUME NEW k \in 0 .. n + m, k < n + m, k \in Good PROVE k + 1 \in Good
  <2>1. k + 1 \in 0 .. n + m /\ k \in Nat
    BY <1>1, <1>3
  <2> SUFFICES ASSUME NEW i \in 1 .. n + 1, NEW j \in 1 .. m + 1,
                      (n + 1 - i) + (m + 1 - j) <= k + 1
               PROVE  Bounds(a, b, i, j)
    BY <2>1
  <2>2. CASE i > Len(a) \/ j > Len(b)
    BY <2>2, BoundsAtTheEnd
  <2>3. CASE i <= Len(a) /\ j <= Len(b)
    <3>1. /\ i \in 1 .. n /\ j \in 1 .. m /\ i + 1 \in 1 .. n + 1 /\ j + 1 \in 1 .. m + 1
      BY <1>1, <2>3
    <3>2. /\ (n + 1 - (i + 1)) + (m + 1 - (j + 1)) <= k
          /\ (n + 1 - (i + 1)) + (m + 1 - j) <= k
          /\ (n + 1 - i) + (m + 1 - (j + 1)) <= k
      BY <1>1, <2>1
    <3>3. Bounds(a, b, i + 1, j + 1) /\ Bounds(a, b, i + 1, j) /\ Bounds(a, b, i, j + 1)
      <4> HIDE DEF n, m
      <4> QED
        BY <1>3, <3>1, <3>2
    <3> QED
      BY <3>1, <3>3, BoundsBefore
  <2> QED
    BY <1>1, <2>2, <2>3
<1>4. n + m \in Good
  <2>1. 0 .. n + m \subseteq Good /\ n + m \in 0 .. n + m
    <3>1. n + m \in Nat /\ n + m \in 0 .. n + m
      BY <1>1
    <3> HIDE DEF Good, n, m
    <3> QED
      BY <1>2, <1>3, <3>1, UpTo
  <2> HIDE DEF Good
  <2> QED
    BY <2>1
<1>5. \A i \in 1 .. n + 1, j \in 1 .. m + 1 : (n + 1 - i) + (m + 1 - j) <= n + m
  BY <1>1
<1> QED
  BY <1>4, <1>5

-----------------------------------------------------------------------------
(***************************************************************************)
(* The walk along the table.                                               *)
(***************************************************************************)

LEMMA WalkSteps ==
  ASSUME NEW T, NEW a \in Seq(T), NEW b \in Seq(T), NEW dp
  PROVE  /\ Walk(a, b, dp)[0] = [i |-> 1, j |-> 1, out |-> <<>>]
         /\ \A k \in 1 .. Len(a) + Len(b) :
              Walk(a, b, dp)[k] = WalkOn(a, b, dp, Walk(a, b, dp)[k - 1])
<1> DEFINE N == Len(a) + Len(b)
           start == [i |-> 1, j |-> 1, out |-> <<>>]
           Step(f, k) == IF k = 0 THEN start ELSE WalkOn(a, b, dp, f[k - 1])
           Defines(f, m) == f = [k \in 0 .. m |-> Step(f, k)]
           Good == {m \in Nat : \E f : Defines(f, m)}
<1>1. N \in Nat
  OBVIOUS
<1> HIDE DEF N, start
<1>2. 0 \in Good
  <2>1. Defines([k \in 0 .. 0 |-> start], 0)
    OBVIOUS
  <2> QED
    BY <2>1
<1>3. ASSUME NEW m \in Nat, m \in Good PROVE m + 1 \in Good
  <2>1. PICK f : Defines(f, m)
    BY <1>3
  <2> DEFINE g == [k \in 0 .. m + 1 |-> IF k = m + 1 THEN Step(f, m + 1) ELSE f[k]]
  <2>2. \A k \in 0 .. m : g[k] = f[k] /\ f[k] = Step(f, k)
    <3>1. \A k \in 0 .. m : f[k] = Step(f, k)
      <4> HIDE DEF Step
      <4> QED
        BY <2>1
    <3>2. \A k \in 0 .. m : g[k] = f[k]
      <4> HIDE DEF Step
      <4> QED
        OBVIOUS
    <3> HIDE DEF g, Step
    <3> QED
      BY <3>1, <3>2
  <2>3. \A k \in 0 .. m + 1 : g[k] = Step(g, k)
    <3> SUFFICES ASSUME NEW k \in 0 .. m + 1 PROVE g[k] = Step(g, k)
      OBVIOUS
    <3>1. k = 0 \/ k - 1 \in 0 .. m
      OBVIOUS
    <3>2. Step(g, k) = Step(f, k)
      <4>1. k = 0 \/ g[k - 1] = f[k - 1]
        <5> HIDE DEF g, Step
        <5> QED
          BY <2>2, <3>1
      <4> HIDE DEF g
      <4> QED
        BY <4>1
    <3>3. g[k] = Step(f, k)
      <4>1. CASE k = m + 1
        <5> HIDE DEF Step
        <5> QED
          BY <4>1
      <4>2. CASE k # m + 1
        <5>1. k \in 0 .. m
          BY <4>2
        <5> HIDE DEF g, Step
        <5> QED
          BY <2>2, <5>1
      <4> QED
        BY <4>1, <4>2
    <3> HIDE DEF g, Step
    <3> QED
      BY <3>2, <3>3
  <2>4. Defines(g, m + 1)
    <3>1. g = [k \in 0 .. m + 1 |-> g[k]]
      <4> HIDE DEF Step
      <4> QED
        OBVIOUS
    <3> HIDE DEF g, Step
    <3> QED
      BY <2>3, <3>1
  <2>5. m + 1 \in Nat
    OBVIOUS
  <2> HIDE DEF Defines
  <2> QED
    BY <2>4, <2>5
<1>4. N \in Good
  <2>1. \A m \in 0 .. N : m < N /\ m \in Good => m + 1 \in Good
    <3> HIDE DEF Good
    <3> QED
      BY <1>1, <1>3
  <2>2. 0 .. N \subseteq Good
    <3> HIDE DEF Good
    <3> QED
      BY <1>1, <1>2, <2>1, UpTo
  <2> HIDE DEF Good
  <2> QED
    BY <1>1, <2>2
<1>5. PICK f : Defines(f, N)
  BY <1>4
<1>6. Defines(Walk(a, b, dp), N)
  BY <1>5 DEF Walk, N, start
<1> DEFINE walk == Walk(a, b, dp)
<1>7. \A k \in 0 .. N : walk[k] = Step(walk, k)
  <2> HIDE DEF Step, walk
  <2> QED
    BY <1>6 DEF walk
<1> HIDE DEF walk
<1>8. walk[0] = start
  BY <1>1, <1>7
<1>9. \A k \in 1 .. N : walk[k] = WalkOn(a, b, dp, walk[k - 1])
  BY <1>1, <1>7
<1> QED
  BY <1>8, <1>9 DEF walk, N, start

\* The lines of a diff, and its sides.
Marks(T) == [type : {"same", "removed", "added"}, line : T]
Typed(T, types) == {mark \in Marks(T) : mark.type \in types}
Text(marks) == [i \in DOMAIN marks |-> marks[i].line]

LEMMA TextOfAppend ==
  ASSUME NEW T, NEW s \in Seq(Marks(T)), NEW e \in Marks(T)
  PROVE  /\ Text(s) \in Seq(T) /\ Len(Text(s)) = Len(s)
         /\ Text(Append(s, e)) = Append(Text(s), e.line)
<1> DEFINE A == Marks(T)
           t == Append(s, e)
           left == Text(t)
           right == Append(Text(s), e.line)
<1>1. \A x \in A : x.line \in T
  BY DEF Marks
<1> HIDE DEF A
<1>2. /\ s \in Seq(A) /\ e \in A /\ t \in Seq(A) /\ Len(t) = Len(s) + 1 /\ Len(s) \in Nat
      /\ t[Len(s) + 1] = e /\ \A i \in 1 .. Len(s) : t[i] = s[i]
  BY DEF A
<1>3. Text(s) \in Seq(T) /\ Len(Text(s)) = Len(s) /\ \A i \in 1 .. Len(s) : Text(s)[i] = s[i].line
  BY <1>1, <1>2 DEF Text
<1> HIDE DEF t
<1>4. left \in Seq(T) /\ Len(left) = Len(s) + 1 /\ \A i \in 1 .. Len(s) + 1 : left[i] = t[i].line
  BY <1>1, <1>2 DEF Text
<1>5. e.line \in T
  BY <1>1, <1>2
<1>6. /\ right \in Seq(T) /\ Len(right) = Len(s) + 1 /\ right[Len(s) + 1] = e.line
      /\ \A i \in 1 .. Len(s) : right[i] = s[i].line
  BY <1>2, <1>3, <1>5
<1>7. \A i \in 1 .. Len(s) + 1 : left[i] = right[i]
  <2> SUFFICES ASSUME NEW i \in 1 .. Len(s) + 1 PROVE left[i] = right[i]
    OBVIOUS
  <2> HIDE DEF left, right
  <2>1. CASE i = Len(s) + 1
    BY <1>2, <1>4, <1>6, <2>1
  <2>2. CASE i # Len(s) + 1
    <3>1. i \in 1 .. Len(s)
      BY <1>2, <2>2
    <3> QED
      BY <1>2, <1>4, <1>6, <3>1
  <2> QED
    BY <2>1, <2>2
<1> HIDE DEF left, right
<1>8. left = right
  BY <1>4, <1>6, <1>7, SeqEqual
<1> QED
  BY <1>3, <1>8 DEF left, right, t

LEMMA SideIs ==
  ASSUME NEW T, NEW diff \in Seq(Marks(T)), NEW types
  PROVE  /\ Side(diff, types) = Text(Kept(diff, Typed(T, types)))
         /\ Kept(diff, Typed(T, types)) \in Seq(Marks(T))
         /\ Side(diff, types) \in Seq(T)
<1> DEFINE S == {mark \in Range(diff) : mark.type \in types}
           R == Typed(T, types)
           A == Marks(T)
<1>1. \A i \in 1 .. Len(diff) : diff[i] \in S <=> diff[i] \in R
  BY DEF Typed, Range
<1>2. Kept(diff, S) = Kept(diff, R)
  <2> HIDE DEF S, R, A
  <2>1. diff \in Seq(A)
    BY DEF A
  <2> QED
    BY <1>1, <2>1, KeptAgrees
<1>3. Kept(diff, R) \in Seq(A)
  <2> HIDE DEF R, A
  <2>1. diff \in Seq(A)
    BY DEF A
  <2>2. Kept(diff, R) \in Seq(A \cap R)
    BY <2>1, KeptType
  <2> QED
    BY <2>2
<1>4. Side(diff, types) = Text(Kept(diff, S))
  BY DEF Side, Text
<1>5. Text(Kept(diff, R)) \in Seq(T)
  <2>1. \A x \in A : x.line \in T
    BY DEF Marks
  <2> HIDE DEF R, A
  <2> QED
    BY <1>3, <2>1 DEF Text
<1> HIDE DEF S
<1> QED
  BY <1>2, <1>3, <1>4, <1>5

LEMMA SideOfAppend ==
  ASSUME NEW T, NEW s \in Seq(Marks(T)), NEW e \in Marks(T), NEW types
  PROVE  /\ Append(s, e) \in Seq(Marks(T))
         /\ Side(Append(s, e), types)
              = IF e.type \in types THEN Append(Side(s, types), e.line) ELSE Side(s, types)
<1> DEFINE A == Marks(T)
           R == Typed(T, types)
<1>1. e \in R <=> e.type \in types
  BY DEF Typed
<1> HIDE DEF A, R
<1>2. s \in Seq(A) /\ e \in A /\ Append(s, e) \in Seq(A)
  BY DEF A
<1>3. Kept(Append(s, e), R) = IF e.type \in types THEN Append(Kept(s, R), e) ELSE Kept(s, R)
  BY <1>1, <1>2, KeptOfAppend
<1>4. /\ Side(Append(s, e), types) = Text(Kept(Append(s, e), R))
      /\ Side(s, types) = Text(Kept(s, R)) /\ Kept(s, R) \in Seq(A)
  BY <1>2, SideIs DEF A, R
<1>5. Text(Append(Kept(s, R), e)) = Append(Text(Kept(s, R)), e.line)
  BY <1>2, <1>4, TextOfAppend DEF A
<1> QED
  BY <1>2, <1>3, <1>4, <1>5 DEF A

\* What has been walked after k lines: the start of both texts, and as many of the
\* lines both share as the table has not promised for the rest.
Walked(T, a, b, k, w) ==
  /\ w.i \in 1 .. Len(a) + 1 /\ w.j \in 1 .. Len(b) + 1 /\ w.out \in Seq(Marks(T))
  /\ Side(w.out, {"same", "removed"}) = SubSeq(a, 1, w.i - 1)
  /\ Side(w.out, {"same", "added"}) = SubSeq(b, 1, w.j - 1)
  /\ Len(Side(w.out, {"same"})) + LcsTable(a, b)[<<w.i, w.j>>] = LcsTable(a, b)[<<1, 1>>]
  /\ k <= (w.i - 1) + (w.j - 1) \/ (w.i = Len(a) + 1 /\ w.j = Len(b) + 1)

LEMMA NoLineWalked ==
  ASSUME NEW T, NEW a \in Seq(T), NEW b \in Seq(T)
  PROVE  Walked(T, a, b, 0, [i |-> 1, j |-> 1, out |-> <<>>])
<1>1. \A types : Side(<<>>, types) = <<>>
  <2> SUFFICES ASSUME NEW types PROVE Side(<<>>, types) = <<>>
    OBVIOUS
  <2> DEFINE S == {mark \in Range(<<>>) : mark.type \in types}
  <2>1. KeptOfFirst(<<>>, S)[0] = <<>>
    <3> DEFINE nothing == <<>>
    <3>1. nothing \in Seq({})
      OBVIOUS
    <3> HIDE DEF S, nothing
    <3>2. KeptOfFirst(nothing, S)[0] = <<>>
      BY <3>1, KeptSteps
    <3> QED
      BY <3>2 DEF nothing
  <2>2. Kept(<<>>, S) = <<>>
    BY <2>1 DEF Kept
  <2>3. Side(<<>>, types) = [x \in DOMAIN Kept(<<>>, S) |-> Kept(<<>>, S)[x].line]
    BY DEF Side
  <2>4. [x \in DOMAIN <<>> |-> <<>>[x].line] = <<>>
    OBVIOUS
  <2> HIDE DEF S
  <2> QED
    BY <2>2, <2>3, <2>4
<1>2. <<>> \in Seq(Marks(T)) /\ SubSeq(a, 1, 0) = <<>> /\ SubSeq(b, 1, 0) = <<>> /\ Len(<<>>) = 0
  OBVIOUS
<1>3. /\ 1 \in 1 .. Len(a) + 1 /\ 1 \in 1 .. Len(b) + 1 /\ 1 - 1 = 0 /\ 0 <= 0 + 0
  OBVIOUS
<1>4. LcsTable(a, b)[<<1, 1>>] \in Nat
  BY <1>3, TableBounds DEF Bounds
<1>5. 0 + LcsTable(a, b)[<<1, 1>>] = LcsTable(a, b)[<<1, 1>>]
  BY <1>4
<1> QED
  BY <1>1, <1>2, <1>3, <1>5 DEF Walked

LEMMA OneLineWalked ==
  ASSUME NEW T, NEW a \in Seq(T), NEW b \in Seq(T), NEW k \in Nat, NEW w, Walked(T, a, b, k, w)
  PROVE  Walked(T, a, b, k + 1, WalkOn(a, b, LcsTable(a, b), w))
<1> DEFINE dp == LcsTable(a, b)
           n == Len(a)
           m == Len(b)
           i == w.i
           j == w.j
           type == NextType(a, b, dp, i, j)
           shared == Len(Side(w.out, {"same"}))
<1>1. n \in Nat /\ m \in Nat /\ i \in 1 .. n + 1 /\ j \in 1 .. m + 1 /\ w.out \in Seq(Marks(T))
  BY DEF Walked
<1>2. /\ Side(w.out, {"same", "removed"}) = SubSeq(a, 1, i - 1)
      /\ Side(w.out, {"same", "added"}) = SubSeq(b, 1, j - 1)
      /\ Len(Side(w.out, {"same"})) + dp[<<i, j>>] = dp[<<1, 1>>]
      /\ Side(w.out, {"same"}) \in Seq(T)
      /\ k <= (i - 1) + (j - 1) \/ (i = n + 1 /\ j = m + 1)
  <2>1. Side(w.out, {"same"}) \in Seq(T)
    BY <1>1, SideIs
  <2> QED
    BY <2>1 DEF Walked
<1>3. \A x \in 1 .. n + 1, y \in 1 .. m + 1 : dp[<<x, y>>] \in Nat /\ dp[<<x, y>>] = Longest(a, b, dp, x, y)
  BY TableBounds, TableEntries DEF Bounds
<1>14. /\ shared \in Nat /\ shared + dp[<<i, j>>] = dp[<<1, 1>>]
       /\ dp[<<i, j>>] \in Nat /\ dp[<<1, 1>>] \in Nat
  <2>1. 1 \in 1 .. n + 1 /\ 1 \in 1 .. m + 1
    BY <1>1
  <2>2. shared \in Nat /\ shared + dp[<<i, j>>] = dp[<<1, 1>>]
    BY <1>2
  <2> HIDE DEF dp, i, j, n, m, shared
  <2>3. dp[<<i, j>>] \in Nat /\ dp[<<1, 1>>] \in Nat
    BY <1>1, <1>3, <2>1
  <2> QED
    BY <2>2, <2>3
<1>15. i \in Nat /\ j \in Nat /\ n \in Nat /\ m \in Nat /\ 1 <= i /\ i <= n + 1 /\ 1 <= j /\ j <= m + 1
  BY <1>1
<1>16. i <= n \/ j <= m => k <= (i - 1) + (j - 1)
  <2>1. k <= (i - 1) + (j - 1) \/ (i = n + 1 /\ j = m + 1)
    BY <1>2
  <2> HIDE DEF i, j, n, m
  <2> QED
    BY <1>15, <2>1
<1> HIDE DEF dp, i, j, shared
<1>4. /\ i <= n => i \in 1 .. n /\ i + 1 \in 1 .. n + 1 /\ a[i] \in T
                   /\ SubSeq(a, 1, i) = Append(SubSeq(a, 1, i - 1), a[i])
      /\ j <= m => j \in 1 .. m /\ j + 1 \in 1 .. m + 1 /\ b[j] \in T
                   /\ SubSeq(b, 1, j) = Append(SubSeq(b, 1, j - 1), b[j])
  <2>1. ASSUME i <= n
        PROVE  i \in 1 .. n /\ i + 1 \in 1 .. n + 1 /\ a[i] \in T
               /\ SubSeq(a, 1, i) = Append(SubSeq(a, 1, i - 1), a[i])
    <3>1. i \in 1 .. n /\ i + 1 \in 1 .. n + 1 /\ a[i] \in T
      BY <1>1, <2>1
    <3>2. i - 1 \in Nat /\ 1 <= (i - 1) + 1 /\ (i - 1) + 1 = i /\ 1 \in Nat /\ 1 <= 1
      BY <1>1
    <3> QED
      BY <2>1, <3>1, <3>2, SubSeqGrows
  <2>2. ASSUME j <= m
        PROVE  j \in 1 .. m /\ j + 1 \in 1 .. m + 1 /\ b[j] \in T
               /\ SubSeq(b, 1, j) = Append(SubSeq(b, 1, j - 1), b[j])
    <3>1. j \in 1 .. m /\ j + 1 \in 1 .. m + 1 /\ b[j] \in T
      BY <1>1, <2>2
    <3>2. j - 1 \in Nat /\ 1 <= (j - 1) + 1 /\ (j - 1) + 1 = j /\ 1 \in Nat /\ 1 <= 1
      BY <1>1
    <3> QED
      BY <2>2, <3>1, <3>2, SubSeqGrows
  <2> QED
    BY <2>1, <2>2
<1>5. CASE type = "end"
  <2>1. i = n + 1 /\ j = m + 1
    BY <1>1, <1>5 DEF NextType
  <2>2. WalkOn(a, b, dp, w) = w
    BY <1>5 DEF WalkOn, i, j
  <2> QED
    BY <1>1, <1>2, <2>1, <2>2 DEF Walked, dp, i, j
<1> DEFINE next == Emit(a, b, w, type)
           mark == [type |-> type, line |-> IF type = "added" THEN b[j] ELSE a[i]]
<1>6. type # "end" => WalkOn(a, b, dp, w) = next
  BY DEF WalkOn, i, j
<1>7. /\ next.i = IF type \in {"same", "removed"} THEN i + 1 ELSE i
      /\ next.j = IF type \in {"same", "added"} THEN j + 1 ELSE j
      /\ next.out = Append(w.out, mark)
  BY DEF Emit, i, j
<1>8. mark.type = type /\ mark.line = IF type = "added" THEN b[j] ELSE a[i]
  OBVIOUS
<1>9. ASSUME mark \in Marks(T)
      PROVE  /\ next.out \in Seq(Marks(T))
             /\ \A types : Side(next.out, types)
                  = IF type \in types THEN Append(Side(w.out, types), mark.line)
                    ELSE Side(w.out, types)
  <2> HIDE DEF mark, next, type
  <2>1. next.out \in Seq(Marks(T))
    BY <1>1, <1>7, <1>9, SideOfAppend
  <2>2. SUFFICES ASSUME NEW types
                 PROVE  Side(next.out, types)
                          = IF type \in types THEN Append(Side(w.out, types), mark.line)
                            ELSE Side(w.out, types)
    BY <2>1
  <2>3. Side(Append(w.out, mark), types)
          = IF mark.type \in types THEN Append(Side(w.out, types), mark.line)
            ELSE Side(w.out, types)
    <3> DEFINE s == w.out
    <3>1. s \in Seq(Marks(T)) /\ mark \in Marks(T)
      BY <1>1, <1>9
    <3> HIDE DEF s
    <3>2. Side(Append(s, mark), types)
            = IF mark.type \in types THEN Append(Side(s, types), mark.line) ELSE Side(s, types)
      BY <3>1, SideOfAppend
    <3> QED
      BY <3>2 DEF s
  <2>4. next.out = Append(w.out, mark) /\ mark.type = type
    BY <1>7, <1>8
  <2> QED
    BY <2>3, <2>4
<1> HIDE DEF next
<1>10. CASE type = "same"
  <2>1. i <= n /\ j <= m /\ a[i] = b[j]
    BY <1>1, <1>10 DEF NextType
  <2>2. mark \in Marks(T) /\ mark.line = a[i]
    BY <1>4, <1>8, <1>10, <2>1 DEF Marks
  <2>3. dp[<<i, j>>] = dp[<<i + 1, j + 1>>] + 1 /\ dp[<<i + 1, j + 1>>] \in Nat
    <3>1. dp[<<i, j>>] = Longest(a, b, dp, i, j) /\ dp[<<i + 1, j + 1>>] \in Nat
      BY <1>1, <1>3, <1>4, <2>1
    <3> QED
      BY <1>1, <2>1, <3>1 DEF Longest
  <2>4. next.i = i + 1 /\ next.j = j + 1
    BY <1>7, <1>10
  <2> HIDE DEF mark, type
  <2>5. /\ Side(next.out, {"same", "removed"}) = Append(Side(w.out, {"same", "removed"}), a[i])
        /\ Side(next.out, {"same", "added"}) = Append(Side(w.out, {"same", "added"}), b[j])
        /\ Side(next.out, {"same"}) = Append(Side(w.out, {"same"}), a[i])
        /\ next.out \in Seq(Marks(T))
    BY <1>9, <1>10, <2>1, <2>2
  <2>6. /\ Side(next.out, {"same", "removed"}) = SubSeq(a, 1, i)
        /\ Side(next.out, {"same", "added"}) = SubSeq(b, 1, j)
    BY <1>2, <1>4, <2>1, <2>5
  <2>7. Len(Side(next.out, {"same"})) + dp[<<i + 1, j + 1>>] = dp[<<1, 1>>]
    <3>1. \A s \in Seq(T), e \in T : Len(Append(s, e)) = Len(s) + 1
      OBVIOUS
    <3>2. Len(Append(Side(w.out, {"same"}), a[i])) = Len(Side(w.out, {"same"})) + 1
      BY <1>2, <1>4, <2>1, <3>1
    <3>3. Len(Side(next.out, {"same"})) = shared + 1
      BY <2>5, <3>2 DEF shared
    <3> DEFINE longer == Len(Side(next.out, {"same"}))
               left == dp[<<i + 1, j + 1>>]
               all == dp[<<1, 1>>]
    <3>4. /\ shared + (left + 1) = all /\ longer = shared + 1
          /\ shared \in Nat /\ left \in Nat /\ all \in Nat
      BY <1>14, <2>3, <3>3
    <3>5. longer + left = all
      <4> HIDE DEF longer, left, all
      <4> QED
        BY <3>4
    <3> QED
      BY <3>5
  <2>8. /\ i + 1 \in 1 .. n + 1 /\ j + 1 \in 1 .. m + 1 /\ (i + 1) - 1 = i /\ (j + 1) - 1 = j
        /\ k + 1 <= i + j
    <3>1. k <= (i - 1) + (j - 1)
      BY <1>16, <2>1
    <3> HIDE DEF n, m
    <3> QED
      BY <1>15, <2>1, <3>1
  <2> QED
    BY <1>6, <1>10, <2>4, <2>5, <2>6, <2>7, <2>8 DEF Walked, dp
<1>11. CASE type = "removed"
  <2>1. i <= n /\ (j > m \/ (j <= m /\ a[i] # b[j] /\ dp[<<i + 1, j>>] >= dp[<<i, j + 1>>]))
    BY <1>1, <1>11 DEF NextType
  <2>2. mark \in Marks(T) /\ mark.line = a[i]
    BY <1>4, <1>8, <1>11, <2>1 DEF Marks
  <2>3. dp[<<i, j>>] = dp[<<i + 1, j>>]
    <3>1. /\ dp[<<i, j>>] = Longest(a, b, dp, i, j)
          /\ dp[<<i + 1, j>>] = Longest(a, b, dp, i + 1, j)
      BY <1>1, <1>3, <1>4, <2>1
    <3>2. CASE j > m
      BY <1>1, <3>1, <3>2 DEF Longest
    <3>3. CASE j <= m
      BY <1>1, <2>1, <3>1, <3>3 DEF Longest
    <3> QED
      BY <1>1, <3>2, <3>3
  <2>4. next.i = i + 1 /\ next.j = j
    BY <1>7, <1>11
  <2> HIDE DEF mark, type
  <2>5. /\ Side(next.out, {"same", "removed"}) = Append(Side(w.out, {"same", "removed"}), a[i])
        /\ Side(next.out, {"same", "added"}) = Side(w.out, {"same", "added"})
        /\ Side(next.out, {"same"}) = Side(w.out, {"same"})
        /\ next.out \in Seq(Marks(T))
    BY <1>9, <1>11, <2>2
  <2>6. /\ Side(next.out, {"same", "removed"}) = SubSeq(a, 1, i)
        /\ Side(next.out, {"same", "added"}) = SubSeq(b, 1, j - 1)
    BY <1>2, <1>4, <2>1, <2>5
  <2>7. Len(Side(next.out, {"same"})) + dp[<<i + 1, j>>] = dp[<<1, 1>>]
    BY <1>2, <2>3, <2>5
  <2>8. /\ i + 1 \in 1 .. n + 1 /\ (i + 1) - 1 = i /\ k + 1 <= i + (j - 1)
    <3>1. k <= (i - 1) + (j - 1)
      BY <1>16, <2>1
    <3> HIDE DEF n, m
    <3> QED
      BY <1>15, <2>1, <3>1
  <2> QED
    BY <1>1, <1>6, <1>11, <2>4, <2>5, <2>6, <2>7, <2>8 DEF Walked, dp
<1>12. CASE type = "added"
  <2>1. j <= m /\ (i > n \/ (i <= n /\ a[i] # b[j] /\ ~ dp[<<i + 1, j>>] >= dp[<<i, j + 1>>]))
    BY <1>1, <1>12 DEF NextType
  <2>2. mark \in Marks(T) /\ mark.line = b[j]
    BY <1>4, <1>8, <1>12, <2>1 DEF Marks
  <2>3. dp[<<i, j>>] = dp[<<i, j + 1>>]
    <3>1. /\ dp[<<i, j>>] = Longest(a, b, dp, i, j)
          /\ dp[<<i, j + 1>>] = Longest(a, b, dp, i, j + 1)
      BY <1>1, <1>3, <1>4, <2>1
    <3>2. CASE i > n
      BY <1>1, <3>1, <3>2 DEF Longest
    <3>3. CASE i <= n
      BY <1>1, <2>1, <3>1, <3>3 DEF Longest
    <3> QED
      BY <1>1, <3>2, <3>3
  <2>4. next.i = i /\ next.j = j + 1
    BY <1>7, <1>12
  <2> HIDE DEF mark, type
  <2>5. /\ Side(next.out, {"same", "removed"}) = Side(w.out, {"same", "removed"})
        /\ Side(next.out, {"same", "added"}) = Append(Side(w.out, {"same", "added"}), b[j])
        /\ Side(next.out, {"same"}) = Side(w.out, {"same"})
        /\ next.out \in Seq(Marks(T))
    BY <1>9, <1>12, <2>2
  <2>6. /\ Side(next.out, {"same", "removed"}) = SubSeq(a, 1, i - 1)
        /\ Side(next.out, {"same", "added"}) = SubSeq(b, 1, j)
    BY <1>2, <1>4, <2>1, <2>5
  <2>7. Len(Side(next.out, {"same"})) + dp[<<i, j + 1>>] = dp[<<1, 1>>]
    BY <1>2, <2>3, <2>5
  <2>8. /\ j + 1 \in 1 .. m + 1 /\ (j + 1) - 1 = j /\ k + 1 <= (i - 1) + j
    <3>1. k <= (i - 1) + (j - 1)
      BY <1>16, <2>1
    <3> HIDE DEF n, m
    <3> QED
      BY <1>15, <2>1, <3>1
  <2> QED
    BY <1>1, <1>6, <1>12, <2>4, <2>5, <2>6, <2>7, <2>8 DEF Walked, dp
<1>13. type \in {"end", "same", "removed", "added"}
  BY DEF NextType
<1> QED
  BY <1>5, <1>10, <1>11, <1>12, <1>13 DEF dp

\* The whole walk: both texts, and no matching has more lines.
LEMMA BacktrackIsRight ==
  ASSUME NEW T, NEW a \in Seq(T), NEW b \in Seq(T)
  PROVE  LET diff == BacktrackLCS(a, b, LcsTable(a, b))
         IN /\ Side(diff, {"same", "removed"}) = a
            /\ Side(diff, {"same", "added"}) = b
            /\ \A M \in Matchings(a, b) : Cardinality(M) <= Len(Side(diff, {"same"}))
<1> DEFINE dp == LcsTable(a, b)
           walk == Walk(a, b, dp)
           n == Len(a)
           m == Len(b)
           Good == {k \in 0 .. n + m : Walked(T, a, b, k, walk[k])}
           w == walk[n + m]
           shared == Len(Side(w.out, {"same"}))
<1>1. n \in Nat /\ m \in Nat /\ n + m \in Nat /\ 0 \in 0 .. n + m /\ n + m \in 0 .. n + m
  OBVIOUS
<1>2. walk[0] = [i |-> 1, j |-> 1, out |-> <<>>]
      /\ \A k \in 1 .. n + m : walk[k] = WalkOn(a, b, dp, walk[k - 1])
  BY WalkSteps
<1>3. 0 \in Good
  <2>1. Walked(T, a, b, 0, walk[0])
    BY <1>2, NoLineWalked
  <2> QED
    BY <1>1, <2>1
<1>4. ASSUME NEW k \in 0 .. n + m, k < n + m, k \in Good PROVE k + 1 \in Good
  <2>1. k \in Nat /\ k + 1 \in 1 .. n + m /\ (k + 1) - 1 = k /\ k + 1 \in 0 .. n + m
    BY <1>1, <1>4
  <2>2. Walked(T, a, b, k, walk[k])
    BY <1>4
  <2>3. walk[k + 1] = WalkOn(a, b, dp, walk[k])
    BY <1>2, <2>1
  <2> HIDE DEF walk
  <2>4. Walked(T, a, b, k + 1, walk[k + 1])
    BY <2>1, <2>2, <2>3, OneLineWalked
  <2> QED
    BY <2>1, <2>4
<1>5. Walked(T, a, b, n + m, w)
  <2> HIDE DEF Good
  <2>1. 0 .. n + m \subseteq Good
    BY <1>1, <1>3, <1>4, UpTo
  <2>2. n + m \in Good
    BY <1>1, <2>1
  <2> QED
    BY <2>2 DEF Good
<1> HIDE DEF Good, walk
<1>6. BacktrackLCS(a, b, dp) = w.out
  BY DEF BacktrackLCS, walk
<1> HIDE DEF dp, w
<1>7. /\ w.i \in 1 .. n + 1 /\ w.j \in 1 .. m + 1 /\ w.out \in Seq(Marks(T))
      /\ Side(w.out, {"same", "removed"}) = SubSeq(a, 1, w.i - 1)
      /\ Side(w.out, {"same", "added"}) = SubSeq(b, 1, w.j - 1)
      /\ shared + dp[<<w.i, w.j>>] = dp[<<1, 1>>]
      /\ n + m <= (w.i - 1) + (w.j - 1) \/ (w.i = n + 1 /\ w.j = m + 1)
  BY <1>5 DEF Walked, dp
<1> DEFINE i == w.i
           j == w.j
<1>8. i = n + 1 /\ j = m + 1
  <2>1. /\ i \in 1 .. n + 1 /\ j \in 1 .. m + 1
        /\ n + m <= (i - 1) + (j - 1) \/ (i = n + 1 /\ j = m + 1)
    BY <1>7
  <2> HIDE DEF i, j, n, m
  <2> QED
    BY <1>1, <2>1
<1>9. Bounds(a, b, n + 1, m + 1) /\ Bounds(a, b, 1, 1)
  <2>1. 1 \in 1 .. n + 1 /\ 1 \in 1 .. m + 1 /\ n + 1 \in 1 .. n + 1 /\ m + 1 \in 1 .. m + 1
    BY <1>1
  <2> QED
    BY <2>1, TableBounds
<1>10. dp[<<n + 1, m + 1>>] = 0
  <2>1. n + 1 \in 1 .. n + 1 /\ m + 1 \in 1 .. m + 1 /\ n + 1 > n
    BY <1>1
  <2>2. dp[<<n + 1, m + 1>>] = Longest(a, b, dp, n + 1, m + 1)
    BY <2>1, TableEntries DEF dp
  <2> QED
    BY <2>1, <2>2 DEF Longest
<1>11. shared = dp[<<1, 1>>]
  <2> DEFINE s == w.out
  <2>1. s \in Seq(Marks(T))
    BY <1>7
  <2> HIDE DEF s
  <2>2. Side(s, {"same"}) \in Seq(T)
    BY <2>1, SideIs
  <2>3. shared \in Nat
    BY <2>2 DEF s
  <2>4. shared + 0 = dp[<<1, 1>>]
    BY <1>7, <1>8, <1>10
  <2> HIDE DEF shared
  <2> QED
    BY <2>3, <2>4
<1>12. ASSUME NEW M \in Matchings(a, b) PROVE Cardinality(M) <= shared
  <2>1. \A p \in M : 1 <= p[1] /\ 1 <= p[2]
    <3>1. \A p \in M : p[1] \in 1 .. n /\ p[2] \in 1 .. m
      BY MatchedPairs
    <3> QED
      BY <3>1
  <2>2. M \in Rest(a, b, 1, 1)
    BY <2>1 DEF Rest
  <2> HIDE DEF shared
  <2> QED
    BY <1>9, <1>11, <2>2 DEF Bounds, dp
<1>13. SubSeq(a, 1, (n + 1) - 1) = a /\ SubSeq(b, 1, (m + 1) - 1) = b
  OBVIOUS
<1>14. Side(w.out, {"same", "removed"}) = a /\ Side(w.out, {"same", "added"}) = b
  BY <1>7, <1>8, <1>13
<1> QED
  BY <1>6, <1>12, <1>14 DEF dp

LEMMA MarkedLines ==
  ASSUME NEW T, NEW s \in Seq(T), NEW type \in {"same", "removed", "added"}
  PROVE  /\ Mark(type, s) \in Seq(Marks(T)) /\ Len(Mark(type, s)) = Len(s)
         /\ \A i \in 1 .. Len(s) : Mark(type, s)[i] = [type |-> type, line |-> s[i]]
<1> DEFINE A == Marks(T)
           f == Mark(type, s)
           n == Len(s)
<1>1. n \in Nat /\ DOMAIN s = 1 .. n /\ \A i \in 1 .. n : s[i] \in T
  OBVIOUS
<1>2. \A x \in T : [type |-> type, line |-> x] \in A
  BY DEF Marks
<1>3. f = [i \in 1 .. n |-> f[i]] /\ \A i \in 1 .. n : f[i] = [type |-> type, line |-> s[i]]
  <2>1. f = [i \in 1 .. n |-> [type |-> type, line |-> s[i]]]
    BY <1>1 DEF Mark
  <2> HIDE DEF f, n
  <2> QED
    BY <2>1
<1> HIDE DEF A, f, n
<1>4. \A i \in 1 .. n : f[i] \in A
  BY <1>1, <1>2, <1>3
<1>5. f \in Seq(A) /\ Len(f) = n
  BY <1>1, <1>3, <1>4
<1> QED
  BY <1>3, <1>5 DEF A, f, n

\* The diff of texts that are too long to be compared.
LEMMA CoarseIsRight ==
  ASSUME NEW T, NEW a \in Seq(T), NEW b \in Seq(T)
  PROVE  /\ Side(CoarseDiff(a, b), {"same", "removed"}) = a
         /\ Side(CoarseDiff(a, b), {"same", "added"}) = b
<1> DEFINE A == Marks(T)
           n == Len(a)
           m == Len(b)
           diff == CoarseDiff(a, b)
           R == Typed(T, {"same", "removed"})
           B == Typed(T, {"same", "added"})
<1>1. n \in Nat /\ m \in Nat /\ n + m \in Nat /\ n \in 0 .. n + m /\ 0 \in 0 .. n + m /\ n \in 0 .. n
      /\ n + m \in n .. n + m
  OBVIOUS
<1>15. \A x \in T :
         /\ [type |-> "removed", line |-> x] \in R \ B /\ [type |-> "added", line |-> x] \in B \ R
         /\ [type |-> "removed", line |-> x] \in A /\ [type |-> "added", line |-> x] \in A
  BY DEF Typed, Marks
<1>2. Mark("removed", a) \in Seq(A) /\ Mark("added", b) \in Seq(A)
      /\ Len(Mark("removed", a)) = n /\ Len(Mark("added", b)) = m
  BY MarkedLines
<1>3. /\ diff \in Seq(A) /\ Len(diff) = n + m
      /\ \A i \in 1 .. n : diff[i] = [type |-> "removed", line |-> a[i]]
      /\ \A i \in n + 1 .. n + m : diff[i] = [type |-> "added", line |-> b[i - n]]
  <2> DEFINE r == Mark("removed", a)
             d == Mark("added", b)
  <2>1. /\ \A i \in 1 .. n : r[i] = [type |-> "removed", line |-> a[i]]
        /\ \A i \in 1 .. m : d[i] = [type |-> "added", line |-> b[i]]
    BY MarkedLines
  <2>2. /\ \A i \in 1 .. n : i \in 1 .. n + m
        /\ \A i \in n + 1 .. n + m : i \in 1 .. n + m /\ i > n /\ i - n \in 1 .. m
    BY <1>1
  <2> HIDE DEF r, d, A
  <2>3. /\ r \o d \in Seq(A) /\ Len(r \o d) = n + m
        /\ \A i \in 1 .. n + m : (r \o d)[i] = IF i <= n THEN r[i] ELSE d[i - n]
    BY <1>2 DEF r, d
  <2>4. diff = r \o d
    BY DEF CoarseDiff, r, d
  <2>5. \A i \in 1 .. n : i <= n
    BY <1>1
  <2> HIDE DEF diff, n, m
  <2>6. /\ \A i \in 1 .. n : diff[i] = r[i]
        /\ \A i \in n + 1 .. n + m : diff[i] = d[i - n]
    <3>1. \A i \in 1 .. n : (r \o d)[i] = r[i]
      BY <2>2, <2>3, <2>5
    <3>2. \A i \in n + 1 .. n + m : (r \o d)[i] = d[i - n]
      <4> SUFFICES ASSUME NEW i \in n + 1 .. n + m PROVE (r \o d)[i] = d[i - n]
        OBVIOUS
      <4>1. i \in 1 .. n + m /\ ~ i <= n
        BY <1>1, <2>2
      <4> QED
        BY <2>3, <4>1
    <3> QED
      BY <2>4, <3>1, <3>2
  <2> QED
    BY <2>1, <2>2, <2>3, <2>4, <2>6
<1> HIDE DEF diff
<1>4. /\ \A i \in 1 .. n : diff[i] \in R /\ diff[i] \notin B /\ diff[i].line = a[i]
      /\ \A i \in n + 1 .. n + m : diff[i] \in B /\ diff[i] \notin R /\ diff[i].line = b[i - n]
  <2>1. /\ \A i \in 1 .. n : a[i] \in T
        /\ \A i \in n + 1 .. n + m : b[i - n] \in T
    BY <1>1
  <2> DEFINE gone(x) == [type |-> "removed", line |-> x]
             new(x) == [type |-> "added", line |-> x]
  <2>2. \A x \in T : gone(x) \in R /\ gone(x) \notin B /\ gone(x).line = x
    BY <1>15
  <2>3. \A x \in T : new(x) \in B /\ new(x) \notin R /\ new(x).line = x
    BY <1>15
  <2>4. /\ \A i \in 1 .. n : diff[i] = gone(a[i])
        /\ \A i \in n + 1 .. n + m : diff[i] = new(b[i - n])
    BY <1>3
  <2> HIDE DEF n, m, A, R, B, gone, new
  <2> QED
    BY <2>1, <2>2, <2>3, <2>4
<1> HIDE DEF A, R, B
<1>16. diff \in Seq(A) /\ 0 \in 0 .. Len(diff) /\ n \in 0 .. Len(diff) /\ n + m \in n .. Len(diff)
  BY <1>1, <1>3
<1>5. Side(diff, {"same", "removed"}) = Text(Kept(diff, R))
      /\ Side(diff, {"same", "added"}) = Text(Kept(diff, B))
  BY <1>3, SideIs DEF A, R, B
<1>6. KeptOfFirst(diff, R)[0] = <<>> /\ KeptOfFirst(diff, B)[0] = <<>>
  BY <1>3, KeptSteps
<1>7. Kept(diff, R) = SubSeq(diff, 1, n)
  <2>1. \A i \in 0 + 1 .. n : diff[i] \in R
    BY <1>4
  <2>2. KeptOfFirst(diff, R)[n] = SubSeq(diff, 0 + 1, n)
    <3> HIDE DEF n, m
    <3> QED
      BY <1>6, <1>16, <2>1, KeptBlock
  <2>3. KeptOfFirst(diff, R)[n + m] = KeptOfFirst(diff, R)[n]
    <3>1. \A i \in n + 1 .. n + m : diff[i] \notin R
      BY <1>4
    <3> HIDE DEF n, m
    <3> QED
      BY <1>16, <3>1, NothingKept
  <2> QED
    BY <1>3, <2>2, <2>3 DEF Kept
<1>8. Kept(diff, B) = SubSeq(diff, n + 1, n + m)
  <2>1. \A i \in 0 + 1 .. n : diff[i] \notin B
    BY <1>4
  <2>2. KeptOfFirst(diff, B)[n] = KeptOfFirst(diff, B)[0]
    <3> HIDE DEF n, m
    <3> QED
      BY <1>16, <2>1, NothingKept
  <2>3. KeptOfFirst(diff, B)[n + m] = SubSeq(diff, n + 1, n + m)
    <3> HIDE DEF n, m
    <3> QED
      <4>1. KeptOfFirst(diff, B)[n] = <<>>
        BY <1>6, <2>2
      <4>2. \A i \in n + 1 .. n + m : diff[i] \in B
        BY <1>4
      <4> QED
        BY <1>16, <4>1, <4>2, KeptBlock
  <2> QED
    BY <1>3, <2>3 DEF Kept
<1>9. Text(SubSeq(diff, 1, n)) = a
  <2> DEFINE left == Text(SubSeq(diff, 1, n))
  <2>1. /\ DOMAIN SubSeq(diff, 1, n) = 1 .. n
        /\ \A i \in 1 .. n : SubSeq(diff, 1, n)[i] = diff[i]
    BY <1>1, <1>3
  <2>2. left = [i \in 1 .. n |-> a[i]]
    BY <1>4, <2>1 DEF Text
  <2> QED
    BY <2>2
<1>10. Text(SubSeq(diff, n + 1, n + m)) = b
  <2> DEFINE right == Text(SubSeq(diff, n + 1, n + m))
  <2>1. /\ DOMAIN SubSeq(diff, n + 1, n + m) = 1 .. m
        /\ \A i \in 1 .. m : SubSeq(diff, n + 1, n + m)[i] = diff[n + i]
    <3> HIDE DEF n, m
    <3>1. n + 1 \in 1 .. n + m + 1 /\ (n + m) - (n + 1) + 1 = m
      BY <1>1
    <3> QED
      BY <1>1, <1>3, <3>1
  <2>2. \A i \in 1 .. m : diff[n + i].line = b[i]
    <3>1. \A i \in 1 .. m : n + i \in n + 1 .. n + m /\ (n + i) - n = i
      BY <1>1
    <3> QED
      BY <1>4, <3>1
  <2>3. right = [i \in 1 .. m |-> b[i]]
    BY <2>1, <2>2 DEF Text
  <2> QED
    BY <2>3
<1> QED
  BY <1>5, <1>7, <1>8, <1>9, <1>10 DEF diff

\* What a diff says of two texts (DiffReplays).
LEMMA DiffIsRight ==
  ASSUME NEW T, NEW a \in Seq(T), NEW b \in Seq(T)
  PROVE  /\ Side(DiffLines(a, b), {"same", "removed"}) = a
         /\ Side(DiffLines(a, b), {"same", "added"}) = b
         /\ Len(a) * Len(b) <= MaxDiffCells =>
              \A M \in Matchings(a, b) : Cardinality(M) <= Len(Side(DiffLines(a, b), {"same"}))
<1>1. CASE Len(a) * Len(b) > MaxDiffCells
  <2>1. DiffLines(a, b) = CoarseDiff(a, b)
    BY <1>1 DEF DiffLines
  <2>2. ~ Len(a) * Len(b) <= MaxDiffCells
    <3> DEFINE cells == Len(a) * Len(b)
    <3>1. cells \in Nat /\ MaxDiffCells \in Nat
      BY CellsAssumption
    <3>2. cells > MaxDiffCells
      BY <1>1
    <3> HIDE DEF cells
    <3>3. ~ cells <= MaxDiffCells
      BY <3>1, <3>2
    <3> QED
      BY <3>3 DEF cells
  <2> QED
    BY <2>1, <2>2, CoarseIsRight
<1>2. CASE ~ Len(a) * Len(b) > MaxDiffCells
  <2>1. DiffLines(a, b) = BacktrackLCS(a, b, LcsTable(a, b))
    BY <1>2 DEF DiffLines
  <2> QED
    BY <2>1, BacktrackIsRight
<1> QED
  BY <1>1, <1>2

-----------------------------------------------------------------------------
(***************************************************************************)
(* The comparison of two versions.                                         *)
(***************************************************************************)

\* The agent only works on its own tasks, and what a comparison answers is the diff
\* of the two versions.
ComparedRight ==
  /\ task \in Tasks
  /\ at = "generating" => task.tool = "generate"
  /\ Compared # {} =>
       /\ task.from \in DOMAIN task.versions /\ VersionNumber(task.to) \in DOMAIN task.versions
       /\ out.lines = DiffLines(task.versions[task.from].lines,
                                task.versions[VersionNumber(task.to)].lines)

LEMMA ComparedStarts == Init => ComparedRight
BY DEF Init, ComparedRight, Compared

LEMMA RunDiffAnswers ==
  ASSUME RunDiff
  PROVE  task' = task /\ at' = "done" /\ task.tool = "command"
<1>1. task.tool = "command"
  BY DEF RunDiff
<1> DEFINE o == ParseDiffArgs(task.args)
           old == Files[o.files[1]]
           new == Files[o.files[2]]
           Changed == \E changes \in Detected(old.doc, new.doc) :
                        Answer([status |-> IF o.fail /\ CountBreaking(changes) > 0
                                           THEN ExitBreaking ELSE ExitOK,
                                changes |-> changes])
<1>2. \/ Exit(ExitOK) \/ Exit(ExitUsage) \/ Changed
  <2> HIDE DEF Changed
  <2>1. CASE o.stop = "help"
    BY <2>1 DEF RunDiff
  <2>2. CASE o.stop = "usage"
    BY <2>2 DEF RunDiff
  <2>3. CASE o.stop # "help" /\ o.stop # "usage"
    BY <2>3 DEF RunDiff, Changed
  <2> QED
    BY <2>1, <2>2, <2>3
<1>3. Changed => task' = task /\ at' = "done"
  BY DEF Answer
<1> HIDE DEF Changed
<1> QED
  BY <1>1, <1>2, <1>3 DEF Exit, Answer

LEMMA ComparedSteps == ComparedRight /\ [Next]_vars => ComparedRight'
<1> SUFFICES ASSUME ComparedRight, [Next]_vars PROVE ComparedRight'
  OBVIOUS
<1>1. CASE Diff
  <2>1. task' = task /\ at' = "done" /\ task.tool = "diff"
    BY <1>1 DEF Diff, Answer
  <2>2. VersionNumber(task.to)' = VersionNumber(task.to)
    BY <2>1 DEF VersionNumber
  <2> DEFINE from == task.from
             to == VersionNumber(task.to)
  <2>3. CASE {from, to} \subseteq DOMAIN task.versions
    <3>1. out'.lines = DiffLines(task.versions[from].lines, task.versions[to].lines)
      BY <1>1, <2>3 DEF Diff, Answer
    <3>2. /\ task'.from = from /\ task'.versions = task.versions
          /\ VersionNumber(task.to)' = to /\ from \in DOMAIN task.versions
          /\ to \in DOMAIN task.versions
      BY <2>1, <2>2, <2>3
    <3> HIDE DEF from, to
    <3>3. task' \in Tasks /\ at' # "generating"
      BY <2>1 DEF ComparedRight
    <3> QED
      BY <3>1, <3>2, <3>3 DEF ComparedRight
  <2>4. CASE ~ {from, to} \subseteq DOMAIN task.versions
    <3>1. out' = [status |-> 404]
      BY <1>1, <2>4 DEF Diff, Answer
    <3>2. out'.status # 200
      BY <3>1
    <3>3. Compared' = {}
      BY <3>2 DEF Compared
    <3> QED
      BY <2>1, <3>3 DEF ComparedRight
  <2> QED
    BY <2>3, <2>4
<1>2. CASE RunDiff
  <2>1. task' = task /\ at' = "done" /\ task.tool = "command"
    BY <1>2, RunDiffAnswers
  <2>2. Compared' = {}
    BY <2>1 DEF Compared
  <2> QED
    BY <2>1, <2>2 DEF ComparedRight
<1>3. CASE Plan \/ Generate \/ Respond
  <2>1. task' = task /\ task.tool = "generate"
    BY <1>3 DEF Plan, Generate, Respond, Answer, ComparedRight
  <2>2. Compared' = {}
    BY <2>1 DEF Compared
  <2> QED
    BY <2>1, <2>2 DEF ComparedRight
<1>4. CASE UNCHANGED vars
  BY <1>4 DEF vars, ComparedRight, Compared, VersionNumber
<1> QED
  BY <1>1, <1>2, <1>3, <1>4 DEF Next

\* DiffReplays, which the run checks: the diff of two versions rebuilds both, line by
\* line, and keeps as many lines as the two can share.  For texts of any length, the
\* table of the longest common subsequences and the walk along it included.
THEOREM DiffsReplay == Spec => []DiffReplays
<1>1. ComparedRight => DiffReplays
  <2> SUFFICES ASSUME ComparedRight, NEW p \in Compared
               PROVE  LET a == p[1].lines
                          b == p[2].lines
                      IN /\ Side(out.lines, {"same", "removed"}) = a
                         /\ Side(out.lines, {"same", "added"}) = b
                         /\ Len(a) * Len(b) <= MaxDiffCells =>
                              \A M \in Matchings(a, b) :
                                Cardinality(M) <= Len(Side(out.lines, {"same"}))
    BY DEF DiffReplays
  <2> DEFINE from == task.from
             to == VersionNumber(task.to)
             a == task.versions[from].lines
             b == task.versions[to].lines
             T == Range(a) \cup Range(b)
  <2>1. p = <<task.versions[from], task.versions[to]>> /\ task.tool = "diff" /\ Compared # {}
    BY DEF Compared
  <2>2. p[1].lines = a /\ p[2].lines = b
    BY <2>1
  <2>3. /\ task \in Tasks /\ from \in DOMAIN task.versions /\ to \in DOMAIN task.versions
        /\ out.lines = DiffLines(a, b)
    BY <2>1 DEF ComparedRight
  <2>4. a \in Seq(Range(a)) /\ b \in Seq(Range(b))
    <3> HIDE DEF from, to
    <3> QED
      BY <2>1, <2>3, TasksAssumption
  <2> HIDE DEF a, b
  <2>5. a \in Seq(T) /\ b \in Seq(T)
    BY <2>4
  <2> HIDE DEF T
  <2> QED
    BY <2>2, <2>3, <2>5, DiffIsRight
<1> QED
  BY <1>1, ComparedStarts, ComparedSteps, PTL DEF Spec

-----------------------------------------------------------------------------
(***************************************************************************)
(* The code generation agent.                                              *)
(***************************************************************************)

\* How often a language is in a list.
Times(s, lang) == Cardinality({i \in DOMAIN s : s[i] = lang})

LEMMA TimesOfNothing == \A lang : Times(<<>>, lang) = 0
<1> SUFFICES ASSUME NEW lang PROVE Times(<<>>, lang) = 0
  OBVIOUS
<1>1. {i \in DOMAIN <<>> : <<>>[i] = lang} = {}
  OBVIOUS
<1> QED
  BY <1>1, FS_EmptySet DEF Times

LEMMA TimesOfAppend ==
  ASSUME NEW T, NEW s \in Seq(T), NEW e \in T, NEW lang
  PROVE  /\ Times(s, lang) \in Nat
         /\ Times(Append(s, e), lang) = IF e = lang THEN Times(s, lang) + 1 ELSE Times(s, lang)
<1> DEFINE n == Len(s)
           t == Append(s, e)
           P == {i \in 1 .. n : s[i] = lang}
           Q == {i \in 1 .. n + 1 : t[i] = lang}
<1>1. n \in Nat /\ DOMAIN s = 1 .. n /\ DOMAIN t = 1 .. n + 1
      /\ t[n + 1] = e /\ \A i \in 1 .. n : t[i] = s[i]
  OBVIOUS
<1>2. Times(s, lang) = Cardinality(P) /\ Times(t, lang) = Cardinality(Q)
  BY <1>1 DEF Times
<1> HIDE DEF t, n
<1>3. IsFiniteSet(P) /\ n + 1 \notin P
  <2>1. IsFiniteSet(1 .. n) /\ P \subseteq 1 .. n
    BY <1>1, FS_Interval
  <2> QED
    BY <1>1, <2>1, FS_Subset
<1>4. Q = IF e = lang THEN P \cup {n + 1} ELSE P
  <2>1. \A i : i \in 1 .. n + 1 <=> i \in 1 .. n \/ i = n + 1
    BY <1>1
  <2>2. n + 1 \notin 1 .. n
    BY <1>1
  <2> QED
    BY <1>1, <2>1, <2>2
<1> HIDE DEF P, Q
<1>5. Cardinality(P) \in Nat
  BY <1>3, FS_CardinalityType
<1>6. Cardinality(P \cup {n + 1}) = Cardinality(P) + 1
  BY <1>3, FS_AddElement
<1> QED
  BY <1>2, <1>4, <1>5, <1>6 DEF t

Langs(results) == [i \in DOMAIN results |-> results[i].lang]
GeneratedFor(T) == [failed : BOOLEAN, lang : T, files : {{"server", "client"}}]

LEMMA LangsOfAppend ==
  ASSUME NEW T, NEW s \in Seq(GeneratedFor(T)), NEW e \in GeneratedFor(T)
  PROVE  /\ Langs(s) \in Seq(T) /\ Len(Langs(s)) = Len(s)
         /\ Langs(Append(s, e)) = Append(Langs(s), e.lang)
<1> DEFINE A == GeneratedFor(T)
           t == Append(s, e)
           left == Langs(t)
           right == Append(Langs(s), e.lang)
<1>1. \A x \in A : x.lang \in T
  BY DEF GeneratedFor
<1> HIDE DEF A
<1>2. /\ s \in Seq(A) /\ e \in A /\ t \in Seq(A) /\ Len(t) = Len(s) + 1 /\ Len(s) \in Nat
      /\ t[Len(s) + 1] = e /\ \A i \in 1 .. Len(s) : t[i] = s[i]
  BY DEF A
<1>3. Langs(s) \in Seq(T) /\ Len(Langs(s)) = Len(s) /\ \A i \in 1 .. Len(s) : Langs(s)[i] = s[i].lang
  BY <1>1, <1>2 DEF Langs
<1> HIDE DEF t
<1>4. left \in Seq(T) /\ Len(left) = Len(s) + 1 /\ \A i \in 1 .. Len(s) + 1 : left[i] = t[i].lang
  BY <1>1, <1>2 DEF Langs
<1>5. e.lang \in T
  BY <1>1, <1>2
<1>6. /\ right \in Seq(T) /\ Len(right) = Len(s) + 1 /\ right[Len(s) + 1] = e.lang
      /\ \A i \in 1 .. Len(s) : right[i] = s[i].lang
  BY <1>2, <1>3, <1>5
<1>7. \A i \in 1 .. Len(s) + 1 : left[i] = right[i]
  <2> SUFFICES ASSUME NEW i \in 1 .. Len(s) + 1 PROVE left[i] = right[i]
    OBVIOUS
  <2> HIDE DEF left, right
  <2>1. CASE i = Len(s) + 1
    BY <1>2, <1>4, <1>6, <2>1
  <2>2. CASE i # Len(s) + 1
    <3>1. i \in 1 .. Len(s)
      BY <1>2, <2>2
    <3> QED
      BY <1>2, <1>4, <1>6, <3>1
  <2> QED
    BY <2>1, <2>2
<1> HIDE DEF left, right
<1>8. left = right
  BY <1>4, <1>6, <1>7, SeqEqual
<1> QED
  BY <1>3, <1>8 DEF left, right, t

\* What the agent has done: the requests that are left are the last languages of the
\* task, and those before them are in the results or among the errors, as often as they
\* were asked for.
Done(requests, results, errs, languages) ==
  LET T == Range(languages)
      d == Len(languages) - Len(requests)
  IN /\ languages \in Seq(T) /\ requests \in Seq(T) /\ errs \in Seq(T)
     /\ results \in Seq(GeneratedFor(T))
     /\ Len(requests) <= Len(languages)
     /\ \A i \in 1 .. Len(requests) : requests[i] = languages[d + i]
     /\ \A lang : Times(Langs(results), lang) + Times(errs, lang)
                    = Times(SubSeq(languages, 1, d), lang)

LEMMA NothingDone ==
  ASSUME NEW languages, languages \in Seq(Range(languages))
  PROVE  Done(languages, <<>>, <<>>, languages)
<1> DEFINE T == Range(languages)
           n == Len(languages)
<1>1. n \in Nat /\ n - n = 0 /\ n <= n /\ \A i \in 1 .. n : 0 + i = i
  OBVIOUS
<1>2. languages \in Seq(T) /\ <<>> \in Seq(T) /\ <<>> \in Seq(GeneratedFor(T))
  OBVIOUS
<1>3. Langs(<<>>) = <<>> /\ SubSeq(languages, 1, 0) = <<>>
  BY DEF Langs
<1>4. \A lang : Times(Langs(<<>>), lang) + Times(<<>>, lang)
                  = Times(SubSeq(languages, 1, 0), lang)
  <2> SUFFICES ASSUME NEW lang
               PROVE  Times(Langs(<<>>), lang) + Times(<<>>, lang)
                        = Times(SubSeq(languages, 1, 0), lang)
    OBVIOUS
  <2>1. /\ Times(<<>>, lang) = 0 /\ Times(Langs(<<>>), lang) = Times(<<>>, lang)
        /\ Times(SubSeq(languages, 1, 0), lang) = Times(<<>>, lang)
    BY <1>3, TimesOfNothing
  <2>2. 0 + 0 = 0
    OBVIOUS
  <2> QED
    BY <2>1, <2>2
<1> HIDE DEF T, n
<1>5. \A i \in 1 .. n : languages[i] = languages[(n - n) + i]
  BY <1>1
<1> QED
  BY <1>1, <1>2, <1>4, <1>5 DEF Done, T, n

\* The head of the requests is the next language, whatever becomes of it.
LEMMA NextLanguage ==
  ASSUME NEW requests, NEW results, NEW errs, NEW languages,
         Done(requests, results, errs, languages), requests # <<>>
  PROVE  LET T == Range(languages)
             d == Len(languages) - Len(requests)
         IN /\ Head(requests) \in T /\ Tail(requests) \in Seq(T)
            /\ Len(Tail(requests)) <= Len(languages)
            /\ Len(languages) - Len(Tail(requests)) = d + 1 /\ d \in Nat
            /\ \A i \in 1 .. Len(Tail(requests)) : Tail(requests)[i] = languages[(d + 1) + i]
            /\ SubSeq(languages, 1, d) \in Seq(T)
            /\ SubSeq(languages, 1, d + 1) = Append(SubSeq(languages, 1, d), Head(requests))
<1> DEFINE T == Range(languages)
           n == Len(languages)
           r == Len(requests)
           d == n - r
           rest == Tail(requests)
<1>1. /\ languages \in Seq(T) /\ requests \in Seq(T) /\ r <= n
      /\ \A i \in 1 .. r : requests[i] = languages[d + i]
  BY DEF Done
<1> HIDE DEF T
<1>2. /\ n \in Nat /\ r \in Nat /\ r # 0 /\ Head(requests) = requests[1] /\ requests[1] \in T
      /\ rest \in Seq(T) /\ Len(rest) = r - 1 /\ \A i \in 1 .. r - 1 : rest[i] = requests[i + 1]
  BY <1>1
<1> HIDE DEF n, r, rest
<1>3. d \in Nat /\ n - (r - 1) = d + 1 /\ r - 1 <= n /\ d + 1 <= n /\ 1 \in 1 .. r
      /\ 1 \in Nat /\ 1 <= 1 /\ 1 <= d + 1
  BY <1>1, <1>2
<1>4. \A i \in 1 .. r - 1 : i + 1 \in 1 .. r /\ d + (i + 1) = (d + 1) + i
  BY <1>2, <1>3
<1>5. requests[1] = languages[d + 1]
  BY <1>1, <1>3
<1> HIDE DEF d
<1>6. \A i \in 1 .. r - 1 : rest[i] = languages[(d + 1) + i]
  BY <1>1, <1>2, <1>4
<1>7. SubSeq(languages, 1, d) \in Seq(T)
  BY <1>1, <1>3 DEF n
<1>8. SubSeq(languages, 1, d + 1) = Append(SubSeq(languages, 1, d), Head(requests))
  <2>1. /\ languages \in Seq(T) /\ 1 \in Nat /\ 1 <= 1 /\ d \in Nat /\ 1 <= d + 1
        /\ d + 1 <= Len(languages)
    BY <1>1, <1>3 DEF n
  <2>2. SubSeq(languages, 1, d + 1) = Append(SubSeq(languages, 1, d), languages[d + 1])
    BY <2>1, SubSeqGrows
  <2> QED
    BY <1>2, <1>5, <2>2
<1> QED
  BY <1>2, <1>3, <1>6, <1>7, <1>8 DEF T, d, n, r, rest

\* One language more, with its files or as an error.
LEMMA LanguageDone ==
  ASSUME NEW requests, NEW results, NEW errs, NEW languages,
         Done(requests, results, errs, languages), requests # <<>>, NEW result,
         result \in GeneratedFor(Range(languages)), result.lang = Head(requests)
  PROVE  /\ Done(Tail(requests), results, Append(errs, Head(requests)), languages)
         /\ Done(Tail(requests), Append(results, result), errs, languages)
<1> DEFINE T == Range(languages)
           d == Len(languages) - Len(requests)
           lang == Head(requests)
           rest == Tail(requests)
           before == SubSeq(languages, 1, d)
           sofar == SubSeq(languages, 1, d + 1)
<1>1. /\ lang \in T /\ rest \in Seq(T) /\ Len(rest) <= Len(languages)
      /\ Len(languages) - Len(rest) = d + 1 /\ before \in Seq(T)
      /\ \A i \in 1 .. Len(rest) : rest[i] = languages[(d + 1) + i]
      /\ sofar = Append(before, lang)
  BY NextLanguage
<1>2. /\ languages \in Seq(T) /\ errs \in Seq(T) /\ results \in Seq(GeneratedFor(T))
      /\ \A l : Times(Langs(results), l) + Times(errs, l) = Times(before, l)
      /\ result \in GeneratedFor(T) /\ result.lang = lang
  BY DEF Done
<1> HIDE DEF T, d, lang, rest, before, sofar
<1>3. /\ Langs(results) \in Seq(T) /\ Langs(Append(results, result)) = Append(Langs(results), lang)
      /\ Append(results, result) \in Seq(GeneratedFor(T)) /\ Append(errs, lang) \in Seq(T)
  BY <1>1, <1>2, LangsOfAppend
<1>4. ASSUME NEW l
      PROVE  /\ Times(Langs(results), l) + Times(Append(errs, lang), l) = Times(sofar, l)
             /\ Times(Langs(Append(results, result)), l) + Times(errs, l) = Times(sofar, l)
  <2> DEFINE x == Times(Langs(results), l)
             y == Times(errs, l)
             z == Times(before, l)
             one == IF lang = l THEN 1 ELSE 0
  <2>1. /\ x \in Nat /\ Times(Append(Langs(results), lang), l) = IF lang = l THEN x + 1 ELSE x
        /\ y \in Nat /\ Times(Append(errs, lang), l) = IF lang = l THEN y + 1 ELSE y
        /\ z \in Nat /\ Times(Append(before, lang), l) = IF lang = l THEN z + 1 ELSE z
    BY <1>1, <1>2, <1>3, TimesOfAppend
  <2>2. x + y = z
    BY <1>2
  <2>3. Times(sofar, l) = Times(Append(before, lang), l)
        /\ Times(Langs(Append(results, result)), l) = Times(Append(Langs(results), lang), l)
    BY <1>1, <1>3
  <2> HIDE DEF x, y, z
  <2>4. x + (y + 1) = z + 1 /\ (x + 1) + y = z + 1
    BY <2>1, <2>2
  <2> QED
    BY <2>1, <2>2, <2>3, <2>4 DEF x, y, z
<1> QED
  BY <1>1, <1>2, <1>3, <1>4 DEF Done, T, d, lang, rest, sofar

\* While the agent is at work Done holds of its state.
AtWork ==
  at = "generating" =>
    /\ task.tool = "generate"
    /\ out = [requests |-> out.requests, results |-> out.results, errs |-> out.errs]
    /\ Done(out.requests, out.results, out.errs, task.languages)

\* Every language of an answer is in the manifest or an error.
Accounted(o, languages) ==
  LET done == IF o.status = 200 THEN o.manifest ELSE <<>>
  IN /\ \A lang \in Range(languages) :
          Times(done, lang) + Times(o.error, lang) = Times(languages, lang)
     /\ o.status = 200 => {e[1] : e \in o.archive} = Range(done)
     /\ o.status = 422 <=> done = <<>>

LEMMA AccountedIs ==
  LanguagesAccountedFor <=>
    (at = "done" /\ task.tool = "generate" /\ task.versions # <<>> /\ task.languages # <<>>
       => Accounted(out, task.languages))
BY DEF LanguagesAccountedFor, Accounted, Times

LEMMA NothingAccounted == Init => AtWork /\ LanguagesAccountedFor
BY DEF Init, AtWork, LanguagesAccountedFor

\* The answer of a run whose last language is done.
LEMMA AllAccounted ==
  ASSUME AtWork, Respond
  PROVE  LanguagesAccountedFor'
<1> DEFINE T == Range(task.languages)
           results == out.results
           errs == out.errs
           n == Len(task.languages)
<1>1. /\ at = "generating" /\ out.requests = <<>> /\ task' = task /\ at' = "done"
      /\ Done(<<>>, results, errs, task.languages)
  BY DEF AtWork, Respond, Answer
<1>2. /\ task.languages \in Seq(T) /\ errs \in Seq(T) /\ results \in Seq(GeneratedFor(T))
      /\ \A lang : Times(Langs(results), lang) + Times(errs, lang) = Times(task.languages, lang)
  <2>1. /\ task.languages \in Seq(T) /\ errs \in Seq(T) /\ results \in Seq(GeneratedFor(T))
        /\ \A lang : Times(Langs(results), lang) + Times(errs, lang)
                       = Times(SubSeq(task.languages, 1, n - Len(<<>>)), lang)
    BY <1>1 DEF Done
  <2>2. SubSeq(task.languages, 1, n - Len(<<>>)) = task.languages
    BY <2>1
  <2> QED
    BY <2>1, <2>2
<1>3. /\ \A r \in Range(results) : r.files = {"server", "client"}
      /\ Range(Langs(results)) = {r.lang : r \in Range(results)}
      /\ results # <<>> => Langs(results) # <<>>
  <2> HIDE DEF results, T
  <2>1. \A r \in GeneratedFor(T) : r.files = {"server", "client"}
    BY DEF GeneratedFor
  <2>2. /\ Len(Langs(results)) = Len(results) /\ DOMAIN Langs(results) = DOMAIN results
        /\ \A i \in DOMAIN results : Langs(results)[i] = results[i].lang
        /\ \A i \in DOMAIN results : results[i] \in GeneratedFor(T)
    BY <1>2 DEF Langs
  <2>3. results # <<>> => Langs(results) # <<>>
    BY <1>2, <2>2
  <2>4. \A r \in Range(results) : r.files = {"server", "client"}
    BY <2>1, <2>2 DEF Range
  <2>5. Range(Langs(results)) = {r.lang : r \in Range(results)}
    BY <2>2 DEF Range
  <2> QED
    BY <2>3, <2>4, <2>5
<1>6. Accounted(out', task.languages) => LanguagesAccountedFor'
  BY <1>1 DEF LanguagesAccountedFor, Accounted, Times
<1> HIDE DEF results, errs, T
<1>4. CASE results = <<>>
  <2>1. out' = [status |-> 422, error |-> errs]
    BY <1>4 DEF Respond, Answer, results, errs
  <2>2. out'.status = 422 /\ out'.error = errs
    BY <2>1
  <2>3. \A lang : Times(<<>>, lang) + Times(errs, lang) = Times(task.languages, lang)
    <3>1. Langs(<<>>) = <<>>
      BY DEF Langs
    <3> QED
      BY <1>2, <1>4, <3>1
  <2>4. out'.status # 200
    BY <2>2
  <2>5. Accounted(out', task.languages)
    BY <2>2, <2>3, <2>4 DEF Accounted
  <2> QED
    BY <1>6, <2>5
<1>5. CASE results # <<>>
  <2>1. out' = [status |-> 200, archive |-> UNION {Entries(r) : r \in Range(results)},
                manifest |-> Langs(results), error |-> errs]
    BY <1>5 DEF Respond, Answer, Langs, results, errs
  <2>2. /\ out'.status = 200 /\ out'.error = errs /\ out'.manifest = Langs(results)
        /\ out'.archive = UNION {Entries(r) : r \in Range(results)}
    BY <2>1
  <2>3. {e[1] : e \in out'.archive} = {r.lang : r \in Range(results)}
    <3>1. ASSUME NEW e \in out'.archive PROVE e[1] \in {r.lang : r \in Range(results)}
      <4>1. PICK r \in Range(results) : e \in Entries(r)
        BY <2>2
      <4> QED
        BY <4>1 DEF Entries
    <3>2. ASSUME NEW r \in Range(results) PROVE \E e \in out'.archive : e[1] = r.lang
      <4>1. <<r.lang, "server">> \in Entries(r)
        BY <1>3 DEF Entries
      <4>2. <<r.lang, "server">> \in out'.archive /\ <<r.lang, "server">>[1] = r.lang
        BY <2>2, <4>1
      <4> QED
        BY <4>2
    <3> QED
      BY <3>1, <3>2
  <2>4. out'.status # 422
    BY <2>2
  <2>5. Accounted(out', task.languages)
    BY <1>2, <1>3, <1>5, <2>2, <2>3, <2>4 DEF Accounted
  <2> QED
    BY <1>6, <2>5
<1> QED
  BY <1>4, <1>5

LEMMA AccountingSteps ==
  ASSUME ComparedRight, AtWork, LanguagesAccountedFor, [Next]_vars
  PROVE  AtWork' /\ LanguagesAccountedFor'
<1>1. CASE Diff \/ RunDiff
  <2>1. task' = task /\ task.tool # "generate"
    BY <1>1, RunDiffAnswers DEF Diff, Answer
  <2>2. at' # "generating"
    BY <1>1, RunDiffAnswers DEF Diff, Answer
  <2> QED
    BY <2>1, <2>2 DEF AtWork, LanguagesAccountedFor
<1>2. CASE Plan
  <2>1. CASE NotLoaded \/ task.languages = <<>>
    BY <1>2, <2>1 DEF Plan, Answer, NotLoaded, AtWork, LanguagesAccountedFor
  <2>2. CASE ~ (NotLoaded \/ task.languages = <<>>)
    <3>1. /\ at' = "generating" /\ task' = task /\ task.tool = "generate"
          /\ out' = [requests |-> task.languages, results |-> <<>>, errs |-> <<>>]
      BY <1>2, <2>2 DEF Plan
    <3>2. task.languages \in Seq(Range(task.languages))
      BY <3>1, TasksAssumption DEF ComparedRight
    <3>3. Done(task.languages, <<>>, <<>>, task.languages)
      BY <3>2, NothingDone
    <3>4. /\ out'.requests = task.languages /\ out'.results = <<>> /\ out'.errs = <<>>
          /\ out' = [requests |-> out'.requests, results |-> out'.results, errs |-> out'.errs]
      BY <3>1
    <3> QED
      BY <3>1, <3>3, <3>4 DEF AtWork, LanguagesAccountedFor
  <2> QED
    BY <2>1, <2>2
<1>3. CASE Generate
  <2> DEFINE lang == Head(out.requests)
             active == task.versions[Len(task.versions)]
             result == Generated(SelectAdapter(lang), lang, active)
             bad == result.failed \/ result.files = {}
             done == [out EXCEPT !.requests = Tail(out.requests),
                                 !.results = Append(out.results, result)]
             failed == [out EXCEPT !.requests = Tail(out.requests),
                                   !.errs = Append(out.errs, lang)]
  <2>1. /\ at = "generating" /\ at' = "generating" /\ task' = task /\ out.requests # <<>>
        /\ Done(out.requests, out.results, out.errs, task.languages) /\ task.tool = "generate"
        /\ out' = done \/ out' = failed
        /\ out = [requests |-> out.requests, results |-> out.results, errs |-> out.errs]
    BY <1>3 DEF Generate, AtWork, Continue
  <2>2. result \in GeneratedFor(Range(task.languages)) /\ result.lang = lang
    <3>1. lang \in Range(task.languages)
      BY <2>1, NextLanguage
    <3> HIDE DEF lang, active
    <3> QED
      BY <3>1 DEF GeneratedFor, Generated
  <2> HIDE DEF lang, result
  <2>3. /\ Done(Tail(out.requests), out.results, Append(out.errs, lang), task.languages)
        /\ Done(Tail(out.requests), Append(out.results, result), out.errs, task.languages)
    BY <2>1, <2>2, LanguageDone DEF lang
  <2>4. \/ out' = [requests |-> Tail(out.requests), results |-> Append(out.results, result),
                   errs |-> out.errs]
        \/ out' = [requests |-> Tail(out.requests), results |-> out.results,
                   errs |-> Append(out.errs, lang)]
    BY <2>1
  <2>5. /\ out' = [requests |-> out'.requests, results |-> out'.results, errs |-> out'.errs]
        /\ Done(out'.requests, out'.results, out'.errs, task.languages)
    <3> DEFINE o1 == [requests |-> Tail(out.requests), results |-> Append(out.results, result),
                      errs |-> out.errs]
               o2 == [requests |-> Tail(out.requests), results |-> out.results,
                      errs |-> Append(out.errs, lang)]
    <3>1. /\ o1.requests = Tail(out.requests) /\ o1.results = Append(out.results, result)
          /\ o1.errs = out.errs /\ o2.requests = Tail(out.requests)
          /\ o2.results = out.results /\ o2.errs = Append(out.errs, lang)
          /\ o1 = [requests |-> o1.requests, results |-> o1.results, errs |-> o1.errs]
          /\ o2 = [requests |-> o2.requests, results |-> o2.results, errs |-> o2.errs]
      OBVIOUS
    <3>2. out' = o1 \/ out' = o2
      BY <2>4
    <3> HIDE DEF o1, o2
    <3>3. CASE out' = o1
      BY <2>3, <3>1, <3>3
    <3>4. CASE out' = o2
      BY <2>3, <3>1, <3>4
    <3> QED
      BY <3>2, <3>3, <3>4
  <2> QED
    BY <2>1, <2>5 DEF AtWork, LanguagesAccountedFor
<1>4. CASE Respond
  BY <1>4, AllAccounted DEF Respond, Answer, AtWork
<1>5. CASE UNCHANGED vars
  BY <1>5 DEF vars, AtWork, LanguagesAccountedFor
<1> QED
  BY <1>1, <1>2, <1>3, <1>4, <1>5 DEF Next

\* LanguagesAccountedFor, which the run checks: every language that was asked for is in
\* the manifest or in the error, as often as it was asked for, and the archive holds
\* files of exactly the languages in its manifest.  For every list of languages, those
\* without an adapter and repeated ones included.
THEOREM EveryLanguageAccountedFor == Spec => []LanguagesAccountedFor
<1> DEFINE IInv == ComparedRight /\ AtWork /\ LanguagesAccountedFor
<1>1. Init => IInv
  BY ComparedStarts, NothingAccounted
<1>2. IInv /\ [Next]_vars => IInv'
  BY ComparedSteps, AccountingSteps
<1> HIDE DEF IInv
<1>3. IInv => LanguagesAccountedFor
  BY DEF IInv
<1> QED
  BY <1>1, <1>2, <1>3, PTL DEF Spec

-----------------------------------------------------------------------------
(***************************************************************************)
(* The cache of compiled schemas.                                          *)
(***************************************************************************)

\* What the lemmas say of sequences.
NoTwice(s) == \A i, j \in 1..Len(s) : s[i] = s[j] => i = j
Names(s) == {s[i] : i \in 1..Len(s)}

LEMMA FirstPlace ==
  ASSUME NEW S, NEW s \in Seq(S), NEW e, NEW k \in 1..Len(s), s[k] = e
  PROVE  \E i \in 1..Len(s) : s[i] = e /\ RemoveFirst(s, e) = RemoveAt(s, i)
<1> DEFINE I == {i \in 1..Len(s) : s[i] = e}
<1>1. I # {} /\ I \subseteq Nat
  OBVIOUS
<1>2. \E i \in I : \A j \in I : i <= j
  BY <1>1, SmallestOf
<1>3. Min(I) \in I
  BY <1>2 DEF Min
<1>4. SelectInSeq(s, LAMBDA v : v = e) = Min(I)
  BY <1>1 DEF SelectInSeq
<1> QED
  BY <1>3, <1>4 DEF RemoveFirst

\* RemoveFirst, element by element; what is not there is not removed.
LEMMA RemovedPlaces ==
  ASSUME NEW S, NEW s \in Seq(S), NEW e, NEW k \in 1..Len(s), s[k] = e, NoTwice(s)
  PROVE  LET r == RemoveFirst(s, e) IN
         /\ r \in Seq(S) /\ Len(r) = Len(s) - 1
         /\ \A j \in 1..Len(r) : r[j] = IF j < k THEN s[j] ELSE s[j + 1]
<1>1. RemoveFirst(s, e) = RemoveAt(s, k)
  BY FirstPlace DEF NoTwice
<1> DEFINE before == SubSeq(s, 1, k - 1)
           after == SubSeq(s, k + 1, Len(s))
<1>2. /\ before \in Seq(S) /\ Len(before) = k - 1
      /\ \A j \in 1..(k - 1) : before[j] = s[j]
  OBVIOUS
<1>3. /\ after \in Seq(S) /\ Len(after) = Len(s) - k
      /\ \A j \in 1..(Len(s) - k) : after[j] = s[k + j]
  OBVIOUS
<1>4. RemoveFirst(s, e) = before \o after
  BY <1>1 DEF RemoveAt
<1> HIDE DEF before, after
<1> DEFINE r == before \o after
<1>5. r \in Seq(S) /\ Len(r) = Len(s) - 1
  <2>1. r \in Seq(S) /\ Len(r) = Len(before) + Len(after)
    BY <1>2, <1>3, before \in Seq(S), after \in Seq(S), ConcatProperties
  <2> QED
    BY <1>2, <1>3, <2>1
<1>6. ASSUME NEW j \in 1..(Len(s) - 1), j < k PROVE r[j] = s[j]
  BY <1>2, <1>3, <1>6
<1>7. ASSUME NEW j \in 1..(Len(s) - 1), j >= k PROVE r[j] = s[j + 1]
  <2>1. r[j] = after[j - (k - 1)] /\ j - (k - 1) \in 1..(Len(s) - k)
    BY <1>2, <1>3, <1>7
  <2>2. after[j - (k - 1)] = s[k + (j - (k - 1))]
    BY <1>3, <2>1
  <2> QED
    BY <2>1, <2>2
<1> QED
  BY <1>4, <1>5, <1>6, <1>7

LEMMA NothingRemoved ==
  ASSUME NEW S, NEW s \in Seq(S), NEW e, e \notin Names(s)
  PROVE  RemoveFirst(s, e) = s
BY DEF RemoveFirst, Names

\* What is found moves to the end, and the others close up.
Moved(s, e) == Append(RemoveFirst(s, e), e)

LEMMA MovedPlaces ==
  ASSUME NEW S, NEW s \in Seq(S), NEW e \in S, NEW k \in 1..Len(s), s[k] = e, NoTwice(s)
  PROVE  /\ Moved(s, e) \in Seq(S) /\ Len(Moved(s, e)) = Len(s)
         /\ \A j \in 1..Len(s) : j < k => Moved(s, e)[j] = s[j]
         /\ \A j \in 1..Len(s) : k <= j /\ j < Len(s) => Moved(s, e)[j] = s[j + 1]
         /\ Moved(s, e)[Len(s)] = e
<1> DEFINE r == RemoveFirst(s, e)
<1>1. /\ r \in Seq(S) /\ Len(r) = Len(s) - 1
      /\ \A j \in 1..Len(r) : r[j] = IF j < k THEN s[j] ELSE s[j + 1]
  BY RemovedPlaces
<1> HIDE DEF r
<1>2. /\ Append(r, e) \in Seq(S) /\ Len(Append(r, e)) = Len(s)
      /\ \A j \in 1..Len(r) : Append(r, e)[j] = r[j]
      /\ Append(r, e)[Len(s)] = e
  BY <1>1
<1>3. Append(r, e) = Moved(s, e)
  BY DEF r, Moved
<1>4. ASSUME NEW j \in 1..Len(s), j < k PROVE Moved(s, e)[j] = s[j]
  BY <1>1, <1>2, <1>3, <1>4
<1>5. ASSUME NEW j \in 1..Len(s), k <= j, j < Len(s) PROVE Moved(s, e)[j] = s[j + 1]
  BY <1>1, <1>2, <1>3, <1>5
<1> QED
  BY <1>2, <1>3, <1>4, <1>5

LEMMA MovedNames ==
  ASSUME NEW S, NEW s \in Seq(S), NEW e \in S, e \in Names(s), NoTwice(s)
  PROVE  /\ Moved(s, e) \in Seq(S) /\ Len(Moved(s, e)) = Len(s)
         /\ NoTwice(Moved(s, e)) /\ Names(Moved(s, e)) = Names(s)
<1>1. PICK k \in 1..Len(s) : s[k] = e
  BY DEF Names
<1> DEFINE m == Moved(s, e)
<1>2. /\ m \in Seq(S) /\ Len(m) = Len(s)
      /\ \A j \in 1..Len(s) : j < k => m[j] = s[j]
      /\ \A j \in 1..Len(s) : k <= j /\ j < Len(s) => m[j] = s[j + 1]
      /\ m[Len(s)] = e
  BY <1>1, MovedPlaces
<1> HIDE DEF m
<1>3. NoTwice(m)
  BY <1>1, <1>2 DEF NoTwice
<1>4. \A j \in 1..Len(s) : m[j] \in Names(s)
  BY <1>1, <1>2 DEF Names
<1>5. \A j \in 1..Len(s) : s[j] \in Names(m)
  <2>1. ASSUME NEW j \in 1..Len(s), j < k PROVE s[j] \in Names(m)
    BY <1>2, <2>1 DEF Names
  <2>2. ASSUME NEW j \in 1..Len(s), j > k PROVE s[j] \in Names(m)
    <3>1. j - 1 \in 1..Len(m) /\ m[j - 1] = s[j]
      BY <1>2, <2>2
    <3> QED
      BY <3>1 DEF Names
  <2>3. s[k] \in Names(m)
    BY <1>1, <1>2 DEF Names
  <2> QED
    BY <2>1, <2>2, <2>3
<1> QED
  BY <1>2, <1>3, <1>4, <1>5 DEF m, Names

LEMMA AddedNames ==
  ASSUME NEW S, NEW s \in Seq(S), NEW e \in S, e \notin Names(s), NoTwice(s)
  PROVE  /\ Append(s, e) \in Seq(S) /\ Len(Append(s, e)) = Len(s) + 1
         /\ NoTwice(Append(s, e)) /\ Names(Append(s, e)) = Names(s) \cup {e}
BY DEF NoTwice, Names

LEMMA TailNames ==
  ASSUME NEW S, NEW s \in Seq(S), s # <<>>, NoTwice(s)
  PROVE  /\ Tail(s) \in Seq(S) /\ Len(Tail(s)) = Len(s) - 1
         /\ NoTwice(Tail(s)) /\ Names(Tail(s)) = Names(s) \ {Head(s)}
<1>1. /\ Tail(s) \in Seq(S) /\ Len(Tail(s)) = Len(s) - 1 /\ Head(s) = s[1]
      /\ \A j \in 1..(Len(s) - 1) : Tail(s)[j] = s[j + 1]
  OBVIOUS
<1>2. NoTwice(Tail(s))
  BY <1>1 DEF NoTwice
<1>3. \A j \in 1..(Len(s) - 1) : Tail(s)[j] \in Names(s) /\ Tail(s)[j] # Head(s)
  BY <1>1 DEF NoTwice, Names
<1>4. \A j \in 2..Len(s) : s[j] \in Names(Tail(s))
  <2>1. ASSUME NEW j \in 2..Len(s) PROVE j - 1 \in 1..Len(Tail(s)) /\ Tail(s)[j - 1] = s[j]
    BY <1>1
  <2> QED
    BY <2>1 DEF Names
<1> QED
  BY <1>1, <1>2, <1>3, <1>4 DEF Names
-----------------------------------------------------------------------------
(* The cache *)

\* The cached contracts are the end of the used ones, place by place.
EndOfUsed ==
  /\ Len(order) <= Len(used)
  /\ \A j \in 1..Len(order) : order[j] = used[Len(used) - Len(order) + j]

\* What the steps preserve: KeepsLastUsed needs to know that nothing is noted
\* twice as used, and CacheConsistent that order and schemas name the same.
CacheInv ==
  /\ CacheTypeOK
  /\ NoTwice(order) /\ Names(order) = schemas /\ Len(order) <= MaxCachedSchemas
  /\ used \in Seq(Contract) /\ NoTwice(used)
  /\ EndOfUsed

LEMMA InitInv == CacheInit => CacheInv
BY CacheAssumption DEF CacheInit, CacheInv, CacheTypeOK, NoTwice, Names, EndOfUsed, Outside

\* A step that leaves the cache alone.
LEMMA LoadOnly ==
  ASSUME CacheInv, UNCHANGED <<schemas, order, used>>,
         load' \in [Handler -> LoadSteps \cup {Outside}]
  PROVE  CacheInv'
<1>1. order' = order /\ schemas' = schemas /\ used' = used
  OBVIOUS
<1>2. CacheTypeOK'
  BY <1>1 DEF CacheInv, CacheTypeOK
<1>3. EndOfUsed'
  BY <1>1 DEF CacheInv, EndOfUsed
<1>4. NoTwice(order)' /\ (Names(order) = schemas)' /\ NoTwice(used)'
  BY <1>1 DEF CacheInv
<1> QED
  BY <1>1, <1>2, <1>3, <1>4 DEF CacheInv

LEMMA LoadTypes ==
  ASSUME CacheTypeOK, NEW h \in Handler, load[h].at \in {"load", "parse", "store", "loaded"}
  PROVE  /\ load[h].contract \in Contract
         /\ \A step \in {"load", "parse", "store", "loaded"} :
              To(h, step) => load' \in [Handler -> LoadSteps \cup {Outside}]
BY DEF CacheTypeOK, LoadSteps, Outside, To

LEMMA HitKeeps ==
  ASSUME CacheInv, NEW h \in Handler, Hit(h)
  PROVE  CacheInv'
<1> DEFINE c == load[h].contract
           d == Len(used) - Len(order)
<1>1. c \in Contract /\ load' \in [Handler -> LoadSteps \cup {Outside}]
  BY LoadTypes DEF CacheInv, Hit
<1>2. c \in Names(order)
  BY DEF CacheInv, Hit
<1>3. PICK k \in 1..Len(order) : order[k] = c
  BY <1>2 DEF Names
<1>4. d \in Nat /\ d + k \in 1..Len(used) /\ used[d + k] = c
  BY <1>3 DEF CacheInv, EndOfUsed, CacheTypeOK
<1>5. c \in Names(used)
  BY <1>4 DEF Names
<1>6. order' = Moved(order, c) /\ used' = Moved(used, c)
  BY DEF Hit, MovedToEnd, Noted, Moved
<1>7. /\ order' \in Seq(Contract) /\ Len(order') = Len(order)
      /\ NoTwice(order') /\ Names(order') = Names(order)
  BY <1>1, <1>2, <1>6, MovedNames DEF CacheInv, CacheTypeOK
<1>8. used' \in Seq(Contract) /\ Len(used') = Len(used) /\ NoTwice(used')
  BY <1>1, <1>5, <1>6, MovedNames DEF CacheInv
<1>9. EndOfUsed'
  <2>1. /\ \A j \in 1..Len(order) : j < k => order'[j] = order[j]
        /\ \A j \in 1..Len(order) : k <= j /\ j < Len(order) => order'[j] = order[j + 1]
        /\ order'[Len(order)] = c
    BY <1>1, <1>3, <1>6, MovedPlaces DEF CacheInv, CacheTypeOK
  <2>2. /\ \A j \in 1..Len(used) : j < d + k => used'[j] = used[j]
        /\ \A j \in 1..Len(used) : d + k <= j /\ j < Len(used) => used'[j] = used[j + 1]
        /\ used'[Len(used)] = c
    <3> HIDE DEF d
    <3> QED
      BY <1>1, <1>4, <1>6, MovedPlaces DEF CacheInv
  <2>3. Len(order) \in Nat /\ Len(used) \in Nat
    BY DEF CacheInv, CacheTypeOK
  <2>4. \A j \in 1..Len(order) : order[j] = used[d + j]
    BY DEF CacheInv, EndOfUsed
  <2>5. ASSUME NEW j \in 1..Len(order) PROVE order'[j] = used'[d + j]
    <3>1. CASE j < k
      <4>1. order'[j] = order[j] /\ order[j] = used[d + j]
        BY <2>1, <2>4, <3>1
      <4>2. used'[d + j] = used[d + j]
        <5>1. d + j \in 1..Len(used) /\ d + j < d + k
          BY <1>4, <2>3, <3>1
        <5> QED
          BY <2>2, <5>1
      <4> QED
        BY <4>1, <4>2
    <3>2. CASE k <= j /\ j < Len(order)
      <4>1. order'[j] = order[j + 1] /\ order[j + 1] = used[d + (j + 1)]
        BY <2>1, <2>3, <2>4, <3>2
      <4>2. used'[d + j] = used[(d + j) + 1]
        <5>1. d + j \in 1..Len(used) /\ d + k <= d + j /\ d + j < Len(used)
          BY <1>4, <2>3, <3>2
        <5> QED
          BY <2>2, <5>1
      <4> QED
        BY <1>4, <2>3, <4>1, <4>2
    <3>3. CASE j = Len(order)
      BY <1>4, <2>1, <2>2, <2>3, <3>3
    <3> QED
      BY <2>3, <3>1, <3>2, <3>3
  <2> QED
    BY <1>7, <1>8, <2>5 DEF EndOfUsed, CacheInv
<1> QED
  BY <1>1, <1>7, <1>8, <1>9 DEF CacheInv, CacheTypeOK, Hit

\* What has been used, with a contract noted that is not cached: the cached ones,
\* and then this one, are its end.
LEMMA NotedAfterOrder ==
  ASSUME CacheInv, NEW c \in Contract, c \notin Names(order)
  PROVE  LET noted == Moved(used, c)
             longer == Append(order, c) IN
         /\ noted \in Seq(Contract) /\ NoTwice(noted)
         /\ Len(longer) <= Len(noted)
         /\ \A j \in 1..Len(longer) : longer[j] = noted[Len(noted) - Len(longer) + j]
<1> DEFINE noted == Moved(used, c)
           longer == Append(order, c)
           d == Len(used) - Len(order)
<1>1. /\ order \in Seq(Contract) /\ used \in Seq(Contract) /\ NoTwice(used)
      /\ Len(order) \in Nat /\ Len(used) \in Nat /\ d \in Nat
      /\ \A j \in 1..Len(order) : order[j] = used[d + j]
  BY DEF CacheInv, CacheTypeOK, EndOfUsed
<1>2. /\ longer \in Seq(Contract) /\ Len(longer) = Len(order) + 1
      /\ \A j \in 1..Len(order) : longer[j] = order[j]
      /\ longer[Len(order) + 1] = c
  BY <1>1
<1>3. CASE c \notin Names(used)
  <2>1. noted = Append(used, c)
    BY <1>1, <1>3, NothingRemoved DEF Moved
  <2>2. /\ noted \in Seq(Contract) /\ NoTwice(noted) /\ Len(noted) = Len(used) + 1
        /\ \A j \in 1..Len(used) : noted[j] = used[j]
        /\ noted[Len(used) + 1] = c
    BY <1>1, <1>3, <2>1, AddedNames
  <2> HIDE DEF noted, longer
  <2>3. ASSUME NEW j \in 1..Len(longer) PROVE longer[j] = noted[d + j]
    <3>1. CASE j <= Len(order)
      <4>1. longer[j] = used[d + j]
        <5>1. j \in 1..Len(order)
          BY <1>1, <1>2, <3>1
        <5> QED
          BY <1>1, <1>2, <5>1
      <4>2. d + j \in 1..Len(used)
        BY <1>1, <1>2, <3>1
      <4>3. noted[d + j] = used[d + j]
        BY <2>2, <4>2
      <4> QED
        BY <4>1, <4>3
    <3>2. CASE j = Len(order) + 1
      BY <1>1, <1>2, <2>2, <3>2
    <3> QED
      BY <1>1, <1>2, <3>1, <3>2
  <2>4. Len(longer) <= Len(noted) /\ Len(noted) - Len(longer) = d
    BY <1>1, <1>2, <2>2
  <2> QED
    BY <2>2, <2>3, <2>4 DEF noted, longer
<1>4. CASE c \in Names(used)
  <2>1. PICK k \in 1..Len(used) : used[k] = c
    BY <1>4 DEF Names
  <2>2. /\ noted \in Seq(Contract) /\ Len(noted) = Len(used) /\ NoTwice(noted)
        /\ \A j \in 1..Len(used) : k <= j /\ j < Len(used) => noted[j] = used[j + 1]
        /\ noted[Len(used)] = c
    BY <1>1, <1>4, <2>1, MovedNames, MovedPlaces
  <2>3. k <= d
    <3>1. SUFFICES ASSUME k > d PROVE FALSE
      BY <1>1, <2>1
    <3>2. k - d \in 1..Len(order) /\ order[k - d] = used[d + (k - d)]
      BY <1>1, <2>1, <3>1
    <3>3. order[k - d] = c
      BY <1>1, <2>1, <3>2
    <3> QED
      BY <3>2, <3>3 DEF Names
  <2> HIDE DEF noted, longer
  <2>4. ASSUME NEW j \in 1..Len(longer) PROVE longer[j] = noted[(d - 1) + j]
    <3>1. CASE j <= Len(order)
      <4>1. longer[j] = used[d + j]
        <5>1. j \in 1..Len(order)
          BY <1>1, <1>2, <3>1
        <5> QED
          BY <1>1, <1>2, <5>1
      <4>2. noted[(d - 1) + j] = used[((d - 1) + j) + 1]
        <5>1. (d - 1) + j \in 1..Len(used) /\ k <= (d - 1) + j /\ (d - 1) + j < Len(used)
          BY <1>1, <1>2, <2>3, <3>1
        <5> QED
          BY <2>2, <5>1
      <4> QED
        BY <1>1, <4>1, <4>2
    <3>2. CASE j = Len(order) + 1
      BY <1>1, <1>2, <2>2, <3>2
    <3> QED
      BY <1>1, <1>2, <3>1, <3>2
  <2>5. Len(longer) <= Len(noted) /\ Len(noted) - Len(longer) = d - 1
    BY <1>1, <1>2, <2>1, <2>2, <2>3
  <2> QED
    BY <2>2, <2>4, <2>5 DEF noted, longer
<1> QED
  BY <1>3, <1>4

LEMMA InsertKeeps ==
  ASSUME CacheInv, NEW h \in Handler, Insert(h)
  PROVE  CacheInv'
<1> DEFINE c == load[h].contract
           longer == Append(order, c)
           noted == Moved(used, c)
           d == Len(noted) - Len(longer)
<1>1. c \in Contract /\ load' \in [Handler -> LoadSteps \cup {Outside}]
  BY LoadTypes DEF CacheInv, Insert
<1>2. c \notin Names(order)
  BY DEF CacheInv, Insert, Cached
<1>3. /\ order' = IF Full(longer) THEN Tail(longer) ELSE longer
      /\ schemas' = (schemas \cup {c}) \ (IF Full(longer) THEN {Head(longer)} ELSE {})
      /\ used' = noted
  BY DEF Insert, Noted, Moved
<1>4. /\ longer \in Seq(Contract) /\ Len(longer) = Len(order) + 1 /\ Len(order) \in Nat
      /\ NoTwice(longer) /\ Names(longer) = schemas \cup {c}
  BY <1>1, <1>2, AddedNames DEF CacheInv, CacheTypeOK
<1>5. /\ noted \in Seq(Contract) /\ NoTwice(noted) /\ Len(longer) <= Len(noted)
      /\ \A j \in 1..Len(longer) : longer[j] = noted[d + j]
  BY <1>1, <1>2, NotedAfterOrder
<1>6. Len(order) <= MaxCachedSchemas /\ MaxCachedSchemas \in Nat /\ schemas \subseteq Contract
  BY CacheAssumption DEF CacheInv, CacheTypeOK
<1> HIDE DEF c, longer, noted
<1>7. CASE Full(longer)
  <2>1. order' = Tail(longer) /\ schemas' = (schemas \cup {c}) \ {Head(longer)}
    BY <1>3, <1>7
  <2>2. longer # <<>>
    BY <1>4
  <2>3. /\ order' \in Seq(Contract) /\ Len(order') = Len(longer) - 1
        /\ NoTwice(order') /\ Names(order') = schemas'
    BY <1>4, <2>1, <2>2, TailNames
  <2>4. \A j \in 1..(Len(longer) - 1) : order'[j] = longer[j + 1]
    BY <1>4, <2>1, <2>2
  <2>5. ASSUME NEW j \in 1..Len(order') PROVE order'[j] = used'[Len(used') - Len(order') + j]
    <3>1. order'[j] = noted[d + (j + 1)]
      BY <1>4, <1>5, <2>3, <2>4
    <3>2. d + (j + 1) = Len(noted) - Len(order') + j
      BY <1>4, <1>5, <2>3
    <3> QED
      BY <1>3, <3>1, <3>2
  <2>6. Len(order') <= Len(used') /\ Len(order') <= MaxCachedSchemas
    BY <1>3, <1>4, <1>5, <1>6, <2>3
  <2>7. CacheTypeOK' /\ EndOfUsed'
    BY <1>1, <1>6, <2>1, <2>3, <2>5, <2>6 DEF CacheTypeOK, EndOfUsed
  <2> QED
    BY <1>3, <1>5, <2>3, <2>6, <2>7 DEF CacheInv
<1>8. CASE ~ Full(longer)
  <2>1. order' = longer /\ schemas' = schemas \cup {c}
    BY <1>3, <1>8
  <2>2. Len(longer) <= MaxCachedSchemas
    BY <1>4, <1>6, <1>8 DEF Full
  <2>3. CacheTypeOK' /\ EndOfUsed'
    BY <1>1, <1>3, <1>4, <1>5, <1>6, <2>1 DEF CacheTypeOK, EndOfUsed
  <2> QED
    BY <1>3, <1>4, <1>5, <2>1, <2>2, <2>3 DEF CacheInv
<1> QED
  BY <1>7, <1>8

LEMMA NextInv == CacheInv /\ [CacheNext]_cacheVars => CacheInv'
<1> SUFFICES ASSUME CacheInv, [CacheNext]_cacheVars PROVE CacheInv'
  OBVIOUS
<1>1. ASSUME NEW h \in Handler, NEW c \in Contract, StartLoad(h, c) PROVE CacheInv'
  BY <1>1, LoadOnly DEF StartLoad, CacheInv, CacheTypeOK, LoadSteps
<1>2. ASSUME NEW h \in Handler, Hit(h) PROVE CacheInv'
  BY <1>2, HitKeeps
<1>3. ASSUME NEW h \in Handler, Miss(h) \/ Compile(h) \/ Existing(h) PROVE CacheInv'
  <2>1. UNCHANGED <<schemas, order, used>> /\ load[h].at \in {"load", "parse", "store", "loaded"}
    BY <1>3 DEF Miss, Compile, Existing
  <2>2. load' \in [Handler -> LoadSteps \cup {Outside}]
    BY <1>3, <2>1, LoadTypes DEF CacheInv, Miss, Compile, Existing
  <2> QED
    BY <2>1, <2>2, LoadOnly
<1>4. ASSUME NEW h \in Handler, FailToCompile(h) \/ Leave(h) PROVE CacheInv'
  BY <1>4, LoadOnly DEF FailToCompile, Leave, CacheInv, CacheTypeOK
<1>5. ASSUME NEW h \in Handler, Insert(h) PROVE CacheInv'
  BY <1>5, InsertKeeps
<1>6. ASSUME UNCHANGED cacheVars PROVE CacheInv'
  BY <1>6, LoadOnly DEF cacheVars, CacheInv, CacheTypeOK
<1> QED
  BY <1>1, <1>2, <1>3, <1>4, <1>5, <1>6 DEF CacheNext

LEMMA Invariance == CacheSpec => []CacheInv
BY InitInv, NextInv, PTL DEF CacheSpec

\* However many requests compile and store the same contracts at once, and find
\* or evict them meanwhile, the order of loadSchema lists every cached schema
\* once, and never more than fit.
THEOREM CacheStaysConsistent == CacheSpec => []CacheConsistent
<1>1. CacheInv => CacheConsistent
  BY DEF CacheInv, CacheConsistent, NoTwice, Names
<1> QED
  BY <1>1, Invariance, PTL

\* loadSchema evicts the contract that was found or stored longest ago: what is
\* cached are the last ones that were, in their order.
THEOREM LastUsedKept == CacheSpec => []KeepsLastUsed
<1>1. CacheInv => KeepsLastUsed
  <2> SUFFICES ASSUME CacheInv PROVE KeepsLastUsed
    OBVIOUS
  <2> DEFINE d == Len(used) - Len(order)
             end == SubSeq(used, d + 1, Len(used))
  <2>1. /\ order \in Seq(Contract) /\ used \in Seq(Contract)
        /\ Len(order) \in Nat /\ Len(used) \in Nat /\ d \in Nat
        /\ \A j \in 1..Len(order) : order[j] = used[d + j]
    BY DEF CacheInv, CacheTypeOK, EndOfUsed
  <2>2. /\ end \in Seq(Contract) /\ Len(end) = Len(order)
        /\ \A j \in 1..Len(order) : end[j] = used[d + j]
    BY <2>1
  <2> HIDE DEF end
  <2>3. order = end
    BY <2>1, <2>2, SeqEqual
  <2> QED
    BY <2>3 DEF end, KeepsLastUsed
<1> QED
  BY <1>1, Invariance, PTL
=============================================================================
