---------------------------- MODULE SublistProofs ----------------------------
(***************************************************************************)
(* What keeping some elements of a sequence returns and preserves, by      *)
(* induction on how many elements the loop has seen.                       *)
(***************************************************************************)
EXTENDS Sublists, TLAPS, FiniteSetTheorems, SequenceTheorems, WellFoundedInduction

\* Induction up to a bound, for a set of numbers.
LEMMA UpTo ==
  ASSUME NEW m \in Nat, NEW S, 0 \in S,
         \A n \in 0 .. m : n < m /\ n \in S => n + 1 \in S
  PROVE  0 .. m \subseteq S
<1> DEFINE Bad == (0 .. m) \ S
<1> SUFFICES ASSUME NEW k \in 0 .. m, k \notin S PROVE FALSE
  OBVIOUS
<1>1. Bad \subseteq Nat /\ Bad # {}
  OBVIOUS
<1>2. PICK x \in Bad : \A y \in Bad : <<y, x>> \notin OpToRel(<, Nat)
  BY <1>1, NatLessThanWellFounded, WFMin
<1>3. x \in Nat /\ x # 0 /\ x <= m /\ x - 1 \in 0 .. m
  OBVIOUS
<1>4. x - 1 \notin Bad
  <2>1. x - 1 < x /\ x - 1 \in Nat
    BY <1>3
  <2> HIDE DEF Bad
  <2>2. x - 1 \in Bad => <<x - 1, x>> \in OpToRel(<, Nat)
    BY <1>3, <2>1 DEF OpToRel
  <2> QED
    BY <1>2, <2>2
<1>5. x \in S
  BY <1>3, <1>4
<1> QED
  BY <1>5

\* The recursive definition defines a function: there is one for the first m
\* elements, whatever m.
LEMMA KeptIsDefined ==
  ASSUME NEW T, NEW list \in Seq(T), NEW S
  PROVE  KeptOfFirst(list, S) =
           [n \in 0 .. Len(list) |->
              IF n = 0 THEN <<>>
              ELSE IF list[n] \in S THEN Append(KeptOfFirst(list, S)[n - 1], list[n])
                   ELSE KeptOfFirst(list, S)[n - 1]]
<1> DEFINE Step(f, n) ==
             IF n = 0 THEN <<>>
             ELSE IF list[n] \in S THEN Append(f[n - 1], list[n]) ELSE f[n - 1]
           Defines(f, m) == f = [n \in 0 .. m |-> Step(f, n)]
           Good == {m \in Nat : \E f : Defines(f, m)}
<1>1. Len(list) \in Nat
  OBVIOUS
<1>2. 0 \in Good
  <2>1. Defines([n \in 0 .. 0 |-> <<>>], 0)
    OBVIOUS
  <2> QED
    BY <2>1
<1>3. ASSUME NEW m \in Nat, m \in Good PROVE m + 1 \in Good
  <2>1. PICK f : Defines(f, m)
    BY <1>3
  <2> DEFINE g == [n \in 0 .. m + 1 |-> IF n = m + 1 THEN Step(f, m + 1) ELSE f[n]]
  <2>2. \A n \in 0 .. m : g[n] = f[n] /\ f[n] = Step(f, n)
    <3>1. \A n \in 0 .. m : f[n] = Step(f, n)
      <4> HIDE DEF Step
      <4> QED
        BY <2>1
    <3>2. \A n \in 0 .. m : g[n] = f[n]
      <4> HIDE DEF Step
      <4> QED
        OBVIOUS
    <3> HIDE DEF g, Step
    <3> QED
      BY <3>1, <3>2
  <2>3. \A n \in 0 .. m + 1 : g[n] = Step(g, n)
    <3> SUFFICES ASSUME NEW n \in 0 .. m + 1 PROVE g[n] = Step(g, n)
      OBVIOUS
    <3>1. n = 0 \/ n - 1 \in 0 .. m
      OBVIOUS
    <3>2. Step(g, n) = Step(f, n)
      <4> HIDE DEF g
      <4> QED
        BY <2>2, <3>1
    <3>3. g[n] = Step(f, n)
      <4>1. CASE n = m + 1
        <5> HIDE DEF Step
        <5> QED
          BY <4>1
      <4>2. CASE n # m + 1
        <5>1. n \in 0 .. m
          BY <4>2
        <5> HIDE DEF g, Step
        <5> QED
          BY <2>2, <5>1
      <4> QED
        BY <4>1, <4>2
    <3> HIDE DEF g, Step
    <3> QED
      BY <3>2, <3>3
  <2>4. Defines(g, m + 1)
    <3>1. g = [n \in 0 .. m + 1 |-> g[n]]
      <4> HIDE DEF Step
      <4> QED
        OBVIOUS
    <3> HIDE DEF g, Step
    <3> QED
      BY <2>3, <3>1
  <2>5. m + 1 \in Nat
    OBVIOUS
  <2> HIDE DEF Defines
  <2> QED
    BY <2>4, <2>5
<1>4. \E f : Defines(f, Len(list))
  <2> HIDE DEF Defines
  <2>1. \A n \in Nat : n \in Good => n + 1 \in Good
    <3> HIDE DEF Good
    <3> QED
      BY <1>3
  <2>2. Len(list) \in Good
    <3> DEFINE m == Len(list)
    <3>1. m \in Nat
      BY <1>1
    <3> HIDE DEF Good, m
    <3>2. \A n \in 0 .. m : n < m /\ n \in Good => n + 1 \in Good
      BY <2>1, <3>1
    <3>3. 0 .. m \subseteq Good
      BY <1>2, <3>1, <3>2, UpTo
    <3>4. m \in Good
      BY <3>1, <3>3
    <3> QED
      BY <3>4 DEF m
  <2> QED
    BY <2>2
<1>5. PICK f : Defines(f, Len(list))
  BY <1>4, Zenon
<1>6. Defines(KeptOfFirst(list, S), Len(list))
  BY <1>5, Zenon DEF KeptOfFirst
<1> QED
  BY <1>6

\* Its first step and its others, and what it returns.
LEMMA KeptSteps ==
  ASSUME NEW T, NEW list \in Seq(T), NEW S
  PROVE  /\ KeptOfFirst(list, S)[0] = <<>>
         /\ \A n \in 1 .. Len(list) :
              KeptOfFirst(list, S)[n] =
                IF list[n] \in S THEN Append(KeptOfFirst(list, S)[n - 1], list[n])
                ELSE KeptOfFirst(list, S)[n - 1]
<1> DEFINE kept == KeptOfFirst(list, S)
           Next(n) == IF n = 0 THEN <<>>
                      ELSE IF list[n] \in S THEN Append(kept[n - 1], list[n]) ELSE kept[n - 1]
<1>1. kept = [n \in 0 .. Len(list) |-> Next(n)]
  BY KeptIsDefined
<1>2. \A n \in 0 .. Len(list) : kept[n] = Next(n)
  <2> HIDE DEF kept, Next
  <2> QED
    BY <1>1
<1>3. Len(list) \in Nat
  OBVIOUS
<1> HIDE DEF kept
<1>4. kept[0] = <<>>
  BY <1>2, <1>3
<1>5. \A n \in 1 .. Len(list) :
        kept[n] = IF list[n] \in S THEN Append(kept[n - 1], list[n]) ELSE kept[n - 1]
  BY <1>2, <1>3
<1> QED
  BY <1>4, <1>5 DEF kept

LEMMA KeptType ==
  ASSUME NEW T, NEW list \in Seq(T), NEW S
  PROVE  /\ \A n \in 0 .. Len(list) :
              KeptOfFirst(list, S)[n] \in Seq(T \cap S) /\ Len(KeptOfFirst(list, S)[n]) <= n
         /\ Kept(list, S) \in Seq(T \cap S)
         /\ Len(Kept(list, S)) <= Len(list)
<1> DEFINE kept == KeptOfFirst(list, S)
           Good == {n \in 0 .. Len(list) : kept[n] \in Seq(T \cap S) /\ Len(kept[n]) <= n}
<1>1. Len(list) \in Nat
  OBVIOUS
<1>2. /\ kept[0] = <<>>
      /\ \A n \in 1 .. Len(list) :
           kept[n] = IF list[n] \in S THEN Append(kept[n - 1], list[n]) ELSE kept[n - 1]
  <2> HIDE DEF Good
  <2> QED
    BY KeptSteps
<1> HIDE DEF kept
<1>3. 0 \in Good
  <2>1. <<>> \in Seq(T \cap S) /\ Len(<<>>) = 0 /\ 0 \in 0 .. Len(list)
    BY <1>1
  <2>2. kept[0] = <<>>
    BY <1>2
  <2>3. kept[0] \in Seq(T \cap S) /\ Len(kept[0]) <= 0
    BY <2>1, <2>2
  <2> QED
    BY <2>1, <2>3
<1>4. ASSUME NEW n \in 0 .. Len(list), n < Len(list), n \in Good PROVE n + 1 \in Good
  <2>1. n + 1 \in 1 .. Len(list) /\ list[n + 1] \in T /\ (n + 1) - 1 = n
    BY <1>1, <1>4
  <2>2. kept[n + 1] = IF list[n + 1] \in S THEN Append(kept[n], list[n + 1]) ELSE kept[n]
    BY <1>2, <2>1
  <2>3. kept[n] \in Seq(T \cap S) /\ Len(kept[n]) <= n /\ n \in Nat
    BY <1>4
  <2>4. kept[n + 1] \in Seq(T \cap S) /\ Len(kept[n + 1]) <= n + 1
    BY <2>1, <2>2, <2>3
  <2> QED
    BY <2>1, <2>4
<1>5. 0 .. Len(list) \subseteq Good
  <2> HIDE DEF Good
  <2> QED
    BY <1>1, <1>3, <1>4, UpTo
<1>6. \A n \in 0 .. Len(list) : kept[n] \in Seq(T \cap S) /\ Len(kept[n]) <= n
  BY <1>5
<1>7. kept[Len(list)] \in Seq(T \cap S) /\ Len(kept[Len(list)]) <= Len(list)
  <2>1. Len(list) \in 0 .. Len(list)
    BY <1>1
  <2> HIDE DEF Good
  <2> QED
    BY <1>6, <2>1
<1> HIDE DEF Good
<1> QED
  BY <1>6, <1>7 DEF kept, Kept

\* Appending to the end of a concatenation.
LEMMA AppendOfConcat ==
  ASSUME NEW T, NEW s \in Seq(T), NEW t \in Seq(T), NEW e \in T
  PROVE  s \o Append(t, e) = Append(s \o t, e)
<1> DEFINE left == s \o Append(t, e)
           right == Append(s \o t, e)
<1>1. left \in Seq(T) /\ right \in Seq(T) /\ Len(left) = Len(right)
  OBVIOUS
<1>2. \A i \in 1 .. Len(left) : left[i] = right[i]
  OBVIOUS
<1> HIDE DEF left, right
<1>3. left = right
  BY <1>1, <1>2, SeqEqual
<1> QED
  BY <1>3 DEF left, right

\* Keeping elements of the end of a sequence gives the end of what is kept of
\* the whole.
LEMMA KeptOfSuffix ==
  ASSUME NEW T, NEW s \in Seq(T), NEW t \in Seq(T), NEW S, Len(s) <= Len(t),
         \A i \in 1 .. Len(s) : s[i] = t[Len(t) - Len(s) + i]
  PROVE  Kept(t, S) = KeptOfFirst(t, S)[Len(t) - Len(s)] \o Kept(s, S)
<1> DEFINE d == Len(t) - Len(s)
           ks == KeptOfFirst(s, S)
           kt == KeptOfFirst(t, S)
           Good == {n \in 0 .. Len(s) : kt[d + n] = kt[d] \o ks[n]}
<1>1. Len(s) \in Nat /\ Len(t) \in Nat /\ d \in Nat /\ d + Len(s) = Len(t)
  OBVIOUS
<1>2. /\ ks[0] = <<>>
      /\ \A n \in 1 .. Len(s) : ks[n] = IF s[n] \in S THEN Append(ks[n - 1], s[n]) ELSE ks[n - 1]
      /\ \A n \in 0 .. Len(s) : ks[n] \in Seq(T)
  <2> HIDE DEF Good
  <2>1. \A n \in 0 .. Len(s) : ks[n] \in Seq(T \cap S)
    BY KeptType
  <2>2. \A w : w \in Seq(T \cap S) => w \in Seq(T)
    OBVIOUS
  <2>3. \A n \in 0 .. Len(s) : ks[n] \in Seq(T)
    <3> HIDE DEF ks
    <3> QED
      BY <2>1, <2>2
  <2>4. /\ ks[0] = <<>>
        /\ \A n \in 1 .. Len(s) :
             ks[n] = IF s[n] \in S THEN Append(ks[n - 1], s[n]) ELSE ks[n - 1]
    BY KeptSteps
  <2> HIDE DEF ks
  <2> QED
    BY <2>3, <2>4
<1>3. /\ \A n \in 1 .. Len(t) : kt[n] = IF t[n] \in S THEN Append(kt[n - 1], t[n]) ELSE kt[n - 1]
      /\ \A n \in 0 .. Len(t) : kt[n] \in Seq(T)
  <2> HIDE DEF Good
  <2>1. \A n \in 0 .. Len(t) : kt[n] \in Seq(T \cap S)
    BY KeptType
  <2>2. \A w : w \in Seq(T \cap S) => w \in Seq(T)
    OBVIOUS
  <2>3. \A n \in 0 .. Len(t) : kt[n] \in Seq(T)
    <3> HIDE DEF kt
    <3> QED
      BY <2>1, <2>2
  <2>4. \A n \in 1 .. Len(t) :
          kt[n] = IF t[n] \in S THEN Append(kt[n - 1], t[n]) ELSE kt[n - 1]
    BY KeptSteps
  <2> HIDE DEF kt
  <2> QED
    BY <2>3, <2>4
<1>4. \A i \in 1 .. Len(s) : s[i] = t[d + i]
  OBVIOUS
<1> HIDE DEF ks, kt, d
<1>5. d \in 0 .. Len(t)
  BY <1>1
<1>6. 0 \in Good
  <2>1. kt[d] \in Seq(T) /\ d + 0 = d /\ 0 \in 0 .. Len(s)
    BY <1>1, <1>3, <1>5
  <2>2. kt[d] \o <<>> = kt[d]
    BY <2>1
  <2>3. kt[d + 0] = kt[d] \o ks[0]
    BY <1>2, <2>1, <2>2
  <2> QED
    BY <2>1, <2>3
<1>7. ASSUME NEW n \in 0 .. Len(s), n < Len(s), n \in Good PROVE n + 1 \in Good
  <2>1. n + 1 \in 1 .. Len(s) /\ d + (n + 1) \in 1 .. Len(t) /\ (n + 1) - 1 = n
    BY <1>1, <1>7
  <2>2. (d + (n + 1)) - 1 = d + n
    BY <1>1, <2>1
  <2>3. s[n + 1] = t[d + (n + 1)] /\ s[n + 1] \in T
    BY <1>4, <2>1
  <2>4. /\ ks[n + 1] = IF s[n + 1] \in S THEN Append(ks[n], s[n + 1]) ELSE ks[n]
        /\ kt[d + (n + 1)] = IF s[n + 1] \in S THEN Append(kt[d + n], s[n + 1]) ELSE kt[d + n]
    BY <1>2, <1>3, <2>1, <2>2, <2>3
  <2>5. ks[n] \in Seq(T) /\ kt[d] \in Seq(T) /\ kt[d + n] = kt[d] \o ks[n]
    BY <1>2, <1>3, <1>5, <1>7
  <2>6. kt[d + (n + 1)] = kt[d] \o ks[n + 1]
    <3> DEFINE e == s[n + 1]
               w == ks[n]
               u == kt[d]
    <3>1. u \o Append(w, e) = Append(u \o w, e)
      <4>1. u \in Seq(T) /\ w \in Seq(T) /\ e \in T
        BY <2>3, <2>5
      <4> HIDE DEF Good, e, w, u
      <4> QED
        BY <4>1, AppendOfConcat
    <3> HIDE DEF Good
    <3> QED
      BY <2>4, <2>5, <3>1
  <2>7. n + 1 \in 0 .. Len(s)
    BY <1>1, <2>1
  <2> QED
    BY <2>6, <2>7
<1>8. 0 .. Len(s) \subseteq Good
  <2> HIDE DEF Good
  <2> QED
    BY <1>1, <1>6, <1>7, UpTo
<1>9. kt[d + Len(s)] = kt[d] \o ks[Len(s)]
  <2>1. Len(s) \in 0 .. Len(s)
    BY <1>1
  <2> QED
    BY <1>8, <2>1
<1> HIDE DEF Good
<1>10. kt[Len(t)] = kt[d] \o ks[Len(s)]
  BY <1>1, <1>9
<1> QED
  BY <1>10 DEF Kept, ks, kt, d

\* Where what is kept stood: in the same order, and nothing of S is left out.
LEMMA KeptPlaces ==
  ASSUME NEW T, NEW list \in Seq(T), NEW S
  PROVE  \E at \in [1 .. Len(Kept(list, S)) -> 1 .. Len(list)] :
           /\ \A i, j \in 1 .. Len(Kept(list, S)) : i < j => at[i] < at[j]
           /\ \A i \in 1 .. Len(Kept(list, S)) : Kept(list, S)[i] = list[at[i]]
           /\ \A k \in 1 .. Len(list) :
                list[k] \in S => \E i \in 1 .. Len(Kept(list, S)) : at[i] = k
<1> DEFINE kept == KeptOfFirst(list, S)
           Places(n, at) ==
             /\ at \in [1 .. Len(kept[n]) -> 1 .. n]
             /\ \A i, j \in 1 .. Len(kept[n]) : i < j => at[i] < at[j]
             /\ \A i \in 1 .. Len(kept[n]) : kept[n][i] = list[at[i]]
             /\ \A k \in 1 .. n : list[k] \in S => \E i \in 1 .. Len(kept[n]) : at[i] = k
           Good == {n \in 0 .. Len(list) : \E at : Places(n, at)}
<1>1. Len(list) \in Nat
  OBVIOUS
<1>2. /\ kept[0] = <<>>
      /\ \A n \in 1 .. Len(list) :
           kept[n] = IF list[n] \in S THEN Append(kept[n - 1], list[n]) ELSE kept[n - 1]
      /\ \A n \in 0 .. Len(list) : kept[n] \in Seq(T)
  <2> HIDE DEF Places, Good
  <2>1. \A n \in 0 .. Len(list) : kept[n] \in Seq(T \cap S)
    BY KeptType
  <2>2. \A w : w \in Seq(T \cap S) => w \in Seq(T)
    OBVIOUS
  <2>3. \A n \in 0 .. Len(list) : kept[n] \in Seq(T)
    <3> HIDE DEF kept
    <3> QED
      BY <2>1, <2>2
  <2>4. /\ kept[0] = <<>>
        /\ \A n \in 1 .. Len(list) :
             kept[n] = IF list[n] \in S THEN Append(kept[n - 1], list[n]) ELSE kept[n - 1]
    BY KeptSteps
  <2> HIDE DEF kept
  <2> QED
    BY <2>3, <2>4
<1> HIDE DEF kept
<1>3. 0 \in Good
  <2>1. Places(0, [i \in 1 .. 0 |-> 1])
    BY <1>2
  <2> HIDE DEF Places
  <2> QED
    BY <1>1, <2>1
<1>4. ASSUME NEW n \in 0 .. Len(list), n < Len(list), n \in Good PROVE n + 1 \in Good
  <2>1. n + 1 \in 1 .. Len(list) /\ (n + 1) - 1 = n /\ n \in Nat /\ list[n + 1] \in T
    BY <1>1, <1>4
  <2>2. kept[n + 1] = IF list[n + 1] \in S THEN Append(kept[n], list[n + 1]) ELSE kept[n]
    BY <1>2, <2>1
  <2>3. kept[n] \in Seq(T) /\ Len(kept[n]) \in Nat
    BY <1>2
  <2>4. PICK at : Places(n, at)
    BY <1>4
  <2>5. CASE list[n + 1] \notin S
    <3>1. kept[n + 1] = kept[n]
      BY <2>2, <2>5
    <3>2. at \in [1 .. Len(kept[n]) -> 1 .. n + 1]
      BY <2>1, <2>4
    <3>3. Places(n + 1, at)
      BY <2>1, <2>4, <2>5, <3>1, <3>2
    <3> HIDE DEF Places
    <3> QED
      BY <2>1, <3>3
  <2>6. CASE list[n + 1] \in S
    <3> DEFINE len == Len(kept[n])
               new == [i \in 1 .. len + 1 |-> IF i = len + 1 THEN n + 1 ELSE at[i]]
    <3>1. /\ kept[n + 1] = Append(kept[n], list[n + 1]) /\ Len(kept[n + 1]) = len + 1
          /\ kept[n + 1][len + 1] = list[n + 1]
          /\ \A i \in 1 .. len : kept[n + 1][i] = kept[n][i]
      <4>1. \A s \in Seq(T), e \in T :
              /\ Len(Append(s, e)) = Len(s) + 1 /\ Append(s, e)[Len(s) + 1] = e
              /\ \A i \in 1 .. Len(s) : Append(s, e)[i] = s[i]
        OBVIOUS
      <4>2. kept[n + 1] = Append(kept[n], list[n + 1])
        BY <2>2, <2>6
      <4>3. kept[n] \in Seq(T) /\ list[n + 1] \in T
        BY <2>1, <2>3
      <4> HIDE DEF Places
      <4> QED
        BY <4>1, <4>2, <4>3
    <3>2. /\ new[len + 1] = n + 1
          /\ \A i \in 1 .. len : new[i] = at[i] /\ at[i] \in 1 .. n
      <4> SUFFICES ASSUME len \in Nat
                   PROVE  /\ new[len + 1] = n + 1
                          /\ \A i \in 1 .. len : new[i] = at[i] /\ at[i] \in 1 .. n
        BY <2>3
      <4>1. \A i \in 1 .. len : at[i] \in 1 .. n
        BY <2>4
      <4> HIDE DEF len, Places, kept
      <4> QED
        BY <4>1
    <3>3. new \in [1 .. len + 1 -> 1 .. n + 1]
      <4>1. \A i \in 1 .. len + 1 : new[i] \in 1 .. n + 1
        <5> SUFFICES ASSUME NEW i \in 1 .. len + 1 PROVE new[i] \in 1 .. n + 1
          OBVIOUS
        <5> HIDE DEF new
        <5>1. CASE i = len + 1
          BY <2>1, <3>2, <5>1
        <5>2. CASE i # len + 1
          <6>1. i \in 1 .. len
            BY <2>3, <5>2
          <6> QED
            BY <2>1, <3>2, <6>1
        <5> QED
          BY <5>1, <5>2
      <4>2. new = [i \in 1 .. len + 1 |-> new[i]]
        OBVIOUS
      <4> HIDE DEF new
      <4> QED
        BY <4>1, <4>2
    <3> HIDE DEF new
    <3>4. \A i, j \in 1 .. len + 1 : i < j => new[i] < new[j]
      <4> SUFFICES ASSUME NEW i \in 1 .. len + 1, NEW j \in 1 .. len + 1, i < j
                   PROVE  new[i] < new[j]
        OBVIOUS
      <4>1. i \in 1 .. len
        BY <2>3
      <4>2. CASE j = len + 1
        BY <2>1, <3>2, <4>1, <4>2
      <4>3. CASE j # len + 1
        <5>1. j \in 1 .. len
          BY <2>3, <4>3
        <5> QED
          BY <2>4, <3>2, <4>1, <5>1
      <4> QED
        BY <4>2, <4>3
    <3>5. \A i \in 1 .. len + 1 : kept[n + 1][i] = list[new[i]]
      <4> SUFFICES ASSUME NEW i \in 1 .. len + 1 PROVE kept[n + 1][i] = list[new[i]]
        OBVIOUS
      <4>1. CASE i = len + 1
        BY <3>1, <3>2, <4>1
      <4>2. CASE i # len + 1
        <5>1. i \in 1 .. len
          BY <2>3, <4>2
        <5> QED
          BY <2>4, <3>1, <3>2, <5>1
      <4> QED
        BY <4>1, <4>2
    <3>6. \A k \in 1 .. n + 1 : list[k] \in S => \E i \in 1 .. len + 1 : new[i] = k
      <4> SUFFICES ASSUME NEW k \in 1 .. n + 1, list[k] \in S
                   PROVE  \E i \in 1 .. len + 1 : new[i] = k
        OBVIOUS
      <4>1. CASE k = n + 1
        <5>1. len + 1 \in 1 .. len + 1
          BY <2>3
        <5> QED
          BY <3>2, <4>1, <5>1
      <4>2. CASE k # n + 1
        <5>1. k \in 1 .. n
          BY <2>1, <4>2
        <5>2. PICK i \in 1 .. len : at[i] = k
          BY <2>4, <5>1
        <5>3. i \in 1 .. len + 1
          BY <2>3
        <5> QED
          BY <3>2, <5>2, <5>3
      <4> QED
        BY <4>1, <4>2
    <3>7. Places(n + 1, new)
      BY <3>1, <3>3, <3>4, <3>5, <3>6
    <3> HIDE DEF Places
    <3> QED
      BY <2>1, <3>7
  <2> QED
    BY <2>5, <2>6
<1>5. 0 .. Len(list) \subseteq Good
  <2> HIDE DEF Good
  <2> QED
    BY <1>1, <1>3, <1>4, UpTo
<1>6. PICK at : Places(Len(list), at)
  <2> HIDE DEF Places
  <2> QED
    BY <1>1, <1>5
<1> QED
  BY <1>6 DEF Kept, kept

-----------------------------------------------------------------------------
(***************************************************************************)
(* The first and the last of some places.                                  *)
(***************************************************************************)

LEMMA SmallestOf ==
  ASSUME NEW S, S \subseteq Nat, S # {}
  PROVE  \E x \in S : \A y \in S : x <= y
<1>1. PICK x \in S : \A y \in S : <<y, x>> \notin OpToRel(<, Nat)
  BY NatLessThanWellFounded, WFMin
<1>2. ASSUME NEW y \in S PROVE x <= y
  <2>1. x \in Nat /\ y \in Nat
    OBVIOUS
  <2>2. y < x => <<y, x>> \in OpToRel(<, Nat)
    BY <2>1 DEF OpToRel
  <2>3. <<y, x>> \notin OpToRel(<, Nat)
    BY <1>1
  <2>4. ~ (y < x)
    BY <2>2, <2>3
  <2> QED
    BY <2>1, <2>4
<1> QED
  BY <1>2

LEMMA LargestOf ==
  ASSUME NEW m \in Nat, NEW S, S \subseteq 0 .. m, S # {}
  PROVE  \E x \in S : \A y \in S : y <= x
<1> DEFINE Below == {b \in 0 .. m : m - b \in S}
<1>1. Below \subseteq Nat /\ Below # {}
  <2>1. PICK x \in S : TRUE
    OBVIOUS
  <2>2. m - x \in 0 .. m /\ m - (m - x) = x
    OBVIOUS
  <2>3. m - x \in Below /\ 0 .. m \subseteq Nat
    BY <2>1, <2>2
  <2>4. Below \subseteq 0 .. m
    OBVIOUS
  <2> HIDE DEF Below
  <2> QED
    BY <2>3, <2>4
<1>2. PICK b \in Below : \A c \in Below : b <= c
  <2> HIDE DEF Below
  <2> QED
    BY <1>1, SmallestOf
<1>3. b \in 0 .. m /\ m - b \in S
  OBVIOUS
<1>4. ASSUME NEW y \in S PROVE y <= m - b
  <2>1. y \in 0 .. m /\ m - y \in 0 .. m /\ m - (m - y) = y
    OBVIOUS
  <2>2. b <= m - y
    BY <1>2, <2>1
  <2> QED
    BY <1>3, <2>1, <2>2
<1> QED
  BY <1>3, <1>4

\* A finite set of numbers has an upper bound.
LEMMA BoundOf ==
  ASSUME NEW S, IsFiniteSet(S), S \subseteq Nat
  PROVE  \E m \in Nat : S \subseteq 0 .. m
<1>1. Cardinality(S) \in Nat /\ ExistsBijection(1 .. Cardinality(S), S)
  BY FS_CardinalityType
<1>2. PICK f \in [1 .. Cardinality(S) -> S] : \A x \in S : \E i \in 1 .. Cardinality(S) : f[i] = x
  BY <1>1 DEF ExistsBijection, Bijection, Surjection
<1> DEFINE n == Cardinality(S)
           Good == {k \in 0 .. n : \E m \in Nat : \A i \in 1 .. k : f[i] <= m}
<1>3. 0 \in Good
  BY <1>1
<1>4. ASSUME NEW k \in 0 .. n, k < n, k \in Good PROVE k + 1 \in Good
  <2>1. PICK m \in Nat : \A i \in 1 .. k : f[i] <= m
    BY <1>4
  <2>2. k + 1 \in 1 .. n /\ k + 1 \in 0 .. n /\ f[k + 1] \in Nat
    <3>1. k + 1 \in 1 .. n /\ k + 1 \in 0 .. n
      <4>1. n \in Nat
        BY <1>1
      <4> HIDE DEF n, Good
      <4> QED
        BY <1>4, <4>1
    <3>2. f[k + 1] \in S
      BY <3>1
    <3> QED
      BY <3>1, <3>2
  <2>3. PICK b \in Nat : m <= b /\ f[k + 1] <= b
    BY <2>2
  <2>4. \A i \in 1 .. k + 1 : f[i] <= b
    <3> SUFFICES ASSUME NEW i \in 1 .. k + 1 PROVE f[i] <= b
      OBVIOUS
    <3>1. CASE i = k + 1
      BY <2>3, <3>1
    <3>2. CASE i # k + 1
      <4>1. i \in 1 .. k /\ i \in 1 .. n
        BY <1>1, <3>2
      <4>2. f[i] \in Nat
        BY <1>2, <4>1
      <4> QED
        BY <2>1, <2>3, <4>1, <4>2
    <3> QED
      BY <3>1, <3>2
  <2> QED
    BY <2>2, <2>4
<1>5. n \in Good
  <2> HIDE DEF Good
  <2>1. n \in Nat /\ n \in 0 .. n
    BY <1>1
  <2> HIDE DEF n
  <2> QED
    BY <1>3, <1>4, <2>1, UpTo
<1>6. PICK m \in Nat : \A i \in 1 .. n : f[i] <= m
  BY <1>5
<1> HIDE DEF n
<1>7. S \subseteq 0 .. m
  BY <1>2, <1>6 DEF n
<1> QED
  BY <1>7

\* The start of a sequence grows by its next element.
LEMMA SubSeqGrows ==
  ASSUME NEW T, NEW s \in Seq(T), NEW m \in Nat, 1 <= m, NEW n \in Nat, m <= n + 1, n + 1 <= Len(s)
  PROVE  SubSeq(s, m, n + 1) = Append(SubSeq(s, m, n), s[n + 1])
<1> DEFINE left == SubSeq(s, m, n + 1)
           right == Append(SubSeq(s, m, n), s[n + 1])
<1>1. /\ SubSeq(s, m, n) \in Seq(T) /\ Len(SubSeq(s, m, n)) = n + 1 - m
      /\ \A i \in 1 .. n + 1 - m : SubSeq(s, m, n)[i] = s[m + i - 1]
  OBVIOUS
<1>2. /\ left \in Seq(T) /\ Len(left) = n + 2 - m
      /\ \A i \in 1 .. n + 2 - m : left[i] = s[m + i - 1]
  OBVIOUS
<1>3. s[n + 1] \in T
  OBVIOUS
<1> HIDE DEF left
<1>4. right \in Seq(T) /\ Len(right) = n + 2 - m
  BY <1>1, <1>3
<1>5. \A i \in 1 .. n + 2 - m : right[i] = s[m + i - 1]
  <2> SUFFICES ASSUME NEW i \in 1 .. n + 2 - m PROVE right[i] = s[m + i - 1]
    OBVIOUS
  <2>1. CASE i = n + 2 - m
    BY <1>1, <2>1
  <2>2. CASE i # n + 2 - m
    BY <1>1, <2>2
  <2> QED
    BY <2>1, <2>2
<1> HIDE DEF right
<1>6. left = right
  BY <1>2, <1>4, <1>5, SeqEqual
<1> QED
  BY <1>6 DEF left, right

\* A stretch of elements that are kept, after none.
LEMMA KeptBlock ==
  ASSUME NEW T, NEW list \in Seq(T), NEW S, NEW d \in 0 .. Len(list), NEW e \in d .. Len(list),
         KeptOfFirst(list, S)[d] = <<>>, \A i \in d + 1 .. e : list[i] \in S
  PROVE  KeptOfFirst(list, S)[e] = SubSeq(list, d + 1, e)
<1> DEFINE kept == KeptOfFirst(list, S)
           Good == {n \in 0 .. e - d : kept[d + n] = SubSeq(list, d + 1, d + n)}
<1>1. Len(list) \in Nat /\ d \in Nat /\ e \in Nat /\ e - d \in Nat
  OBVIOUS
<1>2. \A n \in 1 .. Len(list) :
        kept[n] = IF list[n] \in S THEN Append(kept[n - 1], list[n]) ELSE kept[n - 1]
  <2> HIDE DEF Good
  <2> QED
    BY KeptSteps
<1>3. kept[d] = <<>>
  OBVIOUS
<1> HIDE DEF kept
<1>4. 0 \in Good
  <2>1. SubSeq(list, d + 1, d) = <<>>
    BY <1>1
  <2>2. d + 0 = d /\ 0 \in 0 .. e - d
    BY <1>1
  <2> QED
    BY <1>3, <2>1, <2>2
<1>5. ASSUME NEW n \in 0 .. e - d, n < e - d, n \in Good PROVE n + 1 \in Good
  <2>1. /\ d + n + 1 \in 1 .. Len(list) /\ d + n + 1 \in d + 1 .. e /\ (d + n + 1) - 1 = d + n
        /\ d + (n + 1) = d + n + 1 /\ n + 1 \in 0 .. e - d /\ d + n \in Nat
    BY <1>1, <1>5
  <2>2. kept[d + n + 1] = Append(kept[d + n], list[d + n + 1])
    BY <1>2, <2>1
  <2>3. SubSeq(list, d + 1, d + n + 1) = Append(SubSeq(list, d + 1, d + n), list[d + n + 1])
    <3>1. 1 <= d + 1 /\ d + 1 \in Nat /\ d + 1 <= d + n + 1 /\ d + n + 1 <= Len(list)
      BY <1>1, <1>5, <2>1
    <3> QED
      BY <2>1, <3>1, SubSeqGrows
  <2>4. kept[d + n] = SubSeq(list, d + 1, d + n)
    BY <1>5
  <2> QED
    BY <2>1, <2>2, <2>3, <2>4
<1>6. 0 .. e - d \subseteq Good
  <2> HIDE DEF Good
  <2> QED
    BY <1>1, <1>4, <1>5, UpTo
<1>7. e - d \in Good /\ d + (e - d) = e
  <2>1. e - d \in 0 .. e - d /\ d + (e - d) = e
    BY <1>1
  <2> HIDE DEF Good
  <2> QED
    BY <1>6, <2>1
<1> QED
  BY <1>7 DEF kept

\* A stretch of elements that are not.
LEMMA NothingKept ==
  ASSUME NEW T, NEW list \in Seq(T), NEW S, NEW d \in 0 .. Len(list), NEW e \in d .. Len(list),
         \A i \in d + 1 .. e : list[i] \notin S
  PROVE  KeptOfFirst(list, S)[e] = KeptOfFirst(list, S)[d]
<1> DEFINE kept == KeptOfFirst(list, S)
           Good == {n \in 0 .. e - d : kept[d + n] = kept[d]}
<1>1. Len(list) \in Nat /\ d \in Nat /\ e \in Nat /\ e - d \in Nat
  OBVIOUS
<1>2. \A n \in 1 .. Len(list) :
        kept[n] = IF list[n] \in S THEN Append(kept[n - 1], list[n]) ELSE kept[n - 1]
  <2> HIDE DEF Good
  <2> QED
    BY KeptSteps
<1> HIDE DEF kept
<1>3. 0 \in Good
  BY <1>1
<1>4. ASSUME NEW n \in 0 .. e - d, n < e - d, n \in Good PROVE n + 1 \in Good
  <2>1. /\ d + n + 1 \in 1 .. Len(list) /\ d + n + 1 \in d + 1 .. e /\ (d + n + 1) - 1 = d + n
        /\ d + (n + 1) = d + n + 1 /\ n + 1 \in 0 .. e - d
    BY <1>1, <1>4
  <2>2. kept[d + n + 1] = kept[d + n]
    BY <1>2, <2>1
  <2>3. kept[d + n] = kept[d]
    BY <1>4
  <2> QED
    BY <2>1, <2>2, <2>3
<1>5. 0 .. e - d \subseteq Good
  <2> HIDE DEF Good
  <2> QED
    BY <1>1, <1>3, <1>4, UpTo
<1>6. e - d \in Good /\ d + (e - d) = e
  <2>1. e - d \in 0 .. e - d /\ d + (e - d) = e
    BY <1>1
  <2> HIDE DEF Good
  <2> QED
    BY <1>5, <2>1
<1> QED
  BY <1>6 DEF kept

\* One more element at the end.
LEMMA KeptOfAppend ==
  ASSUME NEW T, NEW s \in Seq(T), NEW e \in T, NEW S
  PROVE  Kept(Append(s, e), S) = IF e \in S THEN Append(Kept(s, S), e) ELSE Kept(s, S)
<1> DEFINE t == Append(s, e)
           ks == KeptOfFirst(s, S)
           kt == KeptOfFirst(t, S)
           Good == {n \in 0 .. Len(s) : kt[n] = ks[n]}
<1>1. /\ t \in Seq(T) /\ Len(s) \in Nat /\ Len(t) = Len(s) + 1 /\ t[Len(s) + 1] = e
      /\ \A i \in 1 .. Len(s) : t[i] = s[i]
  OBVIOUS
<1> HIDE DEF t
<1>2. /\ ks[0] = <<>>
      /\ \A n \in 1 .. Len(s) : ks[n] = IF s[n] \in S THEN Append(ks[n - 1], s[n]) ELSE ks[n - 1]
  <2> HIDE DEF Good, kt
  <2> QED
    BY KeptSteps
<1>3. /\ kt[0] = <<>>
      /\ \A n \in 1 .. Len(t) : kt[n] = IF t[n] \in S THEN Append(kt[n - 1], t[n]) ELSE kt[n - 1]
  <2> HIDE DEF Good, ks
  <2> QED
    BY <1>1, KeptSteps
<1> HIDE DEF ks, kt
<1>4. 0 \in Good
  BY <1>1, <1>2, <1>3
<1>5. ASSUME NEW n \in 0 .. Len(s), n < Len(s), n \in Good PROVE n + 1 \in Good
  <2>1. /\ n + 1 \in 1 .. Len(s) /\ n + 1 \in 1 .. Len(t) /\ (n + 1) - 1 = n
        /\ n + 1 \in 0 .. Len(s)
    BY <1>1, <1>5
  <2>2. t[n + 1] = s[n + 1] /\ kt[n] = ks[n]
    BY <1>1, <1>5, <2>1
  <2>3. kt[n + 1] = ks[n + 1]
    BY <1>2, <1>3, <2>1, <2>2
  <2> QED
    BY <2>1, <2>3
<1>6. kt[Len(s)] = ks[Len(s)]
  <2>1. 0 .. Len(s) \subseteq Good
    <3> HIDE DEF Good
    <3> QED
      BY <1>1, <1>4, <1>5, UpTo
  <2>2. Len(s) \in 0 .. Len(s)
    BY <1>1
  <2> QED
    BY <2>1, <2>2
<1>7. kt[Len(t)] = IF e \in S THEN Append(kt[Len(s)], e) ELSE kt[Len(s)]
  <2>1. Len(t) \in 1 .. Len(t) /\ Len(t) - 1 = Len(s)
    BY <1>1
  <2> QED
    BY <1>1, <1>3, <2>1
<1> QED
  BY <1>6, <1>7 DEF t, ks, kt, Kept

\* Only what is said of the elements of the list matters.
LEMMA KeptAgrees ==
  ASSUME NEW T, NEW list \in Seq(T), NEW S, NEW R,
         \A i \in 1 .. Len(list) : list[i] \in S <=> list[i] \in R
  PROVE  Kept(list, S) = Kept(list, R)
<1> DEFINE ks == KeptOfFirst(list, S)
           kr == KeptOfFirst(list, R)
           Good == {n \in 0 .. Len(list) : ks[n] = kr[n]}
<1>1. Len(list) \in Nat
  OBVIOUS
<1>2. /\ ks[0] = <<>>
      /\ \A n \in 1 .. Len(list) :
           ks[n] = IF list[n] \in S THEN Append(ks[n - 1], list[n]) ELSE ks[n - 1]
  <2> HIDE DEF Good, kr
  <2> QED
    BY KeptSteps
<1>3. /\ kr[0] = <<>>
      /\ \A n \in 1 .. Len(list) :
           kr[n] = IF list[n] \in R THEN Append(kr[n - 1], list[n]) ELSE kr[n - 1]
  <2> HIDE DEF Good, ks
  <2> QED
    BY KeptSteps
<1> HIDE DEF ks, kr
<1>4. 0 \in Good
  BY <1>1, <1>2, <1>3
<1>5. ASSUME NEW n \in 0 .. Len(list), n < Len(list), n \in Good PROVE n + 1 \in Good
  <2>1. n + 1 \in 1 .. Len(list) /\ (n + 1) - 1 = n /\ n + 1 \in 0 .. Len(list)
    BY <1>1, <1>5
  <2>2. ks[n] = kr[n]
    BY <1>5
  <2>3. ks[n + 1] = kr[n + 1]
    BY <1>2, <1>3, <2>1, <2>2
  <2> QED
    BY <2>1, <2>3
<1>6. ks[Len(list)] = kr[Len(list)]
  <2>1. 0 .. Len(list) \subseteq Good
    <3> HIDE DEF Good
    <3> QED
      BY <1>1, <1>4, <1>5, UpTo
  <2>2. Len(list) \in 0 .. Len(list)
    BY <1>1
  <2> QED
    BY <2>1, <2>2
<1> QED
  BY <1>6 DEF ks, kr, Kept
=============================================================================
