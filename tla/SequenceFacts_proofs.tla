------------------------ MODULE SequenceFacts_proofs ------------------------
(***************************************************************************)
(* Facts about sequences that grow and shrink at their end, and about the  *)
(* extreme elements of a set of positions, that the proofs about the       *)
(* recorders rest on.                                                      *)
(***************************************************************************)
EXTENDS Selections, WellFoundedInduction, FiniteSetTheorems, SequenceTheorems, TLAPS

(* Sequences that grow and shrink at their end. *)
LEMMA ElementFacts ==
  ASSUME NEW S, NEW s \in Seq(S)
  PROVE  Len(s) \in Nat /\ \A i \in 1..Len(s) : s[i] \in S
OBVIOUS

LEMMA RetypeFacts ==
  ASSUME NEW S, NEW T, NEW s \in Seq(S), \A i \in 1..Len(s) : s[i] \in T
  PROVE  s \in Seq(T)
OBVIOUS

LEMMA PopFacts ==
  ASSUME NEW S, NEW s \in Seq(S), s # <<>>
  PROVE  /\ Len(s) - 1 \in Nat /\ Len(s) \in 1..Len(s)
         /\ Len(SubSeq(s, 1, Len(s) - 1)) = Len(s) - 1
         /\ \A i \in 1..(Len(s) - 1) :
              SubSeq(s, 1, Len(s) - 1)[i] = s[i] /\ i \in 1..Len(s)
<1>1. Len(s) \in Nat /\ Len(s) # 0
  OBVIOUS
<1> DEFINE n == Len(s) - 1
<1>2. n \in Nat /\ n <= Len(s) /\ Len(s) \in 1..Len(s)
  BY <1>1
<1>3. \A i \in 1..n : i \in 1..Len(s)
  BY <1>1
<1> HIDE DEF n
<1>4. Len(SubSeq(s, 1, n)) = n /\ \A i \in 1..n : SubSeq(s, 1, n)[i] = s[i]
  BY <1>1, <1>2
<1> QED
  BY <1>2, <1>3, <1>4 DEF n

LEMMA AppendFacts ==
  ASSUME NEW S, NEW s \in Seq(S), NEW e
  PROVE  /\ Len(Append(s, e)) = Len(s) + 1
         /\ Append(s, e)[Len(s) + 1] = e
         /\ \A i \in 1..Len(s) : Append(s, e)[i] = s[i]
OBVIOUS

(* A non-empty set of numbers up to n has a largest element. *)
LEMMA LargestExists ==
  ASSUME NEW n \in Nat, NEW A, A \subseteq 1..n, A # {}
  PROVE  \E m \in A : \A k \in A : k <= m
<1> DEFINE Above(m) == {k \in A : k >= m}
           T == {Above(m) : m \in A}
           R == StrictSubsetOrdering(1..n)
<1>1. IsFiniteSet(1..n)
  BY FS_Interval
<1>2. FiniteSubsetsOf(1..n) = SUBSET (1..n)
  BY <1>1, FS_FiniteSubsetsOfFinite
<1>3. IsWellFoundedOn(R, SUBSET (1..n))
  BY <1>2, FS_StrictSubsetOrderingWellFounded
<1>4. T \subseteq SUBSET (1..n) /\ T # {}
  OBVIOUS
<1>5. PICK X \in T : \A Y \in T : ~ (<<Y, X>> \in R)
  <2> HIDE DEF T, R
  <2> QED BY <1>3, <1>4, WFMin
<1>6. PICK m \in A : X = Above(m)
  BY <1>5
<1>7. ASSUME NEW k \in A, ~(k <= m)
      PROVE  FALSE
  <2>1. Above(k) \in T
    OBVIOUS
  <2>2. /\ k \in Nat /\ m \in Nat /\ k > m
        /\ \A j \in A : j \in Nat
    BY <1>7
  <2>3. ASSUME NEW j \in Above(k) PROVE j \in Above(m)
    <3>1. j \in A /\ j >= k /\ j \in Nat
      BY <2>2
    <3> QED BY <2>2, <3>1
  <2>4. m \in Above(m) /\ m \notin Above(k)
    BY <2>2
  <2>5. <<Above(k), X>> \in R
    <3> Above(k) \in SUBSET (1..n) /\ X \in SUBSET (1..n)
      BY <1>4, <2>1
    <3> HIDE DEF Above
    <3> QED BY <1>6, <2>3, <2>4 DEF StrictSubsetOrdering
  <2> QED
    BY <1>5, <2>1, <2>5
<1> QED
  BY <1>7

(* A non-empty set of numbers up to n has a smallest element. *)
LEMMA SmallestExists ==
  ASSUME NEW n \in Nat, NEW A, A \subseteq 1..n, A # {}
  PROVE  \E m \in A : \A k \in A : m <= k
<1> DEFINE B == {n + 1 - k : k \in A}
<1>1. B \subseteq 1..n /\ B # {}
  <2>1. \A k \in 1..n : n + 1 - k \in 1..n
    OBVIOUS
  <2> QED BY <2>1
<1>2. PICK b \in B : \A k \in B : k <= b
  <2> HIDE DEF B
  <2> QED BY <1>1, LargestExists
<1>3. PICK m \in A : b = n + 1 - m
  BY <1>2
<1>4. ASSUME NEW k \in A PROVE m <= k
  <2>1. n + 1 - k \in B
    OBVIOUS
  <2>2. n + 1 - k <= n + 1 - m
    BY <1>2, <1>3, <2>1
  <2>3. k \in 1..n /\ m \in 1..n
    OBVIOUS
  <2> HIDE DEF B
  <2> QED
    BY <2>2, <2>3
<1> QED
  BY <1>4

------------------------------------------------------------------------------
(* Only, by induction on the position, as the absence of a smallest        *)
(* position where it fails.                                                *)

(* What upTo computes up to n. *)
UpTo(s, T, f, n) ==
  [i \in 0..n |-> IF i = 0 THEN <<>>
                  ELSE IF s[i] \in T THEN Append(f[i - 1], s[i]) ELSE f[i - 1]]

LEMMA UpToUnique ==
  ASSUME NEW s, NEW t, NEW T, NEW f, NEW g, NEW n \in Nat, NEW m \in Nat, n <= m,
         f = UpTo(s, T, f, n), g = UpTo(t, T, g, m),
         \A i \in 1..n : s[i] = t[i]
  PROVE  \A i \in 0..n : f[i] = g[i]
<1> DEFINE A == {i \in 1..n : f[i] # g[i]}
<1>1. f[0] = <<>> /\ g[0] = <<>>
  BY DEF UpTo
<1>2. /\ \A i \in 1..n : f[i] = IF s[i] \in T THEN Append(f[i - 1], s[i]) ELSE f[i - 1]
      /\ \A i \in 1..n : g[i] = IF t[i] \in T THEN Append(g[i - 1], t[i]) ELSE g[i - 1]
  <2>1. /\ \A i \in 0..n : f[i] = UpTo(s, T, f, n)[i]
        /\ \A i \in 0..m : g[i] = UpTo(t, T, g, m)[i]
    OBVIOUS
  <2>2. \A i \in 1..n : i \in 0..n /\ i \in 0..m /\ i # 0
    OBVIOUS
  <2> QED
    BY <2>1, <2>2 DEF UpTo
<1>3. CASE A = {}
  BY <1>1, <1>3
<1>4. CASE A # {}
  <2>1. PICK k \in A : \A i \in A : k <= i
    <3> A \subseteq 1..n
      OBVIOUS
    <3> HIDE DEF A
    <3> QED BY <1>4, SmallestExists
  <2>2. k \in 1..n /\ f[k] # g[k] /\ k - 1 \notin A
    BY <2>1
  <2>3. f[k - 1] = g[k - 1]
    BY <1>1, <2>2
  <2>4. f[k] = g[k]
    BY <1>2, <2>2, <2>3
  <2> QED
    BY <2>2, <2>4
<1> QED
  BY <1>3, <1>4

LEMMA UpToExists ==
  ASSUME NEW s, NEW T, NEW n \in Nat
  PROVE  \E f : f = UpTo(s, T, f, n)
<1> DEFINE Has(k) == \E f : f = UpTo(s, T, f, k)
           A == {k \in 1..n : ~Has(k)}
<1>1. Has(0)
  <2>1. [i \in 0..0 |-> <<>>] = UpTo(s, T, [i \in 0..0 |-> <<>>], 0)
    BY DEF UpTo
  <2> QED
    BY <2>1
<1>2. ASSUME NEW k \in 1..n, Has(k - 1)
      PROVE  Has(k)
  <2>1. PICK f : f = UpTo(s, T, f, k - 1)
    BY <1>2
  <2> DEFINE last == IF s[k] \in T THEN Append(f[k - 1], s[k]) ELSE f[k - 1]
             g == [i \in 0..k |-> IF i < k THEN f[i] ELSE last]
  <2>2. \A i \in 0..k : g[i] = IF i < k THEN f[i] ELSE last
    OBVIOUS
  <2>3. \A i \in 0..(k - 1) :
          f[i] = IF i = 0 THEN <<>>
                 ELSE IF s[i] \in T THEN Append(f[i - 1], s[i]) ELSE f[i - 1]
    BY <2>1 DEF UpTo
  <2>4. \A i \in 0..k :
          g[i] = IF i = 0 THEN <<>>
                 ELSE IF s[i] \in T THEN Append(g[i - 1], s[i]) ELSE g[i - 1]
    <3> SUFFICES ASSUME NEW i \in 0..k
                 PROVE  g[i] = IF i = 0 THEN <<>>
                               ELSE IF s[i] \in T THEN Append(g[i - 1], s[i]) ELSE g[i - 1]
      OBVIOUS
    <3> HIDE DEF g, last
    <3>1. CASE i = 0
      BY <2>2, <2>3, <3>1
    <3>2. CASE i # 0 /\ i < k
      <4>1. i - 1 \in 0..k /\ i - 1 < k /\ i \in 0..(k - 1)
        BY <3>2
      <4>2. g[i - 1] = f[i - 1] /\ g[i] = f[i]
        BY <2>2, <3>2, <4>1
      <4> QED BY <2>3, <3>2, <4>1, <4>2
    <3>3. CASE i = k
      <4>1. i - 1 \in 0..k /\ i - 1 < k /\ ~(i < k)
        BY <3>3
      <4>2. g[i - 1] = f[i - 1] /\ g[i] = last
        BY <2>2, <4>1
      <4> QED BY <3>3, <4>2 DEF last
    <3> QED BY <3>1, <3>2, <3>3
  <2>5. g = [i \in 0..k |-> g[i]]
    OBVIOUS
  <2> HIDE DEF g
  <2>6. g = UpTo(s, T, g, k)
    BY <2>4, <2>5 DEF UpTo
  <2> QED
    BY <2>6
<1>3. CASE A = {}
  <2>1. n = 0 \/ n \in 1..n
    OBVIOUS
  <2> QED
    BY <1>1, <1>3, <2>1
<1>4. CASE A # {}
  <2>1. PICK k \in A : \A i \in A : k <= i
    <3> A \subseteq 1..n
      OBVIOUS
    <3> HIDE DEF A
    <3> QED BY <1>4, SmallestExists
  <2>2. k \in 1..n /\ ~Has(k) /\ k - 1 \notin A
    BY <2>1
  <2>3. k - 1 = 0 \/ k - 1 \in 1..n
    BY <2>2
  <2>4. Has(k - 1)
    BY <1>1, <2>2, <2>3
  <2> QED
    BY <1>2, <2>2, <2>4
<1> QED
  BY <1>3, <1>4

LEMMA OnlyIs ==
  ASSUME NEW S, NEW s \in Seq(S), NEW T, NEW f, f = UpTo(s, T, f, Len(s))
  PROVE  Only(s, T) = f[Len(s)]
<1> DEFINE g == CHOOSE g : g = UpTo(s, T, g, Len(s))
<1>1. Len(s) \in Nat
  OBVIOUS
<1>2. g = UpTo(s, T, g, Len(s))
  <2>1. \E h : h = UpTo(s, T, h, Len(s))
    BY <1>1, UpToExists
  <2> QED
    BY <2>1
<1>3. Only(s, T) = g[Len(s)]
  BY DEF Only, UpTo
<1> HIDE DEF g
<1>4. \A i \in 0..Len(s) : f[i] = g[i]
  BY <1>1, <1>2, UpToUnique
<1> QED
  BY <1>1, <1>3, <1>4

(* One element more is selected or not; the others stay selected. *)
LEMMA OnlyAppend ==
  ASSUME NEW S, NEW s \in Seq(S), NEW e \in S, NEW T
  PROVE  Only(Append(s, e), T) = IF e \in T THEN Append(Only(s, T), e) ELSE Only(s, T)
<1> DEFINE n == Len(s)
           t == Append(s, e)
<1>1. /\ n \in Nat /\ t \in Seq(S) /\ Len(t) = n + 1 /\ t[n + 1] = e
      /\ \A i \in 1..n : t[i] = s[i]
  OBVIOUS
<1>2. PICK f : f = UpTo(s, T, f, n)
  BY <1>1, UpToExists
<1>3. PICK g : g = UpTo(t, T, g, n + 1)
  <2>1. n + 1 \in Nat
    BY <1>1
  <2> HIDE DEF n, t
  <2> QED BY <2>1, UpToExists
<1>4. Only(s, T) = f[n]
  BY <1>2, OnlyIs
<1>5. Only(t, T) = g[n + 1]
  <2> HIDE DEF t
  <2> QED BY <1>1, <1>3, OnlyIs
<1> HIDE DEF n, t
<1>6. f[n] = g[n]
  <2>1. n + 1 \in Nat /\ n <= n + 1 /\ n \in 0..n /\ \A i \in 1..n : s[i] = t[i]
    BY <1>1
  <2> QED
    BY <1>1, <1>2, <1>3, <2>1, UpToUnique
<1>7. g[n + 1] = IF e \in T THEN Append(g[n], e) ELSE g[n]
  <2>1. n + 1 \in 0..(n + 1) /\ n + 1 # 0 /\ (n + 1) - 1 = n
    BY <1>1
  <2> QED
    BY <1>1, <1>3, <2>1 DEF UpTo
<1> QED
  BY <1>4, <1>5, <1>6, <1>7 DEF t

LEMMA OnlyEmpty ==
  ASSUME NEW T
  PROVE  Only(<<>>, T) = <<>>
<1>1. PICK f : f = UpTo(<<>>, T, f, 0)
  BY UpToExists
<1>2. f[0] = <<>>
  BY <1>1 DEF UpTo
<1>3. <<>> \in Seq({}) /\ Len(<<>>) = 0
  OBVIOUS
<1> QED
  BY <1>1, <1>2, <1>3, OnlyIs

LEMMA OnlyType ==
  ASSUME NEW S, NEW s \in Seq(S), NEW T
  PROVE  Only(s, T) \in Seq(S \intersect T)
<1> DEFINE n == Len(s)
<1>1. n \in Nat /\ \A i \in 1..n : s[i] \in S
  OBVIOUS
<1>2. PICK f : f = UpTo(s, T, f, n)
  BY <1>1, UpToExists
<1> DEFINE A == {i \in 1..n : f[i] \notin Seq(S \intersect T)}
<1>3. f[0] = <<>>
  BY <1>1, <1>2 DEF UpTo
<1>4. A = {}
  <2> SUFFICES ASSUME A # {} PROVE FALSE
    OBVIOUS
  <2>1. PICK k \in A : \A i \in A : k <= i
    <3> A \subseteq 1..n
      OBVIOUS
    <3> HIDE DEF A
    <3> QED BY <1>1, SmallestExists
  <2>2. k \in 1..n /\ f[k] \notin Seq(S \intersect T) /\ k - 1 \notin A
    BY <2>1
  <2>3. f[k - 1] \in Seq(S \intersect T)
    <3>1. k - 1 = 0 \/ k - 1 \in 1..n
      BY <1>1, <2>2
    <3>2. CASE k - 1 = 0
      <4>1. f[k - 1] = <<>>
        BY <1>3, <3>2
      <4>2. <<>> \in Seq(S \intersect T)
        OBVIOUS
      <4> QED BY <4>1, <4>2
    <3>3. CASE k - 1 \in 1..n
      BY <2>2, <3>3
    <3> QED BY <3>1, <3>2, <3>3
  <2>4. f[k] = IF s[k] \in T THEN Append(f[k - 1], s[k]) ELSE f[k - 1]
    <3>1. k \in 0..n /\ k # 0
      BY <1>1, <2>2
    <3>2. f[k] = UpTo(s, T, f, n)[k]
      BY <1>2
    <3> HIDE DEF A, n
    <3> QED
      BY <3>1, <3>2 DEF UpTo
  <2>5. s[k] \in T => Append(f[k - 1], s[k]) \in Seq(S \intersect T)
    <3>1. s[k] \in S
      BY <1>1, <2>2
    <3> SUFFICES ASSUME s[k] \in T
                 PROVE  Append(f[k - 1], s[k]) \in Seq(S \intersect T)
      OBVIOUS
    <3>2. s[k] \in S \intersect T
      BY <3>1
    <3> HIDE DEF A, n
    <3> QED BY <2>3, <3>2
  <2> QED
    BY <2>2, <2>3, <2>4, <2>5
<1>5. Only(s, T) = f[n]
  BY <1>2, OnlyIs
<1>6. f[n] \in Seq(S \intersect T)
  BY <1>1, <1>3, <1>4
<1> QED
  BY <1>5, <1>6

(* Selecting by one set or another, when they agree on the elements. *)
LEMMA OnlySame ==
  ASSUME NEW S, NEW s \in Seq(S), NEW T, NEW U,
         \A i \in 1..Len(s) : s[i] \in T <=> s[i] \in U
  PROVE  Only(s, T) = Only(s, U)
<1> DEFINE n == Len(s)
<1>1. n \in Nat /\ \A i \in 1..n : s[i] \in T <=> s[i] \in U
  OBVIOUS
<1>2. PICK f : f = UpTo(s, T, f, n)
  BY <1>1, UpToExists
<1>3. PICK g : g = UpTo(s, U, g, n)
  BY <1>1, UpToExists
<1>4. Only(s, T) = f[n] /\ Only(s, U) = g[n]
  BY <1>2, <1>3, OnlyIs
<1> HIDE DEF n
<1>5. /\ \A i \in 0..n : f[i] = UpTo(s, T, f, n)[i]
      /\ \A i \in 0..n : g[i] = UpTo(s, U, g, n)[i]
  BY <1>2, <1>3
<1>6. f[0] = <<>> /\ g[0] = <<>>
  BY <1>1, <1>2, <1>3 DEF UpTo
<1>7. \A i \in 1..n :
        /\ f[i] = IF s[i] \in T THEN Append(f[i - 1], s[i]) ELSE f[i - 1]
        /\ g[i] = IF s[i] \in U THEN Append(g[i - 1], s[i]) ELSE g[i - 1]
  <2>1. \A i \in 1..n : i \in 0..n /\ i # 0
    BY <1>1
  <2> QED
    BY <1>5, <2>1 DEF UpTo
<1> DEFINE A == {i \in 1..n : f[i] # g[i]}
<1>8. A = {}
  <2> SUFFICES ASSUME A # {} PROVE FALSE
    OBVIOUS
  <2>1. PICK k \in A : \A i \in A : k <= i
    <3> A \subseteq 1..n
      OBVIOUS
    <3> HIDE DEF A
    <3> QED BY <1>1, SmallestExists
  <2>2. k \in 1..n /\ f[k] # g[k] /\ k - 1 \notin A
    BY <1>1, <2>1
  <2>3. k - 1 = 0 \/ k - 1 \in 1..n
    BY <1>1, <2>2
  <2>4. f[k - 1] = g[k - 1]
    BY <1>6, <2>2, <2>3
  <2> HIDE DEF A
  <2> QED
    BY <1>1, <1>7, <2>2, <2>4
<1>9. n = 0 \/ n \in 1..n
  BY <1>1
<1> QED
  BY <1>4, <1>6, <1>8, <1>9

(* Selecting from a concatenation.                                         *)
LEMMA OnlyConcat ==
  ASSUME NEW S, NEW s \in Seq(S), NEW t \in Seq(S), NEW T
  PROVE  Only(s \o t, T) = Only(s, T) \o Only(t, T)
<1> DEFINE n == Len(t)
           Pre(i) == SubSeq(t, 1, i)
           Bad(i) == Only(s \o Pre(i), T) # Only(s, T) \o Only(Pre(i), T)
           A == {i \in 1..n : Bad(i)}
<1>1. n \in Nat /\ Pre(n) = t /\ Pre(0) = <<>>
  OBVIOUS
<1>2. /\ Only(s, T) \in Seq(S \intersect T)
      /\ \A i \in 1..n : Pre(i - 1) \in Seq(S) /\ Only(Pre(i - 1), T) \in Seq(S \intersect T)
  <2>1. ASSUME NEW i \in 1..n PROVE Pre(i - 1) \in Seq(S)
    <3>1. i - 1 \in 0..Len(t)
      BY <1>1
    <3> QED BY <3>1
  <2> HIDE DEF Pre
  <2> QED
    BY <2>1, OnlyType
<1>3. ~Bad(0)
  <2>1. s \o <<>> = s /\ Only(s, T) \o <<>> = Only(s, T)
    BY <1>2
  <2> HIDE DEF Pre
  <2> QED
    BY <1>1, <2>1, OnlyEmpty
<1>4. ASSUME NEW i \in 1..n, ~Bad(i - 1) PROVE ~Bad(i)
  <2> DEFINE e == t[i]
             p == Pre(i - 1)
             u == s \o p
  <2>1. e \in S /\ p \in Seq(S) /\ u \in Seq(S)
    BY <1>2
  <2>2. Pre(i) = Append(p, e)
    <3>1. i - 1 \in 0..Len(t) /\ i = (i - 1) + 1
      BY <1>1
    <3> QED BY <3>1
  <2>3. s \o Append(p, e) = Append(u, e)
    BY <2>1
  <2>4. /\ Only(Append(p, e), T) = IF e \in T THEN Append(Only(p, T), e) ELSE Only(p, T)
        /\ Only(Append(u, e), T) = IF e \in T THEN Append(Only(u, T), e) ELSE Only(u, T)
    <3> HIDE DEF e, p, u
    <3> QED BY <2>1, OnlyAppend
  <2>5. Only(u, T) = Only(s, T) \o Only(p, T)
    BY <1>4
  <2>6. e \in T => Append(Only(s, T) \o Only(p, T), e) = Only(s, T) \o Append(Only(p, T), e)
    <3> SUFFICES ASSUME e \in T
                 PROVE  Append(Only(s, T) \o Only(p, T), e) = Only(s, T) \o Append(Only(p, T), e)
      OBVIOUS
    <3> DEFINE x == Only(s, T)
               y == Only(p, T)
    <3>1. x \in Seq(S \intersect T) /\ y \in Seq(S \intersect T) /\ e \in S \intersect T
      BY <1>2, <2>1
    <3> HIDE DEF x, y, e
    <3>2. Append(x \o y, e) = x \o Append(y, e)
      <4> DEFINE V == S \intersect T
                 w == <<e>>
      <4>1. x \in Seq(V) /\ y \in Seq(V) /\ e \in V /\ w \in Seq(V)
        BY <3>1
      <4> HIDE DEF V
      <4>2. x \o y \in Seq(V)
        BY <4>1, ConcatProperties
      <4>3. Append(x \o y, e) = (x \o y) \o w /\ Append(y, e) = y \o w
        BY <4>1, <4>2, AppendIsConcat
      <4> HIDE DEF w
      <4>4. (x \o y) \o w = x \o (y \o w)
        BY ONLY <4>1, ConcatAssociative, SMTT(60)
      <4> QED
        BY <4>3, <4>4, Zenon
    <3> QED BY <3>2 DEF x, y
  <2> HIDE DEF e, u, p, Pre
  <2>7. Only(s \o Pre(i), T) = Only(s, T) \o Only(Pre(i), T)
    BY <2>2, <2>3, <2>4, <2>5, <2>6
  <2> QED
    BY <2>7
<1>5. A = {}
  <2> HIDE DEF Bad
  <2> SUFFICES ASSUME A # {} PROVE FALSE
    OBVIOUS
  <2>1. PICK k \in A : \A i \in A : k <= i
    <3> A \subseteq 1..n
      OBVIOUS
    <3> HIDE DEF A
    <3> QED BY <1>1, SmallestExists
  <2>2. k \in 1..n /\ Bad(k) /\ k - 1 \notin A
    BY <1>1, <2>1
  <2>3. k - 1 = 0 \/ k - 1 \in 1..n
    BY <1>1, <2>2
  <2>4. ~Bad(k - 1)
    BY <1>3, <2>2, <2>3
  <2> QED
    BY <1>4, <2>2, <2>4
<1>6. ~Bad(n)
  <2> HIDE DEF Bad
  <2>1. n = 0 \/ n \in 1..n
    BY <1>1
  <2> QED
    BY <1>3, <1>5, <2>1
<1> QED
  BY <1>1, <1>6

LEMMA OnlyOfConcat ==
  \A S, T : \A s, t \in Seq(S) : Only(s \o t, T) = Only(s, T) \o Only(t, T)
<1> SUFFICES ASSUME NEW S, NEW T, NEW s \in Seq(S), NEW t \in Seq(S)
             PROVE  Only(s \o t, T) = Only(s, T) \o Only(t, T)
  OBVIOUS
<1> QED
  BY OnlyConcat

(* A sequence is what comes first and the rest. *)
LEMMA SplitFacts ==
  ASSUME NEW S, NEW s \in Seq(S), NEW n \in 0..Len(s)
  PROVE  /\ SubSeq(s, 1, n) \in Seq(S) /\ SubSeq(s, n + 1, Len(s)) \in Seq(S)
         /\ SubSeq(s, 1, n) \o SubSeq(s, n + 1, Len(s)) = s
         /\ SubSeq(s, 1, Len(s)) = s
         /\ Len(SubSeq(s, n + 1, Len(s))) = Len(s) - n
         /\ \A i \in 1..(Len(s) - n) : SubSeq(s, n + 1, Len(s))[i] = s[n + i]
<1>1. Len(s) \in Nat /\ n \in Int /\ \A i \in 1..Len(s) : s[i] \in S
  OBVIOUS
<1>2. SubSeq(s, 1, Len(s)) = s
  BY SubSeqFull
<1>3. SubSeq(s, 1, n) \o SubSeq(s, n + 1, Len(s)) = SubSeq(s, 1, Len(s))
  <2>1. 1 \in 1..(Len(s) + 1) /\ n \in (1 - 1)..Len(s) /\ Len(s) \in n..Len(s)
    BY <1>1
  <2> QED BY <2>1, ConcatAdjacentSubSeq
<1>4. SubSeq(s, 1, n) \in Seq(S)
  BY <1>1
<1>5. /\ SubSeq(s, n + 1, Len(s)) \in Seq(S)
      /\ Len(SubSeq(s, n + 1, Len(s))) = Len(s) - n
      /\ \A i \in 1..(Len(s) - n) : SubSeq(s, n + 1, Len(s))[i] = s[n + i]
  BY <1>1
<1> QED
  BY <1>2, <1>3, <1>4, <1>5

(* Selecting from what comes first, and then from the rest. *)
LEMMA OnlySplit ==
  ASSUME NEW S, NEW s \in Seq(S), NEW n \in 0..Len(s), NEW T, NEW U,
         \A i \in 1..Len(s) : s[i] \in T <=> s[i] \in U
  PROVE  Only(SubSeq(s, 1, n), U) \o Only(SubSeq(s, n + 1, Len(s)), T)
           = Only(SubSeq(s, 1, Len(s)), U)
<1> DEFINE a == SubSeq(s, 1, n)
           b == SubSeq(s, n + 1, Len(s))
<1>1. /\ a \in Seq(S) /\ b \in Seq(S) /\ a \o b = s /\ SubSeq(s, 1, Len(s)) = s
      /\ Len(b) = Len(s) - n /\ \A i \in 1..(Len(s) - n) : b[i] = s[n + i]
  BY SplitFacts
<1> HIDE DEF a, b
<1>2. \A i \in 1..Len(b) : b[i] \in T <=> b[i] \in U
  <2>1. \A i \in 1..(Len(s) - n) : n + i \in 1..Len(s)
    OBVIOUS
  <2> QED
    BY <1>1, <2>1
<1>3. Only(b, T) = Only(b, U)
  BY <1>1, <1>2, OnlySame
<1>4. Only(a \o b, U) = Only(a, U) \o Only(b, U)
  <2>1. a \in Seq(S) /\ b \in Seq(S)
    BY <1>1
  <2> QED
    BY <2>1, OnlyOfConcat, Zenon
<1> QED
  BY <1>1, <1>3, <1>4 DEF a, b

(* What was first stays first when more follows. *)
LEMMA PrefixKept ==
  ASSUME NEW S, NEW s \in Seq(S), NEW t \in Seq(S), NEW n \in 0..Len(s)
  PROVE  SubSeq(s \o t, 1, n) = SubSeq(s, 1, n)
<1>1. s \o t \in Seq(S) /\ Len(s) \in Nat /\ Len(t) \in Nat /\ Len(s \o t) = Len(s) + Len(t)
  BY ConcatProperties, LenProperties
<1>2. n \in Int /\ \A i \in 1..n : (s \o t)[i] = s[i] /\ s[i] \in S
  <2>1. \A i \in 1..n : i \in 1..Len(s) /\ i \in 1..(Len(s) + Len(t)) /\ i <= Len(s)
    BY <1>1
  <2> QED
    BY <2>1, ConcatProperties
<1> DEFINE a == SubSeq(s \o t, 1, n)
           b == SubSeq(s, 1, n)
<1>3. /\ a \in Seq(S) /\ Len(a) = n /\ \A i \in 1..n : a[i] = (s \o t)[i]
      /\ b \in Seq(S) /\ Len(b) = n /\ \A i \in 1..n : b[i] = s[i]
  <2>1. \A i \in 1..n : (s \o t)[i] \in S
    BY <1>2
  <2>2. a \in Seq(S) /\ Len(a) = n
    BY <1>1, <2>1
  <2>3. \A i \in 1..n : a[i] = (s \o t)[i]
    BY <1>1
  <2>4. b \in Seq(S) /\ Len(b) = n /\ \A i \in 1..n : b[i] = s[i]
    BY <1>1, <1>2
  <2> QED
    BY <2>2, <2>3, <2>4
<1> HIDE DEF a, b
<1>4. a = b
  BY <1>2, <1>3, SeqEqual
<1> QED
  BY <1>4 DEF a, b

(* A single element is selected or not. *)
LEMMA OnlyOne ==
  ASSUME NEW e, NEW T
  PROVE  Only(<<e>>, T) = IF e \in T THEN <<e>> ELSE <<>>
<1>1. <<e>> = Append(<<>>, e) /\ <<>> \in Seq({e}) /\ e \in {e}
  OBVIOUS
<1>2. Only(Append(<<>>, e), T) = IF e \in T THEN Append(Only(<<>>, T), e) ELSE Only(<<>>, T)
  BY <1>1, OnlyAppend
<1> QED
  BY <1>1, <1>2, OnlyEmpty

(* A sequence over the set is selected whole. *)
LEMMA OnlyAll ==
  ASSUME NEW T, NEW s \in Seq(T)
  PROVE  Only(s, T) = s
<1> DEFINE n == Len(s)
           Pre(i) == SubSeq(s, 1, i)
           Bad(i) == Only(Pre(i), T) # Pre(i)
           A == {i \in 1..n : Bad(i)}
<1>1. n \in Nat /\ Pre(n) = s /\ Pre(0) = <<>>
  OBVIOUS
<1>2. ~Bad(0)
  <2> HIDE DEF Pre
  <2> QED BY <1>1, OnlyEmpty
<1>3. ASSUME NEW i \in 1..n, ~Bad(i - 1) PROVE ~Bad(i)
  <2> DEFINE p == Pre(i - 1)
             e == s[i]
  <2>1. i - 1 \in 0..Len(s) /\ i = (i - 1) + 1
    BY <1>1
  <2>2. p \in Seq(T) /\ e \in T
    BY <2>1
  <2>3. Pre(i) = Append(p, e)
    BY <2>1
  <2>4. Only(p, T) = p
    BY <1>3
  <2> HIDE DEF p, e, Pre
  <2>5. Only(Append(p, e), T) = Append(Only(p, T), e)
    BY <2>2, OnlyAppend
  <2> QED
    BY <2>3, <2>4, <2>5
<1>4. A = {}
  <2> HIDE DEF Bad
  <2> SUFFICES ASSUME A # {} PROVE FALSE
    OBVIOUS
  <2>1. PICK k \in A : \A i \in A : k <= i
    <3> A \subseteq 1..n
      OBVIOUS
    <3> HIDE DEF A
    <3> QED BY <1>1, SmallestExists
  <2>2. k \in 1..n /\ Bad(k) /\ k - 1 \notin A
    BY <1>1, <2>1
  <2>3. k - 1 = 0 \/ k - 1 \in 1..n
    BY <1>1, <2>2
  <2>4. ~Bad(k - 1)
    BY <1>2, <2>2, <2>3
  <2> QED
    BY <1>3, <2>2, <2>4
<1>5. ~Bad(n)
  <2> HIDE DEF Bad
  <2>1. n = 0 \/ n \in 1..n
    BY <1>1
  <2> QED
    BY <1>2, <1>4, <2>1
<1> QED
  BY <1>1, <1>5

(* Selecting from three parts, when the middle one is selected whole and   *)
(* the last not at all.                                                    *)
LEMMA OnlyMiddle ==
  ASSUME NEW S, NEW a \in Seq(S), NEW b \in Seq(S), NEW c \in Seq(S), NEW T,
         Only(b, T) = b, Only(c, T) = <<>>
  PROVE  Only((a \o b) \o c, T) = Only(a, T) \o b
<1> DEFINE d == a \o b
           u == Only(a, T) \o b
<1>1. d \in Seq(S)
  BY ConcatProperties
<1>2. Only(d, T) = u
  <2>1. a \in Seq(S) /\ b \in Seq(S)
    OBVIOUS
  <2>2. Only(a \o b, T) = Only(a, T) \o Only(b, T)
    BY ONLY <2>1, OnlyOfConcat, Zenon
  <2> QED
    BY <2>2, Zenon
<1>3. u \in Seq(S)
  <2>1. Only(a, T) \in Seq(S \intersect T)
    BY OnlyType
  <2>2. Only(a, T) \in Seq(S)
    BY <2>1, SeqMonotonic
  <2> QED
    BY <2>2, ConcatProperties
<1> HIDE DEF d, u
<1>4. Only(d \o c, T) = Only(d, T) \o Only(c, T)
  <2>1. d \in Seq(S) /\ c \in Seq(S)
    BY <1>1
  <2> QED
    BY ONLY <2>1, OnlyOfConcat, Zenon
<1>5. u \o <<>> = u
  BY <1>3, ConcatEmptySeq
<1>6. Only(d \o c, T) = u
  BY <1>2, <1>4, <1>5, Zenon
<1> QED
  BY <1>6, Zenon DEF d, u

(* One element more, and none. *)
LEMMA GrowFacts ==
  ASSUME NEW S, NEW s \in Seq(S), NEW e \in S
  PROVE  /\ s \o <<>> = s
         /\ s \o <<e>> = Append(s, e)
         /\ Append(s, e) \in Seq(S)
         /\ Len(s) \in Nat /\ Len(Append(s, e)) = Len(s) + 1
         /\ Append(s, e)[Len(s) + 1] = e
         /\ \A i \in 1..Len(s) : Append(s, e)[i] = s[i]
         /\ \A i \in 1..Len(Append(s, e)) : i \in 1..Len(s) \/ i = Len(s) + 1
<1>1. s \o <<>> = s /\ s \o <<e>> = Append(s, e) /\ Append(s, e) \in Seq(S)
  BY ConcatEmptySeq, AppendIsConcat, AppendProperties
<1>2. /\ Len(s) \in Nat /\ Len(Append(s, e)) = Len(s) + 1
      /\ Append(s, e)[Len(s) + 1] = e
      /\ \A i \in 1..Len(s) : Append(s, e)[i] = s[i]
  OBVIOUS
<1>3. \A i \in 1..(Len(s) + 1) : i \in 1..Len(s) \/ i = Len(s) + 1
  BY <1>2
<1> QED
  BY <1>1, <1>2, <1>3

(* A sequence of at most one element. *)
LEMMA SelectsOne ==
  ASSUME NEW S, NEW u \in Seq(S), Len(u) <= 1, NEW T
  PROVE  \/ Only(u, T) = <<>>
         \/ Len(u) = 1 /\ u[1] \in T /\ Only(u, T) = <<u[1]>>
<1>1. Len(u) \in Nat /\ (Len(u) = 0 => u = <<>>)
  OBVIOUS
<1>2. CASE Len(u) = 0
  BY <1>1, <1>2, OnlyEmpty
<1>3. CASE Len(u) = 1
  <2> DEFINE e == u[1]
  <2>1. e \in S
    BY <1>3
  <2>2. /\ <<e>> \in Seq(S) /\ Len(<<e>>) = 1 /\ <<e>>[1] = e
    BY <2>1
  <2>3. Len(u) = Len(<<e>>) /\ \A i \in 1..Len(u) : u[i] = <<e>>[i]
    BY <1>3, <2>2
  <2>4. u = <<e>>
    <3> HIDE DEF e
    <3> QED BY <2>2, <2>3, SeqEqual
  <2> HIDE DEF e
  <2>5. Only(<<e>>, T) = IF e \in T THEN <<e>> ELSE <<>>
    BY OnlyOne
  <2> QED
    BY <1>3, <2>4, <2>5 DEF e
<1> QED
  BY <1>1, <1>2, <1>3

(* The first of two elements is selected or not, the second not. *)
LEMMA SelectsFirst ==
  ASSUME NEW S, NEW u \in Seq(S), Len(u) = 2, NEW T, u[2] \notin T
  PROVE  Only(u, T) = IF u[1] \in T THEN <<u[1]>> ELSE <<>>
<1> DEFINE a == u[1]
           b == u[2]
           v == <<a>>
<1>1. a \in S /\ b \in S
  OBVIOUS
<1>2. u = Append(v, b)
  <2>1. /\ Append(v, b) \in Seq(S) /\ Len(Append(v, b)) = 2
        /\ Append(v, b)[1] = a /\ Append(v, b)[2] = b
    BY <1>1
  <2> DEFINE w == Append(v, b)
  <2>2. /\ w \in Seq(S) /\ u \in Seq(S) /\ Len(u) = Len(w)
        /\ \A i \in 1..Len(u) : u[i] = w[i]
    <3>1. \A i \in 1..2 : i = 1 \/ i = 2
      OBVIOUS
    <3> HIDE DEF w
    <3>2. w[1] = u[1] /\ w[2] = u[2]
      BY <2>1 DEF w
    <3> QED BY <2>1, <3>1, <3>2 DEF w
  <2> HIDE DEF w
  <2> QED BY ONLY <2>2, SeqEqual DEF w
<1>3. v \in Seq(S) /\ Only(v, T) = IF a \in T THEN <<a>> ELSE <<>>
  <2>1. v \in Seq(S)
    BY <1>1
  <2> HIDE DEF a
  <2> QED BY <2>1, OnlyOne
<1>4. b \notin T
  OBVIOUS
<1> HIDE DEF v, b
<1>5. Only(Append(v, b), T) = Only(v, T)
  BY <1>1, <1>3, <1>4, OnlyAppend
<1> QED
  BY <1>2, <1>3, <1>5, Zenon
==============================================================================
