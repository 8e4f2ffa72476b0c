------------------------- MODULE RecordInputs_proofs -------------------------
(***************************************************************************)
(* Theorems about RecordInputs, for every program, build and list of       *)
(* types, for bytes of any even number of values (256 in the code) and any *)
(* values logged.                                                          *)
(*                                                                         *)
(* The argument for the payloads: the bytes of a number and the number of  *)
(* bytes are inverse to each other, so each decoder takes a payload apart  *)
(* where the wire form of its type puts it together.  The argument for the *)
(* files: every reference in a document leads to the entry it was made     *)
(* for, or to none.                                                        *)
(***************************************************************************)
EXTENDS RecordInputs, SequenceFacts_proofs

(* What the definitions are for: a recursive function on 0..n exists.      *)
LEMMA IterationExists ==
  ASSUME NEW n \in Nat, NEW start \in Nat, NEW step \in [1..n -> [Nat -> Nat]]
  PROVE  \E f \in [0..n -> Nat] :
           f = [k \in 0..n |-> IF k = 0 THEN start ELSE step[k][f[k - 1]]]
<1> DEFINE Has(m) == \E f \in [0..m -> Nat] :
                       f = [k \in 0..m |-> IF k = 0 THEN start ELSE step[k][f[k - 1]]]
           A == {m \in 1..n : ~Has(m)}
<1>1. Has(0)
  <2> DEFINE f == [k \in 0..0 |-> start]
  <2>1. f \in [0..0 -> Nat]
    OBVIOUS
  <2>2. f = [k \in 0..0 |-> IF k = 0 THEN start ELSE step[k][f[k - 1]]]
    OBVIOUS
  <2> QED
    BY <2>1, <2>2
<1>2. ASSUME NEW m \in 1..n, Has(m - 1) PROVE Has(m)
  <2>1. PICK f \in [0..(m - 1) -> Nat] :
          f = [k \in 0..(m - 1) |-> IF k = 0 THEN start ELSE step[k][f[k - 1]]]
    BY <1>2
  <2> DEFINE last == step[m][f[m - 1]]
             g == [k \in 0..m |-> IF k < m THEN f[k] ELSE last]
  <2>2. m - 1 \in 0..(m - 1) /\ last \in Nat
    <3>1. m - 1 \in 0..(m - 1) /\ step[m] \in [Nat -> Nat]
      OBVIOUS
    <3>2. f[m - 1] \in Nat
      BY <3>1
    <3> QED
      BY <3>1, <3>2
  <2>3. g \in [0..m -> Nat]
    <3>1. \A k \in 0..m : k < m => k \in 0..(m - 1)
      OBVIOUS
    <3> HIDE DEF last
    <3> QED BY <2>2, <3>1
  <2>4. \A k \in 0..(m - 1) : f[k] = IF k = 0 THEN start ELSE step[k][f[k - 1]]
    BY <2>1
  <2>5. \A k \in 0..m : g[k] = IF k < m THEN f[k] ELSE last
    OBVIOUS
  <2>6. ASSUME NEW k \in 0..m
        PROVE  g[k] = IF k = 0 THEN start ELSE step[k][g[k - 1]]
    <3> HIDE DEF g
    <3>1. CASE k = 0
      <4>1. 0 \in 0..(m - 1) /\ 0 < m
        OBVIOUS
      <4> QED
        BY <2>4, <2>5, <3>1, <4>1
    <3>2. CASE k # 0 /\ k < m
      <4>1. k - 1 \in 0..m /\ k - 1 < m /\ k \in 0..(m - 1)
        BY <3>2
      <4> QED
        BY <2>4, <2>5, <3>2, <4>1
    <3>3. CASE k = m
      <4>1. k - 1 \in 0..m /\ k - 1 < m /\ k # 0 /\ ~(k < m)
        BY <3>3
      <4> QED
        BY <2>5, <3>3, <4>1
    <3> QED
      BY <3>1, <3>2, <3>3
  <2>7. g = [k \in 0..m |-> g[k]]
    OBVIOUS
  <2> HIDE DEF g
  <2>8. g = [k \in 0..m |-> IF k = 0 THEN start ELSE step[k][g[k - 1]]]
    BY <2>6, <2>7, Zenon
  <2> QED
    BY <2>3, <2>8
<1> HIDE DEF Has
<1>3. A = {}
  <2> SUFFICES ASSUME A # {} PROVE FALSE
    OBVIOUS
  <2>1. PICK m \in A : \A k \in A : m <= k
    <3> A \subseteq 1..n
      OBVIOUS
    <3> HIDE DEF A
    <3> QED BY SmallestExists
  <2>2. m \in 1..n /\ ~Has(m) /\ m - 1 \notin A
    BY <2>1
  <2>3. m - 1 = 0 \/ m - 1 \in 1..n
    BY <2>2
  <2>4. Has(m - 1)
    BY <1>1, <2>2, <2>3
  <2> QED
    BY <1>2, <2>2, <2>4
<1>4. Has(n)
  <2>1. n = 0 \/ n \in 1..n
    OBVIOUS
  <2> QED
    BY <1>1, <1>3, <2>1
<1> QED
  BY <1>4 DEF Has

------------------------------------------------------------------------------
(* Numbers and their bytes.                                                *)

LEMMA BaseFacts ==
  /\ Base \in Nat /\ Base >= 5 /\ Base = 2 * (Base \div 2) /\ Base \div 2 \in Nat
  /\ 0 \in Byte /\ 1 \in Byte /\ 2 \in Byte /\ 3 \in Byte /\ 4 \in Byte
  /\ \A b \in Byte : b \in Nat /\ b < Base
BY BaseAssumption DEF Byte

LEMMA DivisionFacts ==
  /\ \A q \in Nat : \A b \in Byte : (q * Base + b) \div Base = q /\ (q * Base + b) % Base = b
  /\ \A n \in Nat : /\ n \div Base \in Nat /\ n % Base \in Byte
                    /\ n = (n \div Base) * Base + (n % Base)
<1>1. \A q \in Nat : \A b \in 0..(Base - 1) : (q * Base + b) \div Base = q
  BY BaseAssumption
<1>2. \A q \in Nat : \A b \in 0..(Base - 1) : (q * Base + b) % Base = b
  BY BaseAssumption
<1>3. \A n \in Nat : n = (n \div Base) * Base + (n % Base) /\ n % Base \in 0..(Base - 1)
                       /\ n \div Base \in Nat
  BY BaseAssumption
<1>4. Byte = 0..(Base - 1)
  BY DEF Byte
<1>5. \A n \in Nat : /\ n \div Base \in Nat /\ n % Base \in Byte
                    /\ n = (n \div Base) * Base + (n % Base)
  <2> TAKE n \in Nat
  <2>1. n \div Base \in Nat
    BY <1>3, Zenon
  <2>2. n % Base \in Byte
    BY <1>3, <1>4, Zenon
  <2>3. n = (n \div Base) * Base + (n % Base)
    BY <1>3, Zenon
  <2> QED
    BY <2>1, <2>2, <2>3, Zenon
<1>6. \A q \in Nat : \A b \in Byte : (q * Base + b) \div Base = q /\ (q * Base + b) % Base = b
  BY <1>1, <1>2, <1>4, Zenon
<1> QED
  BY <1>5, <1>6

LEMMA PowerFacts ==
  /\ Power[0] = 1
  /\ \A k \in 0..8 : Power[k] \in Nat /\ Power[k] >= 1
  /\ \A k \in 1..8 : Power[k] = Base * Power[k - 1]
<1> DEFINE step == [k \in 1..8 |-> [v \in Nat |-> Base * v]]
           Is(f) == f = [k \in 0..8 |-> IF k = 0 THEN 1 ELSE Base * f[k - 1]]
<1>1. step \in [1..8 -> [Nat -> Nat]]
  BY BaseFacts
<1>2. PICK f \in [0..8 -> Nat] :
        f = [k \in 0..8 |-> IF k = 0 THEN 1 ELSE step[k][f[k - 1]]]
  <2> HIDE DEF step
  <2>1. 8 \in Nat /\ 1 \in Nat
    OBVIOUS
  <2> QED
    BY <1>1, <2>1, IterationExists, ZenonT(60)
<1>3. \A k \in 0..8 : f[k] = IF k = 0 THEN 1 ELSE Base * f[k - 1]
  <2>1. \A k \in 0..8 : k # 0 => f[k] = step[k][f[k - 1]] /\ f[k - 1] \in Nat /\ k \in 1..8
    BY <1>2
  <2>2. f[0] = 1
    BY <1>2
  <2> QED
    BY <2>1, <2>2
<1>4. Is(f)
  BY <1>2, <1>3, Zenon
<1>5. Is(Power)
  <2> HIDE DEF Is
  <2>1. Power = CHOOSE g : Is(g)
    BY DEF Power, Is
  <2> QED
    BY <1>4, <2>1
<1>6. /\ Power[0] = 1
      /\ \A k \in 1..8 : Power[k] = Base * Power[k - 1]
  BY <1>5
<1>7. \A v \in Nat : v >= 1 => Base * v \in Nat /\ Base * v >= 1
  BY BaseFacts
<1>8. /\ Power[1] \in Nat /\ Power[1] >= 1 /\ Power[2] \in Nat /\ Power[2] >= 1
      /\ Power[3] \in Nat /\ Power[3] >= 1 /\ Power[4] \in Nat /\ Power[4] >= 1
      /\ Power[5] \in Nat /\ Power[5] >= 1 /\ Power[6] \in Nat /\ Power[6] >= 1
      /\ Power[7] \in Nat /\ Power[7] >= 1 /\ Power[8] \in Nat /\ Power[8] >= 1
  <2>1. /\ Power[1] = Base * Power[0] /\ Power[2] = Base * Power[1]
        /\ Power[3] = Base * Power[2] /\ Power[4] = Base * Power[3]
        /\ Power[5] = Base * Power[4] /\ Power[6] = Base * Power[5]
        /\ Power[7] = Base * Power[6] /\ Power[8] = Base * Power[7]
    BY <1>6
  <2>2. Power[1] \in Nat /\ Power[1] >= 1
    <3>1. Power[0] \in Nat /\ Power[0] >= 1
      BY <1>6
    <3> QED
      BY <1>7, <2>1, <3>1
  <2>3. Power[2] \in Nat /\ Power[2] >= 1
    BY <1>7, <2>1, <2>2
  <2>4. Power[3] \in Nat /\ Power[3] >= 1
    BY <1>7, <2>1, <2>3
  <2>5. Power[4] \in Nat /\ Power[4] >= 1
    BY <1>7, <2>1, <2>4
  <2>6. Power[5] \in Nat /\ Power[5] >= 1
    BY <1>7, <2>1, <2>5
  <2>7. Power[6] \in Nat /\ Power[6] >= 1
    BY <1>7, <2>1, <2>6
  <2>8. Power[7] \in Nat /\ Power[7] >= 1
    BY <1>7, <2>1, <2>7
  <2> QED
    BY <1>7, <2>1, <2>2, <2>3, <2>4, <2>5, <2>6, <2>7, <2>8
<1> QED
  BY <1>6, <1>8

LEMMA MultiplyFacts ==
  \A p, q \in Nat :
    /\ q * Base \in Nat /\ Base * q = q * Base
    /\ q < p => q * Base + Base <= p * Base
    /\ p <= q => p * Base <= q * Base
<1> TAKE p, q \in Nat
<1>1. Base \in Nat
  BY BaseFacts
<1>2. q * Base \in Nat /\ Base * q = q * Base
  BY <1>1
<1>3. ASSUME NEW a \in Nat, NEW b \in Nat, a <= b PROVE a * Base <= b * Base
  <2>1. PICK d \in Nat : b = a + d
    <3>1. b - a \in Nat /\ b = a + (b - a)
      BY <1>3
    <3> QED
      BY <3>1
  <2>2. b * Base = a * Base + d * Base
    BY <1>1, <2>1
  <2>3. a * Base \in Nat /\ d * Base \in Nat
    BY <1>1
  <2> QED
    BY <2>2, <2>3
<1>4. q < p => q * Base + Base <= p * Base
  <2> SUFFICES ASSUME q < p PROVE q * Base + Base <= p * Base
    OBVIOUS
  <2>1. q + 1 \in Nat /\ q + 1 <= p
    OBVIOUS
  <2>2. (q + 1) * Base <= p * Base
    BY <1>3, <2>1
  <2>3. (q + 1) * Base = q * Base + Base
    BY <1>1
  <2> QED
    BY <2>2, <2>3
<1> QED
  BY <1>2, <1>3, <1>4

(* Induction up to n, about a set of positions. *)
LEMMA Upward ==
  ASSUME NEW n \in Nat, NEW A, 0 \in A, \A k \in 1..n : k - 1 \in A => k \in A
  PROVE  \A k \in 0..n : k \in A
<1> DEFINE Out == {k \in 1..n : k \notin A}
<1>1. CASE Out = {}
  BY <1>1
<1>2. CASE Out # {}
  <2>1. PICK k \in Out : \A j \in Out : k <= j
    <3>1. Out \subseteq 1..n
      OBVIOUS
    <3> HIDE DEF Out
    <3> QED
      BY <1>2, <3>1, SmallestExists
  <2>2. k \in 1..n /\ k \notin A /\ k - 1 \notin Out
    BY <2>1
  <2>3. k - 1 = 0 \/ k - 1 \in 1..n
    BY <2>2
  <2> QED
    BY <2>2, <2>3
<1> QED
  BY <1>1, <1>2

(* v[k] is the value of the first k bytes. *)
Values(s, v) ==
  /\ v \in [0..Len(s) -> Nat] /\ v[0] = 0
  /\ \A k \in 1..Len(s) : v[k] = v[k - 1] * Base + s[k]

(* r[k] is n without its k last bytes. *)
Rests(n, width, r) ==
  /\ r \in [0..width -> Nat] /\ r[0] = n
  /\ \A k \in 1..width : r[k] = r[k - 1] \div Base

LEMMA BigEndianIs ==
  ASSUME NEW s \in Seq(Byte)
  PROVE  \E v : Values(s, v) /\ BigEndian(s) = v[Len(s)]
<1> DEFINE n == Len(s)
           step == [k \in 1..n |-> [a \in Nat |-> a * Base + s[k]]]
           Is(f) == f = [k \in 0..n |-> IF k = 0 THEN 0 ELSE f[k - 1] * Base + s[k]]
<1>1. n \in Nat /\ \A k \in 1..n : s[k] \in Nat
  <2>1. \A b \in Byte : b \in Nat
    BY BaseFacts
  <2> QED
    BY <2>1, ElementFacts
<1> HIDE DEF n
<1>2. step \in [1..n -> [Nat -> Nat]]
  <2>1. \A a, b \in Nat : a * Base + b \in Nat
    BY MultiplyFacts, BaseFacts
  <2>2. \A k \in 1..n : \A a \in Nat : a * Base + s[k] \in Nat
    BY <1>1, <2>1, Zenon
  <2> QED
    BY <2>2
<1>3. PICK f \in [0..n -> Nat] :
        f = [k \in 0..n |-> IF k = 0 THEN 0 ELSE step[k][f[k - 1]]]
  <2> HIDE DEF step
  <2>1. 0 \in Nat /\ n \in Nat
    BY <1>1
  <2> QED
    BY <1>2, <2>1, IterationExists, Zenon
<1>4. f[0] = 0 /\ \A k \in 1..n : f[k] = f[k - 1] * Base + s[k]
  <2>1. \A k \in 1..n : f[k] = step[k][f[k - 1]] /\ f[k - 1] \in Nat
    <3>1. n \in Nat
      BY <1>1
    <3>2. \A k \in 1..n : k \in 0..n /\ k # 0 /\ k - 1 \in 0..n
      BY <3>1
    <3> HIDE DEF step
    <3> QED
      BY <1>3, <3>2
  <2>2. f[0] = 0
    BY <1>1, <1>3
  <2> QED
    BY <2>1, <2>2
<1>5. Is(f)
  <2>1. \A k \in 0..n : f[k] = IF k = 0 THEN 0 ELSE f[k - 1] * Base + s[k]
    <3>1. \A k \in 0..n : k # 0 => k \in 1..n
      BY <1>1
    <3> QED
      BY <1>4, <3>1
  <2> QED
    BY <1>3, <2>1, Zenon
<1> DEFINE v == CHOOSE g : Is(g)
<1>6. Is(v)
  <2> HIDE DEF Is
  <2> QED
    BY <1>5
<1>7. BigEndian(s) = v[n]
  BY DEF BigEndian, n
<1> HIDE DEF v
<1>8. v[0] = 0 /\ \A k \in 1..n : v[k] = v[k - 1] * Base + s[k]
  <2>1. 0 \in 0..n /\ \A k \in 1..n : k \in 0..n /\ k # 0
    BY <1>1
  <2> QED
    BY <1>6, <2>1
<1>9. \A k \in 0..n : v[k] = f[k]
  <2> DEFINE A == {k \in 0..n : v[k] = f[k]}
  <2>1. 0 \in A
    BY <1>1, <1>4, <1>8
  <2>2. \A k \in 1..n : k - 1 \in A => k \in A
    BY <1>1, <1>4, <1>8
  <2> HIDE DEF A
  <2>3. \A k \in 0..n : k \in A
    BY <1>1, <2>1, <2>2, Upward
  <2> QED
    BY <2>3 DEF A
<1>10. v \in [0..n -> Nat]
  <2>1. v = [k \in 0..n |-> v[k]]
    BY <1>6
  <2>2. \A k \in 0..n : v[k] \in Nat
    BY <1>3, <1>9
  <2> QED
    BY <2>1, <2>2
<1> QED
  BY <1>7, <1>8, <1>10 DEF Values, n

LEMMA BytesAre ==
  ASSUME NEW n \in Nat, NEW width \in Nat
  PROVE  \E r : Rests(n, width, r) /\ Bytes(n, width) = [k \in 1..width |-> r[width - k] % Base]
<1> DEFINE step == [k \in 1..width |-> [a \in Nat |-> a \div Base]]
           Is(f) == f = [k \in 0..width |-> IF k = 0 THEN n ELSE f[k - 1] \div Base]
<1>1. step \in [1..width -> [Nat -> Nat]]
  <2>1. \A a \in Nat : a \div Base \in Nat
    BY DivisionFacts
  <2> QED
    BY <2>1
<1>2. PICK f \in [0..width -> Nat] :
        f = [k \in 0..width |-> IF k = 0 THEN n ELSE step[k][f[k - 1]]]
  <2> HIDE DEF step
  <2> QED
    BY <1>1, IterationExists, Zenon
<1>3. f[0] = n /\ \A k \in 1..width : f[k] = f[k - 1] \div Base
  <2>1. \A k \in 1..width : f[k] = step[k][f[k - 1]] /\ f[k - 1] \in Nat
    <3>1. \A k \in 1..width : k \in 0..width /\ k # 0 /\ k - 1 \in 0..width
      OBVIOUS
    <3> HIDE DEF step
    <3> QED
      BY <1>2, <3>1
  <2>2. f[0] = n
    BY <1>2
  <2> QED
    BY <2>1, <2>2
<1>4. Is(f)
  <2>1. \A k \in 0..width : f[k] = IF k = 0 THEN n ELSE f[k - 1] \div Base
    <3>1. \A k \in 0..width : k # 0 => k \in 1..width
      OBVIOUS
    <3> QED
      BY <1>3, <3>1
  <2> QED
    BY <1>2, <2>1, Zenon
<1> DEFINE r == CHOOSE g : Is(g)
<1>5. Is(r)
  <2> HIDE DEF Is
  <2> QED
    BY <1>4
<1>6. Bytes(n, width) = [k \in 1..width |-> r[width - k] % Base]
  BY DEF Bytes
<1> HIDE DEF r
<1>7. r[0] = n /\ \A k \in 1..width : r[k] = r[k - 1] \div Base
  <2>1. 0 \in 0..width /\ \A k \in 1..width : k \in 0..width /\ k # 0
    OBVIOUS
  <2> QED
    BY <1>5, <2>1
<1>8. \A k \in 0..width : r[k] = f[k]
  <2> DEFINE A == {k \in 0..width : r[k] = f[k]}
  <2>1. 0 \in A
    BY <1>3, <1>7
  <2>2. \A k \in 1..width : k - 1 \in A => k \in A
    BY <1>3, <1>7
  <2> HIDE DEF A
  <2>3. \A k \in 0..width : k \in A
    BY <2>1, <2>2, Upward
  <2> QED
    BY <2>3 DEF A
<1>9. r \in [0..width -> Nat]
  <2>1. r = [k \in 0..width |-> r[k]]
    BY <1>5
  <2>2. \A k \in 0..width : r[k] \in Nat
    BY <1>2, <1>8
  <2> QED
    BY <2>1, <2>2
<1> QED
  BY <1>6, <1>7, <1>9 DEF Rests

LEMMA BytesType ==
  ASSUME NEW n \in Nat, NEW width \in Nat
  PROVE  /\ Bytes(n, width) \in [1..width -> Byte]
         /\ Bytes(n, width) \in Seq(Byte) /\ Len(Bytes(n, width)) = width
<1>1. PICK r : Rests(n, width, r) /\ Bytes(n, width) = [k \in 1..width |-> r[width - k] % Base]
  BY BytesAre
<1>2. \A k \in 1..width : r[width - k] % Base \in Byte
  <2>1. \A k \in 1..width : width - k \in 0..width
    OBVIOUS
  <2>2. \A k \in 1..width : r[width - k] \in Nat
    BY <1>1, <2>1 DEF Rests
  <2> QED
    BY <2>2, DivisionFacts
<1>3. Bytes(n, width) \in [1..width -> Byte]
  BY <1>1, <1>2
<1> QED
  BY <1>3

(* What to_be_bytes writes, from_be_bytes reads. *)
LEMMA ValueOfBytes ==
  ASSUME NEW n \in Nat, NEW width \in 0..8, n < Power[width]
  PROVE  BigEndian(Bytes(n, width)) = n
<1> DEFINE s == Bytes(n, width)
<1>1. width \in Nat
  OBVIOUS
<1>2. PICK r : Rests(n, width, r) /\ s = [k \in 1..width |-> r[width - k] % Base]
  BY <1>1, BytesAre
<1>3. s \in Seq(Byte) /\ Len(s) = width
  BY <1>1, BytesType
<1>4. \A k \in 1..width : s[k] = r[width - k] % Base
  BY <1>2
<1> HIDE DEF s
<1>5. PICK v : Values(s, v) /\ BigEndian(s) = v[width]
  BY <1>3, BigEndianIs
<1>6. /\ v \in [0..width -> Nat] /\ v[0] = 0
      /\ \A k \in 1..width : v[k] = v[k - 1] * Base + s[k]
  BY <1>3, <1>5 DEF Values
<1>7. /\ r \in [0..width -> Nat] /\ r[0] = n
      /\ \A k \in 1..width : r[k] = r[k - 1] \div Base
  BY <1>2 DEF Rests
<1>8. \A k \in 0..width : r[k] < Power[width - k]
  <2> DEFINE A == {k \in 0..width : r[k] < Power[width - k]}
  <2>1. 0 \in A
    BY <1>1, <1>7
  <2>2. ASSUME NEW k \in 1..width, k - 1 \in A PROVE k \in A
    <3> DEFINE p == Power[width - k]
               q == r[k]
               m == r[k - 1]
    <3>1. /\ width - (k - 1) \in 1..8 /\ (width - (k - 1)) - 1 = width - k
          /\ width - k \in 0..8 /\ k \in 0..width /\ k - 1 \in 0..width
      OBVIOUS
    <3>2. Power[width - (k - 1)] = Base * p /\ p \in Nat
      BY <3>1, PowerFacts
    <3>3. m < Base * p /\ m \in Nat /\ q \in Nat
      BY <1>7, <2>2, <3>1, <3>2
    <3>4. q = m \div Base
      BY <1>7
    <3> HIDE DEF p, q, m
    <3>5. m = q * Base + (m % Base) /\ m % Base \in Nat
      BY <3>3, <3>4, DivisionFacts, BaseFacts
    <3>6. /\ q * Base \in Nat /\ p * Base \in Nat /\ Base * p = p * Base
          /\ (p <= q => p * Base <= q * Base)
      BY <3>2, <3>3, MultiplyFacts
    <3>7. q < p
      <4> DEFINE qb == q * Base
                 pb == p * Base
                 b == m % Base
      <4>1. m = qb + b /\ b \in Nat /\ qb \in Nat /\ pb \in Nat /\ m < pb /\ (p <= q => pb <= qb)
        BY <3>3, <3>5, <3>6
      <4> HIDE DEF qb, pb, b
      <4> QED
        BY <3>2, <3>3, <4>1
    <3> QED
      BY <3>1, <3>7 DEF p, q
  <2> HIDE DEF A
  <2>3. \A k \in 0..width : k \in A
    BY <1>1, <2>1, <2>2, Upward
  <2> QED
    BY <2>3 DEF A
<1>9. r[width] = 0
  <2>1. width \in 0..width /\ width - width = 0
    BY <1>1
  <2>2. r[width] \in Nat /\ r[width] < 1
    BY <1>7, <1>8, <2>1, PowerFacts
  <2> QED
    BY <2>2
<1>10. \A k \in 0..width : v[k] = r[width - k]
  <2> DEFINE A == {k \in 0..width : v[k] = r[width - k]}
  <2>1. 0 \in A
    BY <1>1, <1>6, <1>9
  <2>2. ASSUME NEW k \in 1..width, k - 1 \in A PROVE k \in A
    <3> DEFINE j == width - k
               m == r[j]
    <3>1. /\ j \in 0..width /\ j + 1 \in 1..width /\ (j + 1) - 1 = j
          /\ width - (k - 1) = j + 1 /\ k \in 0..width
      OBVIOUS
    <3>2. v[k - 1] = r[j + 1]
      BY <2>2, <3>1
    <3>3. r[j + 1] = m \div Base /\ m \in Nat
      BY <1>7, <3>1
    <3>4. s[k] = m % Base
      BY <1>4
    <3>5. v[k] = v[k - 1] * Base + s[k]
      BY <1>6
    <3> HIDE DEF j, m
    <3>6. v[k] = m
      BY <3>2, <3>3, <3>4, <3>5, DivisionFacts
    <3> QED
      BY <3>1, <3>6 DEF j, m
  <2> HIDE DEF A
  <2>3. \A k \in 0..width : k \in A
    BY <1>1, <2>1, <2>2, Upward
  <2> QED
    BY <2>3 DEF A
<1>11. v[width] = r[0]
  <2>1. width \in 0..width /\ width - width = 0
    BY <1>1
  <2> QED
    BY <1>10, <2>1
<1> QED
  BY <1>5, <1>7, <1>11 DEF s

(* What from_be_bytes reads, to_be_bytes writes. *)
LEMMA BytesOfValue ==
  ASSUME NEW s \in Seq(Byte)
  PROVE  /\ BigEndian(s) \in Nat
         /\ Len(s) <= 8 => BigEndian(s) < Power[Len(s)]
         /\ Bytes(BigEndian(s), Len(s)) = s
<1> DEFINE n == Len(s)
<1>1. n \in Nat /\ \A k \in 1..n : s[k] \in Byte
  BY ElementFacts
<1>2. PICK v : Values(s, v) /\ BigEndian(s) = v[n]
  BY BigEndianIs
<1>3. /\ v \in [0..n -> Nat] /\ v[0] = 0
      /\ \A k \in 1..n : v[k] = v[k - 1] * Base + s[k]
  BY <1>2 DEF Values
<1>4. s = [k \in 1..n |-> s[k]]
  OBVIOUS
<1> HIDE DEF n
<1>5. n \in 0..n /\ v[n] \in Nat
  BY <1>1, <1>3
<1>6. ASSUME n <= 8 PROVE v[n] < Power[n]
  <2> DEFINE A == {k \in 0..n : v[k] < Power[k]}
  <2>1. 0 \in A
    BY <1>1, <1>3, PowerFacts
  <2>2. ASSUME NEW k \in 1..n, k - 1 \in A PROVE k \in A
    <3> DEFINE p == Power[k - 1]
               q == v[k - 1]
               b == s[k]
    <3>1. k \in 1..8 /\ k - 1 \in 0..8 /\ k \in 0..n /\ k - 1 \in 0..n
      BY <1>1, <1>6
    <3>2. p \in Nat /\ q \in Nat /\ q < p /\ Power[k] = Base * p
      BY <1>3, <2>2, <3>1, PowerFacts
    <3>3. b \in Nat /\ b < Base /\ Base \in Nat
      BY <1>1, BaseFacts
    <3>4. v[k] = q * Base + b
      BY <1>3
    <3> HIDE DEF p, q, b
    <3>5. q * Base \in Nat /\ q * Base + Base <= p * Base /\ Base * p = p * Base /\ p * Base \in Nat
      BY <3>2, MultiplyFacts
    <3>6. v[k] < Power[k]
      <4> DEFINE qb == q * Base
                 pb == p * Base
      <4>1. qb \in Nat /\ qb + Base <= pb /\ pb \in Nat /\ v[k] = qb + b /\ Power[k] = pb
        BY <3>2, <3>4, <3>5
      <4> HIDE DEF qb, pb
      <4> QED
        BY <3>3, <4>1
    <3> QED
      BY <3>1, <3>6
  <2> HIDE DEF A
  <2>3. \A k \in 0..n : k \in A
    BY <1>1, <2>1, <2>2, Upward
  <2> QED
    BY <1>5, <2>3 DEF A
<1> DEFINE m == v[n]
<1>7. PICK r : Rests(m, n, r) /\ Bytes(m, n) = [k \in 1..n |-> r[n - k] % Base]
  <2> HIDE DEF m
  <2> QED
    BY <1>1, <1>5, BytesAre DEF m
<1>8. /\ r \in [0..n -> Nat] /\ r[0] = m
      /\ \A k \in 1..n : r[k] = r[k - 1] \div Base
  BY <1>7 DEF Rests
<1>9. \A k \in 1..n : v[k] \div Base = v[k - 1] /\ v[k] % Base = s[k]
  <2>1. \A k \in 1..n : k - 1 \in 0..n
    BY <1>1
  <2>2. \A k \in 1..n : v[k - 1] \in Nat /\ s[k] \in Byte
    BY <1>1, <1>3, <2>1
  <2>3. \A q \in Nat : \A b \in Byte : (q * Base + b) \div Base = q /\ (q * Base + b) % Base = b
    BY DivisionFacts
  <2> TAKE k \in 1..n
  <2> DEFINE q == v[k - 1]
             b == s[k]
             a == v[k]
  <2>4. a = q * Base + b /\ q \in Nat /\ b \in Byte
    BY <1>3, <2>2
  <2> HIDE DEF q, b, a
  <2>5. a \div Base = q /\ a % Base = b
    BY <2>3, <2>4
  <2> QED
    BY <2>5 DEF q, b, a
<1>10. \A k \in 0..n : r[k] = v[n - k]
  <2> DEFINE A == {k \in 0..n : r[k] = v[n - k]}
  <2>1. 0 \in A
    BY <1>1, <1>8
  <2>2. ASSUME NEW k \in 1..n, k - 1 \in A PROVE k \in A
    <3>1. n - (k - 1) \in 1..n /\ (n - (k - 1)) - 1 = n - k /\ k \in 0..n
      BY <1>1
    <3>2. r[k - 1] = v[n - (k - 1)]
      BY <2>2
    <3>3. r[k] = r[k - 1] \div Base
      BY <1>8
    <3> QED
      BY <1>9, <3>1, <3>2, <3>3
  <2> HIDE DEF A
  <2>3. \A k \in 0..n : k \in A
    BY <1>1, <2>1, <2>2, Upward
  <2> QED
    BY <2>3 DEF A
<1>11. \A k \in 1..n : r[n - k] % Base = s[k]
  <2>1. \A k \in 1..n : n - k \in 0..n /\ n - (n - k) = k
    BY <1>1
  <2>2. \A k \in 1..n : r[n - k] = v[k]
    BY <1>10, <2>1
  <2> QED
    BY <1>9, <2>2
<1>12. Bytes(m, n) = s
  <2>1. [k \in 1..n |-> r[n - k] % Base] = [k \in 1..n |-> s[k]]
    BY <1>11
  <2> QED
    BY <1>4, <1>7, <2>1
<1> QED
  BY <1>2, <1>5, <1>6, <1>12 DEF n

------------------------------------------------------------------------------
(* Words and views.                                                        *)

LEMMA HalfFacts == Half \in Nat /\ Half >= 1 /\ Power[8] = 2 * Half
<1> DEFINE h == Base \div 2
           p == Power[7]
<1>1. h \in Nat /\ Base = 2 * h /\ h >= 1
  BY BaseFacts
<1>2. p \in Nat /\ p >= 1
  BY PowerFacts
<1>3. Power[8] = Base * p
  <2>1. 8 \in 1..8 /\ 8 - 1 = 7
    OBVIOUS
  <2> QED
    BY <2>1, PowerFacts
<1>4. Half = h * p
  BY DEF Half
<1> HIDE DEF h, p
<1>5. h * p \in Nat /\ h * p >= 1 /\ (2 * h) * p = 2 * (h * p)
  BY <1>1, <1>2
<1> QED
  BY <1>1, <1>3, <1>4, <1>5

LEMMA IntValueFacts ==
  ASSUME NEW i, NEW type
  PROVE  IntValue(i, type).i = i /\ IntValue(i, type).kind = "Int"
BY DEF IntValue

LEMMA WordOfBytes ==
  ASSUME NEW v, IsWord(v)
  PROVE  WordBytes(v) \in Seq(Byte) /\ Len(WordBytes(v)) = 8 /\ Word(WordBytes(v)) = v
<1> DEFINE i == v.i
           n == IF i < 0 THEN i + Power[8] ELSE i
<1>1. v = IntValue(i, "u64") /\ i \in (-Half)..(Half - 1)
  BY DEF IsWord
<1>2. WordBytes(v) = Bytes(n, 8)
  BY DEF WordBytes
<1> HIDE DEF i
<1>3. n \in Nat /\ n < Power[8] /\ (IF n < Half THEN n ELSE n - Power[8]) = i
  BY <1>1, HalfFacts
<1> HIDE DEF n
<1>4. 8 \in 0..8 /\ 8 \in Nat
  OBVIOUS
<1>5. BigEndian(Bytes(n, 8)) = n
  BY <1>3, <1>4, ValueOfBytes
<1>6. Bytes(n, 8) \in Seq(Byte) /\ Len(Bytes(n, 8)) = 8
  BY <1>3, <1>4, BytesType, Zenon
<1>7. AsI64(n) = i
  BY <1>3 DEF AsI64, Half
<1> QED
  BY <1>1, <1>2, <1>5, <1>6, <1>7 DEF Word

LEMMA BytesOfWord ==
  ASSUME NEW s \in Seq(Byte), Len(s) = 8
  PROVE  IsWord(Word(s)) /\ WordBytes(Word(s)) = s
<1> DEFINE n == BigEndian(s)
           i == AsI64(n)
<1>1. n \in Nat /\ n < Power[8] /\ Bytes(n, 8) = s
  <2>1. Len(s) <= 8
    OBVIOUS
  <2> QED
    BY <2>1, BytesOfValue
<1>2. Word(s) = IntValue(i, "u64") /\ Word(s).i = i
  BY IntValueFacts DEF Word
<1> HIDE DEF n
<1>3. i = IF n < Half THEN n ELSE n - Power[8]
  BY DEF AsI64, Half
<1> HIDE DEF i
<1>4. i \in (-Half)..(Half - 1) /\ (IF i < 0 THEN i + Power[8] ELSE i) = n
  BY <1>1, <1>3, HalfFacts
<1>5. IsWord(Word(s))
  BY <1>2, <1>4 DEF IsWord
<1>6. WordBytes(Word(s)) = Bytes(n, 8)
  BY <1>2, <1>4 DEF WordBytes
<1> QED
  BY <1>1, <1>5, <1>6

LEMMA SequenceValueFacts ==
  ASSUME NEW elements, NEW is_slice
  PROVE  /\ SequenceValue(elements, is_slice).elements = elements
         /\ SequenceValue(elements, is_slice).kind = "Sequence"
BY DEF SequenceValue

(* The bytes that are shown as integers are the bytes. *)
LEMMA ViewedInts ==
  ASSUME NEW s \in Seq(Byte), NEW is_slice
  PROVE  /\ Len(Ints(s)) = Len(s)
         /\ Viewed(SequenceValue(Ints(s), is_slice)) = s
<1>1. Len(s) \in Nat /\ s = [k \in 1..Len(s) |-> s[k]]
  OBVIOUS
<1>2. Len(Ints(s)) = Len(s) /\ \A k \in 1..Len(s) : Ints(s)[k] = IntValue(s[k], "u64")
  BY <1>1 DEF Ints
<1>3. \A k \in 1..Len(s) : Ints(s)[k].i = s[k]
  BY <1>2, IntValueFacts
<1>4. Viewed(SequenceValue(Ints(s), is_slice)) = [k \in 1..Len(Ints(s)) |-> Ints(s)[k].i]
  BY SequenceValueFacts DEF Viewed
<1>5. [k \in 1..Len(s) |-> Ints(s)[k].i] = [k \in 1..Len(s) |-> s[k]]
  BY <1>3
<1> QED
  BY <1>1, <1>2, <1>4, <1>5

LEMMA ViewFacts ==
  ASSUME NEW s \in Seq(Byte)
  PROVE  /\ Viewed(View(s)) = s /\ View(s).kind = "Sequence"
         /\ View(s).elements = Ints(s) /\ IsView(View(s), Len(s))
<1>1. Viewed(View(s)) = s
  BY ViewedInts DEF View
<1>2. s \in [1..Len(s) -> Byte]
  OBVIOUS
<1> QED
  BY <1>1, <1>2, SequenceValueFacts DEF View, IsView

LEMMA FunctionBytes ==
  ASSUME NEW n \in Nat, NEW s \in [1..n -> Byte]
  PROVE  s \in Seq(Byte) /\ Len(s) = n
OBVIOUS

LEMMA IsViewFacts ==
  ASSUME NEW v, NEW size \in Nat, IsView(v, size)
  PROVE  /\ Viewed(v) \in Seq(Byte) /\ Len(Viewed(v)) = size /\ View(Viewed(v)) = v
<1>1. v = View(Viewed(v)) /\ Viewed(v) \in [1..size -> Byte]
  BY DEF IsView
<1> QED
  BY <1>1, FunctionBytes

------------------------------------------------------------------------------
(* Slices.                                                                 *)

LEMMA SameBytes ==
  ASSUME NEW s \in Seq(Byte), NEW t \in Seq(Byte), Len(s) = Len(t),
         \A k \in 1..Len(s) : s[k] = t[k]
  PROVE  s = t
OBVIOUS

IsPart(s, p, a, b) ==
  s \in Seq(Byte) /\ Len(s) = b - a /\ \A k \in 1..(b - a) : s[k] = p[a + k]

LEMMA SliceFacts ==
  ASSUME NEW p \in Seq(Byte), NEW a \in Nat, NEW b \in Nat, a <= b, b <= Len(p)
  PROVE  IsPart(Slice(p, a, b), p, a, b)
<1>1. Slice(p, a, b) = [k \in 1..(b - a) |-> p[a + k]]
  <2>1. SubSeq(p, a + 1, b) = [k \in 1..(1 + b - (a + 1)) |-> p[k + (a + 1) - 1]]
    OBVIOUS
  <2>2. 1 + b - (a + 1) = b - a /\ \A k \in 1..(b - a) : k + (a + 1) - 1 = a + k
    OBVIOUS
  <2> QED
    BY <2>1, <2>2 DEF Slice
<1>2. b - a \in Nat /\ \A k \in 1..(b - a) : p[a + k] \in Byte
  <2>1. \A k \in 1..(b - a) : a + k \in 1..Len(p)
    OBVIOUS
  <2> QED
    BY <2>1, ElementFacts
<1> DEFINE s == Slice(p, a, b)
           n == b - a
<1> HIDE DEF s, n
<1>3. s = [k \in 1..n |-> p[a + k]] /\ n \in Nat /\ \A k \in 1..n : p[a + k] \in Byte
  BY <1>1, <1>2 DEF s, n
<1>4. s \in [1..n -> Byte]
  BY <1>3
<1>5. s \in Seq(Byte) /\ Len(s) = n /\ \A k \in 1..n : s[k] = p[a + k]
  BY <1>3, <1>4
<1> QED
  BY <1>5 DEF s, n, IsPart

LEMMA SliceIs ==
  ASSUME NEW p \in Seq(Byte), NEW s \in Seq(Byte), NEW a \in Nat, NEW b \in Nat,
         b = a + Len(s), b <= Len(p), \A k \in 1..Len(s) : p[a + k] = s[k]
  PROVE  Slice(p, a, b) = s
<1>1. Len(s) \in Nat /\ a <= b /\ b - a = Len(s)
  BY ElementFacts
<1>2. /\ Slice(p, a, b) \in Seq(Byte) /\ Len(Slice(p, a, b)) = Len(s)
      /\ \A k \in 1..Len(s) : Slice(p, a, b)[k] = p[a + k]
  <2>1. IsPart(Slice(p, a, b), p, a, b)
    BY <1>1, SliceFacts
  <2> QED
    BY <1>1, <2>1 DEF IsPart
<1> HIDE DEF Slice
<1>3. \A k \in 1..Len(s) : Slice(p, a, b)[k] = s[k]
  BY <1>2
<1> QED
  BY <1>2, <1>3, SameBytes

LEMMA WholeSlice ==
  ASSUME NEW p \in Seq(Byte)
  PROVE  Slice(p, 0, Len(p)) = p
<1>1. Len(p) \in Nat /\ 0 \in Nat /\ Len(p) = 0 + Len(p) /\ \A k \in 1..Len(p) : p[0 + k] = p[k]
  OBVIOUS
<1> QED
  BY <1>1, SliceIs

LEMMA JoinedBytes ==
  ASSUME NEW s \in Seq(Byte), NEW t \in Seq(Byte)
  PROVE  /\ s \o t \in Seq(Byte) /\ Len(s \o t) = Len(s) + Len(t)
         /\ Len(s) \in Nat /\ Len(t) \in Nat
         /\ \A k \in 1..Len(s) : (s \o t)[k] = s[k]
         /\ \A k \in 1..Len(t) : (s \o t)[Len(s) + k] = t[k]
OBVIOUS

(* The two parts of a payload. *)
LEMMA SlicesOfJoined ==
  ASSUME NEW s \in Seq(Byte), NEW t \in Seq(Byte)
  PROVE  /\ Slice(s \o t, 0, Len(s)) = s
         /\ Slice(s \o t, Len(s), Len(s) + Len(t)) = t
<1> DEFINE p == s \o t
           m == Len(s)
           n == Len(t)
<1>1. /\ p \in Seq(Byte) /\ Len(p) = m + n /\ m \in Nat /\ n \in Nat
      /\ \A k \in 1..m : p[k] = s[k]
      /\ \A k \in 1..n : p[m + k] = t[k]
  BY JoinedBytes
<1> HIDE DEF p
<1>2. Slice(p, 0, m) = s
  <2>1. 0 \in Nat /\ m = 0 + m /\ m <= Len(p) /\ \A k \in 1..m : 0 + k = k
    BY <1>1
  <2>2. \A k \in 1..Len(s) : p[0 + k] = s[k]
    BY <1>1, <2>1
  <2> QED
    BY <1>1, <2>1, <2>2, SliceIs
<1>3. Slice(p, m, m + n) = t
  <2>1. m + n \in Nat /\ m + n <= Len(p)
    BY <1>1
  <2> QED
    BY <1>1, <2>1, SliceIs
<1> QED
  BY <1>2, <1>3 DEF p

(* A slice of the first bytes is a slice. *)
LEMMA SliceOfSlice ==
  ASSUME NEW s \in Seq(Byte), NEW t \in Seq(Byte), NEW a \in Nat, NEW b \in Nat,
         a <= b, b <= Len(s)
  PROVE  Slice(s \o t, a, b) = Slice(s, a, b)
<1> DEFINE p == s \o t
           u == Slice(s, a, b)
<1>1. /\ p \in Seq(Byte) /\ Len(p) = Len(s) + Len(t) /\ Len(s) \in Nat /\ Len(t) \in Nat
      /\ \A k \in 1..Len(s) : p[k] = s[k]
  BY JoinedBytes
<1>2. u \in Seq(Byte) /\ Len(u) = b - a /\ \A k \in 1..(b - a) : u[k] = s[a + k]
  <2>1. IsPart(u, s, a, b)
    BY SliceFacts
  <2> QED
    BY <2>1 DEF IsPart
<1> HIDE DEF p, u
<1>3. b = a + Len(u) /\ b <= Len(p) /\ \A k \in 1..Len(u) : a + k \in 1..Len(s)
  BY <1>1, <1>2
<1>4. \A k \in 1..Len(u) : p[a + k] = u[k]
  BY <1>1, <1>2, <1>3
<1>5. Slice(p, a, b) = u
  BY <1>1, <1>2, <1>3, <1>4, SliceIs
<1> QED
  BY <1>5 DEF p, u

Parts(p, s, t, u, m, n, l) ==
  /\ p \in Seq(Byte) /\ Len(p) = (m + n) + l
  /\ Slice(p, 0, m) = s /\ Slice(p, m, m + n) = t
  /\ Slice(p, m + n, (m + n) + l) = u
  /\ \A k \in 1..l : p[(m + n) + k] = u[k]

LEMMA ThreeParts ==
  ASSUME NEW s \in Seq(Byte), NEW t \in Seq(Byte), NEW u \in Seq(Byte),
         NEW m \in Nat, NEW n \in Nat, NEW l \in Nat, Len(s) = m, Len(t) = n, Len(u) = l
  PROVE  Parts((s \o t) \o u, s, t, u, m, n, l)
<1> DEFINE st == s \o t
           p == st \o u
<1>1. st \in Seq(Byte) /\ Len(st) = m + n /\ Slice(st, 0, m) = s /\ Slice(st, m, m + n) = t
  BY JoinedBytes, SlicesOfJoined
<1> HIDE DEF st
<1>2. /\ p \in Seq(Byte) /\ Len(p) = (m + n) + l
      /\ \A k \in 1..l : p[(m + n) + k] = u[k]
  <2>1. /\ p \in Seq(Byte) /\ Len(p) = Len(st) + Len(u)
        /\ \A k \in 1..Len(u) : p[Len(st) + k] = u[k]
    BY <1>1, JoinedBytes
  <2> HIDE DEF p
  <2> QED
    BY <1>1, <2>1
<1>3. Slice(p, m + n, (m + n) + l) = u
  <2>1. Slice(p, Len(st), Len(st) + Len(u)) = u
    BY <1>1, SlicesOfJoined
  <2> HIDE DEF p
  <2> QED
    BY <1>1, <2>1
<1>4. 0 \in Nat /\ 0 <= m /\ m <= m + n /\ m + n \in Nat
  OBVIOUS
<1>5. Slice(p, 0, m) = Slice(st, 0, m) /\ Slice(p, m, m + n) = Slice(st, m, m + n)
  <2>1. m <= Len(st) /\ m + n <= Len(st)
    BY <1>1, <1>4
  <2> QED
    BY <1>1, <1>4, <2>1, SliceOfSlice
<1> HIDE DEF p
<1>6. Parts(p, s, t, u, m, n, l)
  BY <1>1, <1>2, <1>3, <1>5 DEF Parts
<1> QED
  BY <1>6 DEF p, st

(* Two slices that meet make one. *)
LEMMA JoinedSlices ==
  ASSUME NEW p \in Seq(Byte), NEW a \in Nat, NEW b \in Nat, NEW c \in Nat,
         a <= b, b <= c, c <= Len(p)
  PROVE  Slice(p, a, b) \o Slice(p, b, c) = Slice(p, a, c)
<1> DEFINE s == Slice(p, a, b)
           t == Slice(p, b, c)
           u == s \o t
<1>1. s \in Seq(Byte) /\ Len(s) = b - a /\ \A k \in 1..(b - a) : s[k] = p[a + k]
  <2>1. Len(p) \in Nat /\ b <= Len(p)
    OBVIOUS
  <2>2. IsPart(s, p, a, b)
    BY <2>1, SliceFacts
  <2> QED
    BY <2>2 DEF IsPart
<1>2. t \in Seq(Byte) /\ Len(t) = c - b /\ \A k \in 1..(c - b) : t[k] = p[b + k]
  <2>1. IsPart(t, p, b, c)
    BY SliceFacts
  <2> QED
    BY <2>1 DEF IsPart
<1> HIDE DEF s, t
<1>3. /\ u \in Seq(Byte) /\ Len(u) = Len(s) + Len(t)
      /\ \A k \in 1..Len(s) : u[k] = s[k]
      /\ \A k \in 1..Len(t) : u[Len(s) + k] = t[k]
  BY <1>1, <1>2, JoinedBytes
<1> HIDE DEF u
<1>4. Len(u) = c - a /\ c = a + Len(u)
  BY <1>1, <1>2, <1>3
<1>5. ASSUME NEW k \in 1..Len(u) PROVE p[a + k] = u[k]
  <2>1. CASE k <= b - a
    <3>1. k \in 1..(b - a)
      BY <2>1
    <3> QED
      BY <1>1, <1>3, <3>1
  <2>2. CASE ~(k <= b - a)
    <3> DEFINE j == k - (b - a)
    <3>1. j \in 1..(c - b) /\ b + j = a + k /\ (b - a) + j = k
      BY <1>4, <2>2
    <3> HIDE DEF j
    <3>2. t[j] = p[a + k]
      BY <1>2, <3>1
    <3>3. u[Len(s) + j] = t[j] /\ Len(s) + j = k
      BY <1>1, <1>2, <1>3, <3>1
    <3> QED
      BY <3>2, <3>3
  <2> QED
    BY <2>1, <2>2
<1>6. Slice(p, a, c) = u
  BY <1>3, <1>4, <1>5, SliceIs
<1> QED
  BY <1>6 DEF u, s, t

LEMMA FirstByte ==
  ASSUME NEW p \in Seq(Byte), p # <<>>
  PROVE  Len(p) >= 1 /\ Slice(p, 0, 1) = <<p[1]>> /\ p[1] \in Byte
<1>1. Len(p) \in Nat /\ Len(p) >= 1 /\ p[1] \in Byte
  OBVIOUS
<1> DEFINE s == <<p[1]>>
<1>2. s \in Seq(Byte) /\ Len(s) = 1 /\ s[1] = p[1]
  BY <1>1
<1> HIDE DEF s
<1>3. \A k \in 1..Len(s) : p[0 + k] = s[k]
  BY <1>2
<1>4. 0 \in Nat /\ 1 \in Nat /\ 1 = 0 + Len(s)
  BY <1>2
<1>5. Slice(p, 0, 1) = s
  BY <1>1, <1>2, <1>3, <1>4, SliceIs
<1> QED
  BY <1>1, <1>5 DEF s

------------------------------------------------------------------------------
(* Runs of words.                                                          *)

WordAt(n) == ((n - 1) \div 8) + 1
ByteAt(n) == ((n - 1) % 8) + 1

LEMMA Positions ==
  ASSUME NEW m \in Nat
  PROVE  /\ 8 * m \in Nat
         /\ \A n \in 1..(8 * m) : /\ WordAt(n) \in 1..m /\ ByteAt(n) \in 1..8
                                  /\ 8 * (WordAt(n) - 1) + ByteAt(n) = n
         /\ \A j \in 1..m : \A k \in 1..8 :
              /\ 8 * (j - 1) + k \in 1..(8 * m)
              /\ WordAt(8 * (j - 1) + k) = j /\ ByteAt(8 * (j - 1) + k) = k
         /\ \A j \in 1..m : 8 * (j - 1) \in Nat /\ 8 * j \in Nat /\ 8 * j <= 8 * m
                            /\ 8 * (j - 1) <= 8 * j /\ 8 * j - 8 * (j - 1) = 8
<1>1. 8 * m \in Nat
  OBVIOUS
<1>2. ASSUME NEW n \in 1..(8 * m)
      PROVE  /\ WordAt(n) \in 1..m /\ ByteAt(n) \in 1..8
             /\ 8 * (WordAt(n) - 1) + ByteAt(n) = n
  <2>1. n \in Nat /\ n >= 1 /\ n <= 8 * m
    OBVIOUS
  <2> DEFINE a == n - 1
             q == a \div 8
             r == a % 8
  <2>2. a \in Nat /\ a < 8 * m
    BY <2>1
  <2> HIDE DEF a
  <2>3. a = 8 * q + r /\ r \in 0..7 /\ q \in Nat
    BY <2>2
  <2>4. n = a + 1 /\ WordAt(n) = q + 1 /\ ByteAt(n) = r + 1
    BY <2>1 DEF a, WordAt, ByteAt
  <2> HIDE DEF q, r
  <2> QED
    BY <2>2, <2>3, <2>4
<1>3. ASSUME NEW j \in 1..m, NEW k \in 1..8
      PROVE  /\ 8 * (j - 1) + k \in 1..(8 * m)
             /\ WordAt(8 * (j - 1) + k) = j /\ ByteAt(8 * (j - 1) + k) = k
  <2> DEFINE n == 8 * (j - 1) + k
  <2>1. n \in 1..(8 * m) /\ n - 1 = 8 * (j - 1) + (k - 1)
    OBVIOUS
  <2>2. (8 * (j - 1) + (k - 1)) \div 8 = j - 1 /\ (8 * (j - 1) + (k - 1)) % 8 = k - 1
    OBVIOUS
  <2> HIDE DEF n
  <2>3. WordAt(n) = (j - 1) + 1 /\ ByteAt(n) = (k - 1) + 1
    BY <2>1, <2>2 DEF WordAt, ByteAt
  <2> QED
    BY <2>1, <2>3 DEF n
<1>4. \A j \in 1..m : 8 * (j - 1) \in Nat /\ 8 * j \in Nat /\ 8 * j <= 8 * m
                      /\ 8 * (j - 1) <= 8 * j /\ 8 * j - 8 * (j - 1) = 8
  OBVIOUS
<1> QED
  BY <1>1, <1>2, <1>3, <1>4

LEMMA ConcatenatedFacts ==
  ASSUME NEW ws, NEW m \in Nat, Len(ws) = m,
         \A n \in 1..m : WordBytes(ws[n]) \in Seq(Byte) /\ Len(WordBytes(ws[n])) = 8
  PROVE  /\ Concatenated(ws) \in Seq(Byte) /\ Len(Concatenated(ws)) = 8 * m
         /\ \A n \in 1..(8 * m) : Concatenated(ws)[n] = WordBytes(ws[WordAt(n)])[ByteAt(n)]
<1> DEFINE c == Concatenated(ws)
           size == 8 * m
<1>1. size \in Nat /\ \A n \in 1..size : WordAt(n) \in 1..m /\ ByteAt(n) \in 1..8
  BY Positions
<1>2. c = [n \in 1..size |-> WordBytes(ws[WordAt(n)])[ByteAt(n)]]
  BY DEF Concatenated, WordAt, ByteAt
<1>3. \A n \in 1..m : \A k \in 1..8 : WordBytes(ws[n])[k] \in Byte
  BY ElementFacts
<1>4. \A n \in 1..size : WordBytes(ws[WordAt(n)])[ByteAt(n)] \in Byte
  BY <1>1, <1>3
<1> HIDE DEF c, size
<1>5. c \in [1..size -> Byte] /\ \A n \in 1..size : c[n] = WordBytes(ws[WordAt(n)])[ByteAt(n)]
  BY <1>2, <1>4
<1>6. c \in Seq(Byte) /\ Len(c) = size
  BY <1>1, <1>5
<1> QED
  BY <1>5, <1>6 DEF c, size

LEMMA WordsOfConcatenated ==
  ASSUME NEW ws, NEW m \in Nat, AreWords(ws, m)
  PROVE  /\ Concatenated(ws) \in Seq(Byte) /\ Len(Concatenated(ws)) = 8 * m
         /\ Words(Concatenated(ws)) = ws
<1>1. ws = [n \in 1..m |-> ws[n]] /\ \A n \in 1..m : IsWord(ws[n])
  BY DEF AreWords
<1>2. Len(ws) = m
  BY <1>1
<1>3. \A n \in 1..m : /\ WordBytes(ws[n]) \in Seq(Byte) /\ Len(WordBytes(ws[n])) = 8
                      /\ Word(WordBytes(ws[n])) = ws[n]
  BY <1>1, WordOfBytes
<1> DEFINE c == Concatenated(ws)
<1>4. /\ c \in Seq(Byte) /\ Len(c) = 8 * m
      /\ \A n \in 1..(8 * m) : c[n] = WordBytes(ws[WordAt(n)])[ByteAt(n)]
  BY <1>2, <1>3, ConcatenatedFacts
<1> HIDE DEF c
<1>5. ASSUME NEW j \in 1..m PROVE Word(Slice(c, 8 * (j - 1), 8 * j)) = ws[j]
  <2> DEFINE s == WordBytes(ws[j])
             a == 8 * (j - 1)
             b == 8 * j
  <2>1. s \in Seq(Byte) /\ Len(s) = 8 /\ Word(s) = ws[j]
    BY <1>3
  <2>2. a \in Nat /\ b \in Nat /\ b <= 8 * m /\ b = a + 8
    BY Positions
  <2>3. \A k \in 1..8 : c[a + k] = s[k]
    <3>1. \A k \in 1..8 : a + k \in 1..(8 * m) /\ WordAt(a + k) = j /\ ByteAt(a + k) = k
      BY Positions
    <3> HIDE DEF a
    <3> QED
      BY <1>4, <3>1
  <2> HIDE DEF s, a, b
  <2>4. b <= Len(c) /\ b = a + Len(s) /\ \A k \in 1..Len(s) : c[a + k] = s[k]
    BY <1>4, <2>1, <2>2, <2>3
  <2>5. Slice(c, a, b) = s
    BY <1>4, <2>1, <2>2, <2>4, SliceIs
  <2> QED
    BY <2>1, <2>5 DEF a, b
<1>6. Len(c) \div 8 = m
  BY <1>4
<1>7. Words(c) = [j \in 1..m |-> Word(Slice(c, 8 * (j - 1), 8 * j))]
  BY <1>6 DEF Words
<1>8. Words(c) = [j \in 1..m |-> ws[j]]
  BY <1>5, <1>7
<1> QED
  BY <1>1, <1>4, <1>8 DEF c

LEMMA ConcatenatedOfWords ==
  ASSUME NEW p \in Seq(Byte), Len(p) % 8 = 0
  PROVE  Concatenated(Words(p)) = p
<1> DEFINE m == Len(p) \div 8
           ws == Words(p)
<1>1. m \in Nat /\ Len(p) = 8 * m
  OBVIOUS
<1>2. ws = [j \in 1..m |-> Word(Slice(p, 8 * (j - 1), 8 * j))]
  BY DEF Words
<1> HIDE DEF m, ws
<1>3. Len(ws) = m
  BY <1>1, <1>2
<1>4. ASSUME NEW j \in 1..m
      PROVE  /\ WordBytes(ws[j]) \in Seq(Byte) /\ Len(WordBytes(ws[j])) = 8
             /\ \A k \in 1..8 : WordBytes(ws[j])[k] = p[8 * (j - 1) + k]
  <2> DEFINE a == 8 * (j - 1)
             b == 8 * j
             s == Slice(p, a, b)
  <2>1. a \in Nat /\ b \in Nat /\ a <= b /\ b <= Len(p) /\ b - a = 8
    BY <1>1, Positions
  <2>2. ws[j] = Word(s)
    BY <1>2
  <2> HIDE DEF a, b
  <2>3. IsPart(s, p, a, b)
    BY <2>1, SliceFacts
  <2>4. s \in Seq(Byte) /\ Len(s) = 8 /\ \A k \in 1..8 : s[k] = p[a + k]
    BY <2>1, <2>3 DEF IsPart
  <2> HIDE DEF s
  <2>5. WordBytes(ws[j]) = s
    BY <2>2, <2>4, BytesOfWord
  <2> QED
    BY <2>4, <2>5 DEF a
<1> DEFINE c == Concatenated(ws)
<1>5. /\ c \in Seq(Byte) /\ Len(c) = 8 * m
      /\ \A n \in 1..(8 * m) : c[n] = WordBytes(ws[WordAt(n)])[ByteAt(n)]
  BY <1>1, <1>3, <1>4, ConcatenatedFacts
<1> HIDE DEF c
<1>6. ASSUME NEW n \in 1..(8 * m) PROVE c[n] = p[n]
  <2> DEFINE j == WordAt(n)
             k == ByteAt(n)
  <2>1. j \in 1..m /\ k \in 1..8 /\ 8 * (j - 1) + k = n
    BY <1>1, Positions
  <2>2. c[n] = WordBytes(ws[j])[k]
    BY <1>5
  <2> HIDE DEF j, k
  <2>3. WordBytes(ws[j])[k] = p[8 * (j - 1) + k]
    BY <1>4, <2>1
  <2> QED
    BY <2>1, <2>2, <2>3
<1> QED
  BY <1>1, <1>5, <1>6, SameBytes DEF c, ws

------------------------------------------------------------------------------
(* The decoder and the wire form of each type.                             *)

PairName == "(u64, b256, bool)"
OutcomeName == "enum Outcome"
OptionName == "enum Option<u64>"
ResultName == "enum Result<u64, str>"
ArrayName == "[u64; 4]"
WidthsName == "(u8, u16, u32, u64)"
MatchName == "enum Match"
ByteStringName == "Bytes"
IdentityName == "enum Identity"
HashName == "b256"
PayloadName == "configurable_payload"
Ids == {"Address", "ContractId", "AssetId"}
Tagged == {OutcomeName, OptionName, ResultName, MatchName, IdentityName}
Others == {PairName, WidthsName, ArrayName, PayloadName, ByteStringName, HashName}

LEMMA DecoderCases ==
  ASSUME NEW p
  PROVE  /\ DecodedValue(PairName, p)
              = When(Len(p) = 41, Shown("tuple_decoded", TupleDecoded(p)))
         /\ DecodedValue(OutcomeName, p) = Shown("outcome_variant", OutcomeVariant(p))
         /\ DecodedValue(OptionName, p) = Shown("option_decoded", OptionDecoded(p))
         /\ DecodedValue(ResultName, p) = Shown("result_decoded", ResultDecoded(p))
         /\ DecodedValue(ArrayName, p)
              = When(Len(p) = 32, Shown("array_fixed", SequenceValue(Words(p), TRUE)))
         /\ DecodedValue(WidthsName, p)
              = When(Len(p) = 15, Shown("integer_widths_decoded", WidthsDecoded(p)))
         /\ DecodedValue(MatchName, p) = Shown("match_arm_variant", MatchArmVariant(p))
         /\ DecodedValue(ByteStringName, p) = Shown("bytes_decoded", View(p))
         /\ DecodedValue(IdentityName, p)
              = When(Len(p) >= 33, Shown("identity_variant", IdentityVariant(p)))
         /\ \A type \in Ids :
              DecodedValue(type, p)
                = When(Len(p) >= 32, Shown("address_decoded", View(Slice(p, 0, 32))))
         /\ DecodedValue(HashName, p)
              = When(Len(p) = 32, Shown("b256_decoded", SequenceValue(Ints(p), FALSE)))
         /\ DecodedValue(PayloadName, p)
              = When(Len(p) % 8 = 0, Shown("configurable_decoded", TupleValue(Words(p))))
         /\ \A type : type \notin Ids \union Tagged \union Others => DecodedValue(type, p) = <<>>
BY DEF DecodedValue, Ids, Tagged, Others,
       PairName, OutcomeName, OptionName, ResultName, ArrayName, WidthsName,
       MatchName, ByteStringName, IdentityName, HashName, PayloadName

LEMMA WireCases ==
  ASSUME NEW v
  PROVE  /\ Encoded(PairName, v)
              = WordBytes(v.elements[1]) \o Viewed(v.elements[2])
                  \o <<IF v.elements[3].b THEN 1 ELSE 0>>
         /\ Encoded(WidthsName, v)
              = Bytes(v.elements[1].i, 1) \o Bytes(v.elements[2].i, 2)
                  \o Bytes(v.elements[3].i, 4) \o WordBytes(v.elements[4])
         /\ Encoded(ArrayName, v) = Concatenated(v.elements)
         /\ Encoded(PayloadName, v) = Concatenated(v.elements)
         /\ Encoded(ByteStringName, v) = Viewed(v) /\ Encoded(HashName, v) = Viewed(v)
         /\ \A type \in Ids : Encoded(type, v) = Viewed(v)
         /\ \A type \in Tagged : Encoded(type, v) = <<Tag[v.discriminator]>> \o Contents(v.contents)
BY DEF Encoded, Ids, Tagged, PairName, OutcomeName, OptionName, ResultName,
       ArrayName, WidthsName, MatchName, ByteStringName, IdentityName, HashName, PayloadName

(* A value that is logged is shown; one that is shown was logged. *)
Decodes(type, v) ==
  /\ Encoded(type, v) \in Seq(Byte)
  /\ \E name : DecodedValue(type, Encoded(type, v)) = Shown(name, v)

Wire(w, p) ==
  /\ Len(w) <= Len(p)
  /\ \A k \in 1..Len(w) : w[k] = p[k] \/ (k = 41 /\ w[k] = 1 /\ p[k] # 0)

Faithful(type, p) ==
  \A n \in 1..Len(DecodedValue(type, p)) :
    LET v == DecodedValue(type, p)[n].value
    IN  Undecoded(v) \/ Wire(Encoded(type, v), p)

LEMMA ShownFacts ==
  ASSUME NEW name, NEW v
  PROVE  /\ Len(Shown(name, v)) = 1 /\ Shown(name, v)[1].value = v /\ Shown(name, v) # <<>>
         /\ \A c : When(c, Shown(name, v)) \in {<<>>, Shown(name, v)}
         /\ When(TRUE, Shown(name, v)) = Shown(name, v)
BY DEF Shown, When

LEMMA FaithfulIf ==
  ASSUME NEW type, NEW p, NEW name, NEW v,
         \/ DecodedValue(type, p) = <<>>
         \/ /\ DecodedValue(type, p) = Shown(name, v)
            /\ Undecoded(v) \/ Wire(Encoded(type, v), p)
  PROVE  Faithful(type, p)
<1> DEFINE d == DecodedValue(type, p)
<1>1. CASE d = <<>>
  <2>1. Len(d) = 0
    BY <1>1
  <2> HIDE DEF d
  <2>2. \A n \in 1..Len(d) : FALSE
    BY <2>1
  <2> QED
    BY <2>2 DEF Faithful, d
<1>2. CASE /\ d = Shown(name, v)
           /\ Undecoded(v) \/ Wire(Encoded(type, v), p)
  <2>1. Len(d) = 1 /\ d[1].value = v
    BY <1>2, ShownFacts
  <2>2. Undecoded(d[1].value) \/ Wire(Encoded(type, d[1].value), p)
    BY <1>2, <2>1
  <2> HIDE DEF d
  <2>3. \A n \in 1..Len(d) : n = 1
    BY <2>1
  <2>4. \A n \in 1..Len(d) : Undecoded(d[n].value) \/ Wire(Encoded(type, d[n].value), p)
    BY <2>2, <2>3, Zenon
  <2> QED
    BY <2>4 DEF Faithful, d
<1> QED
  BY <1>1, <1>2

LEMMA WireOfSlice ==
  ASSUME NEW p \in Seq(Byte), NEW n \in Nat, n <= Len(p)
  PROVE  Wire(Slice(p, 0, n), p)
<1> DEFINE s == Slice(p, 0, n)
<1>1. 0 \in Nat /\ 0 <= n
  OBVIOUS
<1>2. IsPart(s, p, 0, n)
  BY <1>1, SliceFacts
<1> HIDE DEF s
<1>3. Len(s) = n /\ \A k \in 1..n : s[k] = p[k]
  <2>1. n - 0 = n /\ \A k \in 1..n : 0 + k = k
    OBVIOUS
  <2> QED
    BY <1>2, <2>1 DEF IsPart
<1> QED
  BY <1>3 DEF Wire, s

LEMMA WireOfAll ==
  ASSUME NEW p \in Seq(Byte)
  PROVE  Wire(p, p)
<1>1. Len(p) \in Nat /\ Len(p) <= Len(p)
  OBVIOUS
<1> QED
  BY <1>1 DEF Wire

LEMMA ValueFacts ==
  ASSUME NEW e, NEW b, NEW name
  PROVE  /\ TupleValue(e).elements = e /\ TupleValue(e).kind = "Tuple"
         /\ BoolValue(b).b = b
         /\ VariantValue(name, e).discriminator = name /\ VariantValue(name, e).contents = e
         /\ VariantValue(name, e).kind = "Variant"
BY DEF TupleValue, BoolValue, VariantValue

LEMMA PairDecodes ==
  ASSUME NEW v, Meant(PairName, v)
  PROVE  Decodes(PairName, v)
<1> DEFINE a == v.elements[1]
           b == v.elements[2]
           c == v.elements[3].b
           s == WordBytes(a)
           t == Viewed(b)
           u == <<IF c THEN 1 ELSE 0>>
           p == (s \o t) \o u
<1>1. v = TupleValue(<<a, b, BoolValue(c)>>) /\ IsWord(a) /\ IsView(b, 32) /\ c \in BOOLEAN
  BY DEF Meant, PairName
<1>2. Encoded(PairName, v) = p
  BY WireCases
<1> HIDE DEF a, b, c, p
<1>3. s \in Seq(Byte) /\ Len(s) = 8 /\ Word(s) = a
  BY <1>1, WordOfBytes
<1>4. t \in Seq(Byte) /\ Len(t) = 32 /\ View(t) = b
  <2>1. 32 \in Nat
    OBVIOUS
  <2> QED
    BY <1>1, <2>1, IsViewFacts
<1>5. u \in Seq(Byte) /\ Len(u) = 1 /\ u[1] = IF c THEN 1 ELSE 0
  <2> HIDE DEF s, t
  <2>1. (IF c THEN 1 ELSE 0) \in Byte
    BY BaseFacts
  <2> QED
    BY <2>1
<1> HIDE DEF s, t, u
<1>6. /\ p \in Seq(Byte) /\ Len(p) = 41
      /\ Slice(p, 0, 8) = s /\ Slice(p, 8, 40) = t /\ p[41] = u[1]
  <2>1. 8 \in Nat /\ 32 \in Nat /\ 1 \in Nat /\ 8 + 32 = 40 /\ 40 + 1 = 41 /\ 1 \in 1..1
    OBVIOUS
  <2>2. Parts(p, s, t, u, 8, 32, 1)
    BY <1>3, <1>4, <1>5, <2>1, ThreeParts DEF p
  <2> QED
    BY <2>1, <2>2 DEF Parts
<1>7. (p[41] # 0) = c
  BY <1>1, <1>5, <1>6
<1>8. TupleDecoded(p) = v
  BY <1>1, <1>3, <1>4, <1>6, <1>7 DEF TupleDecoded
<1>9. DecodedValue(PairName, p) = Shown("tuple_decoded", v)
  BY <1>6, <1>8, DecoderCases DEF When
<1> QED
  BY <1>2, <1>6, <1>9 DEF Decodes

(* A tag and what follows it. *)
LEMMA TagFacts ==
  /\ Tag["Success"] = 0 /\ Tag["Failure"] = 1 /\ Tag["Skipped"] = 2
  /\ Tag["None"] = 0 /\ Tag["Some"] = 1 /\ Tag["Ok"] = 0 /\ Tag["Err"] = 1
  /\ Tag["Add"] = 0 /\ Tag["Sub"] = 1 /\ Tag["Mul"] = 2 /\ Tag["Noop"] = 3
  /\ Tag["Address"] = 0 /\ Tag["ContractId"] = 1
BY DEF Tag

Tagging(p, tag, t) ==
  /\ p \in Seq(Byte) /\ Len(p) = 1 + Len(t) /\ p[1] = tag
  /\ Slice(p, 1, 1 + Len(t)) = t

LEMMA TaggedBytes ==
  ASSUME NEW tag \in Byte, NEW t \in Seq(Byte)
  PROVE  Tagging(<<tag>> \o t, tag, t)
<1> DEFINE s == <<tag>>
           p == s \o t
<1>1. s \in Seq(Byte) /\ Len(s) = 1 /\ s[1] = tag
  OBVIOUS
<1> HIDE DEF s
<1>2. /\ p \in Seq(Byte) /\ Len(p) = Len(s) + Len(t)
      /\ \A k \in 1..Len(s) : p[k] = s[k]
  BY <1>1, JoinedBytes
<1>3. Slice(p, Len(s), Len(s) + Len(t)) = t
  BY <1>1, SlicesOfJoined
<1> HIDE DEF p
<1>4. Tagging(p, tag, t)
  BY <1>1, <1>2, <1>3 DEF Tagging
<1> QED
  BY <1>4 DEF p, s

LEMMA ContentsFacts ==
  ASSUME NEW c
  PROVE  /\ IsWord(c) => Contents(c) = WordBytes(c)
         /\ \A size : IsView(c, size) => Contents(c) = Viewed(c)
         /\ Contents(Unit) = <<>>
<1>1. IsWord(c) => c.kind = "Int"
  BY IntValueFacts DEF IsWord
<1>2. \A size : IsView(c, size) => c.kind = "Sequence"
  <2>1. \A s : View(s).kind = "Sequence"
    BY SequenceValueFacts DEF View
  <2>2. \A size : IsView(c, size) => c = View(Viewed(c))
    BY DEF IsView
  <2> QED
    BY <2>1, <2>2, Zenon
<1>3. Unit.kind = "Tuple"
  BY ValueFacts DEF Unit
<1>4. /\ c.kind = "Int" => Contents(c) = WordBytes(c)
      /\ c.kind = "Sequence" => Contents(c) = Viewed(c)
      /\ Unit.kind = "Tuple" => Contents(Unit) = <<>>
  BY DEF Contents
<1>5. \A size : IsView(c, size) => Contents(c) = Viewed(c)
  BY <1>2, <1>4
<1>6. IsWord(c) => Contents(c) = WordBytes(c)
  BY <1>1, <1>4
<1> QED
  BY <1>3, <1>4, <1>5, <1>6

LEMMA VariantWire ==
  ASSUME NEW type \in Tagged, NEW v, NEW name, IsVariant(v, name),
         Tag[name] \in Byte, Contents(v.contents) \in Seq(Byte)
  PROVE  Tagging(Encoded(type, v), Tag[name], Contents(v.contents))
<1>1. v.discriminator = name
  BY ValueFacts DEF IsVariant
<1>2. Encoded(type, v) = <<Tag[v.discriminator]>> \o Contents(v.contents)
  BY WireCases
<1> QED
  BY <1>1, <1>2, TaggedBytes

LEMMA WordVariant ==
  ASSUME NEW type \in Tagged, NEW v, NEW name, IsVariant(v, name), IsWord(v.contents),
         NEW tag \in Byte, Tag[name] = tag, NEW p, p = Encoded(type, v)
  PROVE  /\ p \in Seq(Byte) /\ HasWord(p) /\ p[1] = tag
         /\ VariantValue(name, WordOf(p)) = v
<1> DEFINE t == WordBytes(v.contents)
<1>1. t \in Seq(Byte) /\ Len(t) = 8 /\ Word(t) = v.contents
  BY WordOfBytes
<1>2. Contents(v.contents) = t
  BY ContentsFacts
<1> HIDE DEF t
<1>3. Tagging(p, tag, t)
  BY <1>1, <1>2, VariantWire
<1>4. /\ p \in Seq(Byte) /\ Len(p) = 9 /\ p[1] = tag
      /\ Slice(p, 1, 9) = t
  <2>1. 1 + Len(t) = 9
    BY <1>1
  <2> QED
    BY <1>3, <2>1 DEF Tagging
<1>5. WordOf(p) = v.contents /\ HasWord(p)
  BY <1>1, <1>4 DEF WordOf, HasWord
<1> QED
  BY <1>4, <1>5 DEF IsVariant

Tailed(p, tag, size, name, v) ==
  /\ p \in Seq(Byte) /\ Len(p) = 1 + size /\ p[1] = tag
  /\ VariantValue(name, View(Slice(p, 1, 1 + size))) = v

LEMMA ViewVariant ==
  ASSUME NEW type \in Tagged, NEW v, NEW name, NEW size \in Nat,
         IsVariant(v, name), IsView(v.contents, size),
         NEW tag \in Byte, Tag[name] = tag, NEW p, p = Encoded(type, v)
  PROVE  Tailed(p, tag, size, name, v)
<1> DEFINE t == Viewed(v.contents)
<1>1. t \in Seq(Byte) /\ Len(t) = size /\ View(t) = v.contents
  BY IsViewFacts
<1>2. Contents(v.contents) = t
  BY ContentsFacts
<1> HIDE DEF t
<1>3. Tagging(p, tag, t)
  BY <1>1, <1>2, VariantWire
<1>4. /\ p \in Seq(Byte) /\ Len(p) = 1 + size /\ p[1] = tag
      /\ Slice(p, 1, 1 + size) = t
  BY <1>1, <1>3 DEF Tagging
<1>5. View(Slice(p, 1, 1 + size)) = v.contents
  BY <1>1, <1>4
<1> QED
  BY <1>4, <1>5 DEF IsVariant, Tailed

LEMMA UnitVariant ==
  ASSUME NEW type \in Tagged, NEW v, NEW name, v = VariantValue(name, Unit),
         NEW tag \in Byte, Tag[name] = tag, NEW p, p = Encoded(type, v)
  PROVE  p \in Seq(Byte) /\ p[1] = tag
<1>1. IsVariant(v, name) /\ v.contents = Unit
  BY ValueFacts DEF IsVariant
<1>2. Contents(v.contents) = <<>> /\ <<>> \in Seq(Byte)
  BY <1>1, ContentsFacts
<1>3. Tagging(p, tag, <<>>)
  BY <1>1, <1>2, VariantWire
<1> QED
  BY <1>3 DEF Tagging

LEMMA OutcomeDecodes ==
  ASSUME NEW v, Meant(OutcomeName, v)
  PROVE  Decodes(OutcomeName, v)
<1> DEFINE p == Encoded(OutcomeName, v)
<1> SUFFICES p \in Seq(Byte) /\ OutcomeVariant(p) = v
  BY DecoderCases, ZenonT(60) DEF Decodes
<1>1. \/ IsVariant(v, "Success") /\ IsWord(v.contents)
      \/ IsVariant(v, "Failure") /\ IsView(v.contents, 8)
      \/ v = VariantValue("Skipped", Unit)
  BY DEF Meant, OutcomeName
<1>2. OutcomeName \in Tagged /\ 0 \in Byte /\ 1 \in Byte /\ 2 \in Byte
  BY BaseFacts DEF Tagged
<1> HIDE DEF p
<1>3. CASE IsVariant(v, "Success") /\ IsWord(v.contents)
  <2>1. p \in Seq(Byte) /\ HasWord(p) /\ p[1] = 0 /\ VariantValue("Success", WordOf(p)) = v
    BY <1>2, <1>3, TagFacts, WordVariant DEF p
  <2> QED
    BY <2>1 DEF OutcomeVariant
<1>4. CASE IsVariant(v, "Failure") /\ IsView(v.contents, 8)
  <2>1. /\ p \in Seq(Byte) /\ Len(p) = 1 + 8 /\ p[1] = 1
        /\ VariantValue("Failure", View(Slice(p, 1, 1 + 8))) = v
    <3>1. 8 \in Nat
      OBVIOUS
    <3>2. Tailed(p, 1, 8, "Failure", v)
      BY <1>2, <1>4, <3>1, TagFacts, ViewVariant DEF p
    <3> QED
      BY <3>2 DEF Tailed
  <2>2. HasWord(p) /\ 1 + 8 = 9
    BY <2>1 DEF HasWord
  <2> QED
    BY <2>1, <2>2 DEF OutcomeVariant
<1>5. CASE v = VariantValue("Skipped", Unit)
  <2>1. p \in Seq(Byte) /\ p[1] = 2
    BY <1>2, <1>5, TagFacts, UnitVariant DEF p
  <2> QED
    BY <1>5, <2>1 DEF OutcomeVariant, Unit
<1> QED
  BY <1>1, <1>3, <1>4, <1>5

LEMMA OptionDecodes ==
  ASSUME NEW v, Meant(OptionName, v)
  PROVE  Decodes(OptionName, v)
<1> DEFINE p == Encoded(OptionName, v)
<1> SUFFICES p \in Seq(Byte) /\ OptionDecoded(p) = v
  BY DecoderCases, ZenonT(60) DEF Decodes
<1>1. \/ IsVariant(v, "Some") /\ IsWord(v.contents)
      \/ v = VariantValue("None", Unit)
  BY DEF Meant, OptionName
<1>2. OptionName \in Tagged /\ 0 \in Byte /\ 1 \in Byte
  BY BaseFacts DEF Tagged
<1> HIDE DEF p
<1>3. CASE IsVariant(v, "Some") /\ IsWord(v.contents)
  <2>1. p \in Seq(Byte) /\ HasWord(p) /\ p[1] = 1 /\ VariantValue("Some", WordOf(p)) = v
    BY <1>2, <1>3, TagFacts, WordVariant DEF p
  <2> QED
    BY <2>1 DEF OptionDecoded
<1>4. CASE v = VariantValue("None", Unit)
  <2>1. p \in Seq(Byte) /\ p[1] = 0
    BY <1>2, <1>4, TagFacts, UnitVariant DEF p
  <2> QED
    BY <1>4, <2>1 DEF OptionDecoded, Unit
<1> QED
  BY <1>1, <1>3, <1>4

LEMMA ResultDecodes ==
  ASSUME NEW v, Meant(ResultName, v)
  PROVE  Decodes(ResultName, v)
<1> DEFINE p == Encoded(ResultName, v)
<1> SUFFICES p \in Seq(Byte) /\ ResultDecoded(p) = v
  BY DecoderCases, ZenonT(60) DEF Decodes
<1>1. \/ IsVariant(v, "Ok") /\ IsWord(v.contents)
      \/ IsVariant(v, "Err") /\ \E size \in 1..8 : IsView(v.contents, size)
  BY DEF Meant, ResultName
<1>2. ResultName \in Tagged /\ 0 \in Byte /\ 1 \in Byte
  BY BaseFacts DEF Tagged
<1> HIDE DEF p
<1>3. CASE IsVariant(v, "Ok") /\ IsWord(v.contents)
  <2>1. p \in Seq(Byte) /\ HasWord(p) /\ p[1] = 0 /\ VariantValue("Ok", WordOf(p)) = v
    BY <1>2, <1>3, TagFacts, WordVariant DEF p
  <2> QED
    BY <2>1 DEF ResultDecoded
<1>4. CASE IsVariant(v, "Err") /\ \E size \in 1..8 : IsView(v.contents, size)
  <2>1. PICK size \in 1..8 : IsView(v.contents, size)
    BY <1>4
  <2>2. /\ p \in Seq(Byte) /\ Len(p) = 1 + size /\ p[1] = 1
        /\ VariantValue("Err", View(Slice(p, 1, 1 + size))) = v
    <3>1. size \in Nat
      OBVIOUS
    <3>2. Tailed(p, 1, size, "Err", v)
      BY <1>2, <1>4, <2>1, <3>1, TagFacts, ViewVariant DEF p
    <3> QED
      BY <3>2 DEF Tailed
  <2>3. Len(p) >= 2 /\ (IF Len(p) <= 9 THEN Len(p) ELSE 9) = 1 + size
    BY <2>2
  <2> QED
    BY <2>2, <2>3 DEF ResultDecoded
<1> QED
  BY <1>1, <1>3, <1>4

LEMMA MatchDecodes ==
  ASSUME NEW v, Meant(MatchName, v)
  PROVE  Decodes(MatchName, v)
<1> DEFINE p == Encoded(MatchName, v)
<1> SUFFICES p \in Seq(Byte) /\ MatchArmVariant(p) = v
  BY DecoderCases, ZenonT(60) DEF Decodes
<1>1. \/ (\E name \in {"Add", "Sub", "Mul"} : IsVariant(v, name)) /\ IsWord(v.contents)
      \/ v = VariantValue("Noop", Unit)
  BY DEF Meant, MatchName
<1>2. MatchName \in Tagged /\ 0 \in Byte /\ 1 \in Byte /\ 2 \in Byte /\ 3 \in Byte
  BY BaseFacts DEF Tagged
<1> HIDE DEF p
<1>3. ASSUME NEW name \in {"Add", "Sub", "Mul"}, IsVariant(v, name), IsWord(v.contents)
      PROVE  p \in Seq(Byte) /\ MatchArmVariant(p) = v
  <2> DEFINE tag == Tag[name]
  <2>1. tag \in 0..2 /\ tag \in Byte /\ <<"Add", "Sub", "Mul">>[tag + 1] = name
    BY <1>2, TagFacts
  <2> HIDE DEF tag
  <2>2. p \in Seq(Byte) /\ HasWord(p) /\ p[1] = tag /\ VariantValue(name, WordOf(p)) = v
    BY <1>2, <1>3, <2>1, WordVariant DEF p, tag
  <2> QED
    BY <2>1, <2>2 DEF MatchArmVariant
<1>4. CASE v = VariantValue("Noop", Unit)
  <2>1. p \in Seq(Byte) /\ p[1] = 3
    BY <1>2, <1>4, TagFacts, UnitVariant DEF p
  <2> QED
    BY <1>4, <2>1 DEF MatchArmVariant, Unit
<1> QED
  BY <1>1, <1>3, <1>4

LEMMA IdentityDecodes ==
  ASSUME NEW v, Meant(IdentityName, v)
  PROVE  Decodes(IdentityName, v)
<1> DEFINE p == Encoded(IdentityName, v)
<1> SUFFICES p \in Seq(Byte) /\ Len(p) >= 33 /\ IdentityVariant(p) = v
  BY DecoderCases, Zenon DEF Decodes, When
<1>1. /\ \E name \in {"Address", "ContractId"} : IsVariant(v, name)
      /\ IsView(v.contents, 32)
  BY DEF Meant, IdentityName
<1>2. IdentityName \in Tagged /\ 0 \in Byte /\ 1 \in Byte
  BY BaseFacts DEF Tagged
<1>3. PICK name \in {"Address", "ContractId"} : IsVariant(v, name)
  BY <1>1
<1> HIDE DEF p
<1> DEFINE tag == Tag[name]
<1>4. tag \in Byte /\ name = IF tag = 0 THEN "Address" ELSE IF tag = 1 THEN "ContractId" ELSE "Unknown"
  BY <1>2, <1>3, TagFacts
<1> HIDE DEF tag
<1>5. /\ p \in Seq(Byte) /\ Len(p) = 1 + 32 /\ p[1] = tag
      /\ VariantValue(name, View(Slice(p, 1, 1 + 32))) = v
  <2>1. 32 \in Nat
    OBVIOUS
  <2>2. Tailed(p, tag, 32, name, v)
    BY <1>1, <1>2, <1>3, <1>4, <2>1, ViewVariant DEF p, tag
  <2> QED
    BY <2>2 DEF Tailed
<1>6. Len(p) >= 33 /\ 1 + 32 = 33
  BY <1>5
<1> QED
  BY <1>4, <1>5, <1>6 DEF IdentityVariant

LEMMA ViewDecodes ==
  ASSUME NEW v, NEW type
  PROVE  /\ Meant(ByteStringName, v) => Decodes(ByteStringName, v)
         /\ type \in Ids /\ Meant(type, v) => Decodes(type, v)
         /\ Meant(HashName, v) => Decodes(HashName, v)
<1>1. ASSUME Meant(ByteStringName, v) PROVE Decodes(ByteStringName, v)
  <2>1. IsView(v, Len(v.elements)) /\ Len(v.elements) \in Nat
    BY <1>1 DEF Meant, ByteStringName
  <2>2. Viewed(v) \in Seq(Byte) /\ View(Viewed(v)) = v
    BY <2>1, IsViewFacts
  <2>3. Encoded(ByteStringName, v) = Viewed(v)
    BY WireCases
  <2> QED
    BY <2>2, <2>3, DecoderCases, ZenonT(60) DEF Decodes
<1>2. ASSUME type \in Ids, Meant(type, v) PROVE Decodes(type, v)
  <2> DEFINE p == Viewed(v)
  <2>1. IsView(v, 32) /\ 32 \in Nat
    BY <1>2 DEF Meant, Ids
  <2>2. p \in Seq(Byte) /\ Len(p) = 32 /\ View(p) = v
    BY <2>1, IsViewFacts
  <2>3. Encoded(type, v) = p
    BY <1>2, WireCases
  <2> HIDE DEF p
  <2>4. Len(p) >= 32 /\ Slice(p, 0, 32) = p
    <3>1. Slice(p, 0, Len(p)) = p
      BY <2>2, WholeSlice
    <3> QED
      BY <2>2, <3>1
  <2>5. DecodedValue(type, p) = When(Len(p) >= 32, Shown("address_decoded", View(Slice(p, 0, 32))))
    BY <1>2, DecoderCases
  <2>6. DecodedValue(type, p) = Shown("address_decoded", v)
    BY <2>2, <2>4, <2>5 DEF When
  <2> QED
    BY <2>2, <2>3, <2>6, Zenon DEF Decodes
<1>3. ASSUME Meant(HashName, v) PROVE Decodes(HashName, v)
  <2> DEFINE p == Viewed(v)
  <2>1. v = SequenceValue(Ints(p), FALSE) /\ p \in [1..32 -> Byte]
    BY <1>3 DEF Meant, HashName
  <2>2. Encoded(HashName, v) = p
    BY WireCases
  <2> HIDE DEF p
  <2>3. p \in Seq(Byte) /\ Len(p) = 32
    <3>1. 32 \in Nat
      OBVIOUS
    <3> QED
      BY <2>1, <3>1, FunctionBytes
  <2>4. DecodedValue(HashName, p) = When(Len(p) = 32, Shown("b256_decoded", SequenceValue(Ints(p), FALSE)))
    BY DecoderCases
  <2>5. DecodedValue(HashName, p) = Shown("b256_decoded", v)
    BY <2>1, <2>3, <2>4 DEF When
  <2> QED
    BY <2>2, <2>3, <2>5, Zenon DEF Decodes
<1> QED
  BY <1>1, <1>2, <1>3

LEMMA WordsDecode ==
  ASSUME NEW v
  PROVE  /\ Meant(ArrayName, v) => Decodes(ArrayName, v)
         /\ Meant(PayloadName, v) => Decodes(PayloadName, v)
<1> DEFINE ws == v.elements
           p == Concatenated(ws)
<1>1. ASSUME Meant(ArrayName, v) PROVE Decodes(ArrayName, v)
  <2>1. v = SequenceValue(ws, TRUE) /\ AreWords(ws, 4) /\ 4 \in Nat
    BY <1>1 DEF Meant, ArrayName
  <2>2. Encoded(ArrayName, v) = p
    BY WireCases
  <2> HIDE DEF ws
  <2>3. p \in Seq(Byte) /\ Len(p) = 8 * 4 /\ Words(p) = ws
    BY <2>1, WordsOfConcatenated
  <2> HIDE DEF p
  <2>4. Len(p) = 32
    BY <2>3
  <2>5. DecodedValue(ArrayName, p) = When(Len(p) = 32, Shown("array_fixed", SequenceValue(Words(p), TRUE)))
    BY DecoderCases
  <2>6. DecodedValue(ArrayName, p) = Shown("array_fixed", v)
    BY <2>1, <2>3, <2>4, <2>5 DEF When
  <2> QED
    BY <2>2, <2>3, <2>6, Zenon DEF Decodes
<1>2. ASSUME Meant(PayloadName, v) PROVE Decodes(PayloadName, v)
  <2> DEFINE m == Len(ws)
  <2>1. v = TupleValue(ws) /\ AreWords(ws, m) /\ m \in Nat
    BY <1>2 DEF Meant, PayloadName
  <2>2. Encoded(PayloadName, v) = p
    BY WireCases
  <2> HIDE DEF ws, m
  <2>3. p \in Seq(Byte) /\ Len(p) = 8 * m /\ Words(p) = ws
    BY <2>1, WordsOfConcatenated
  <2> HIDE DEF p
  <2>4. Len(p) % 8 = 0
    <3>1. (8 * m) % 8 = 0
      BY <2>1
    <3> QED
      BY <2>3, <3>1
  <2>5. DecodedValue(PayloadName, p)
          = When(Len(p) % 8 = 0, Shown("configurable_decoded", TupleValue(Words(p))))
    BY DecoderCases
  <2>6. DecodedValue(PayloadName, p) = Shown("configurable_decoded", v)
    BY <2>1, <2>3, <2>4, <2>5 DEF When
  <2> QED
    BY <2>2, <2>3, <2>6, Zenon DEF Decodes
<1> QED
  BY <1>1, <1>2

LEMMA OneByte ==
  ASSUME NEW s \in Seq(Byte), Len(s) = 1
  PROVE  BigEndian(s) = s[1] /\ s[1] \in Byte
<1>1. s[1] \in Byte /\ s[1] \in Nat
  <2>1. 1 \in 1..Len(s)
    OBVIOUS
  <2>2. s[1] \in Byte
    BY <2>1, ElementFacts
  <2> QED
    BY <2>2, BaseFacts
<1>2. PICK v : Values(s, v) /\ BigEndian(s) = v[Len(s)]
  BY BigEndianIs
<1>3. v[0] = 0 /\ v[1] = v[0] * Base + s[1]
  <2>1. v[0] = 0 /\ \A k \in 1..1 : v[k] = v[k - 1] * Base + s[k]
    BY <1>2 DEF Values
  <2>2. 1 \in 1..1 /\ 1 - 1 = 0
    OBVIOUS
  <2> QED
    BY <2>1, <2>2
<1>4. 0 * Base + s[1] = s[1]
  BY <1>1, BaseFacts
<1>5. BigEndian(s) = v[1]
  BY <1>2
<1> QED
  BY <1>1, <1>3, <1>4, <1>5

LEMMA WidthsDecode ==
  ASSUME NEW v, Meant(WidthsName, v)
  PROVE  Decodes(WidthsName, v)
<1> DEFINE a == v.elements[1].i
           b == v.elements[2].i
           c == v.elements[3].i
           d == v.elements[4]
           s == Bytes(a, 1)
           t == Bytes(b, 2)
           u == Bytes(c, 4)
           w == WordBytes(d)
           stu == (s \o t) \o u
           p == stu \o w
<1>1. /\ v = TupleValue(<<IntValue(a, "u8"), IntValue(b, "u16"), IntValue(c, "u32"), d>>)
      /\ a \in Byte /\ b \in 0..(Power[2] - 1) /\ c \in 0..(Power[4] - 1) /\ IsWord(d)
  BY DEF Meant, WidthsName
<1>2. Encoded(WidthsName, v) = p
  BY WireCases
<1> HIDE DEF a, b, c, d, p, stu
<1>3. /\ 1 \in 0..8 /\ 2 \in 0..8 /\ 4 \in 0..8 /\ 1 \in Nat /\ 2 \in Nat /\ 4 \in Nat
      /\ 8 \in Nat /\ 7 \in Nat
  OBVIOUS
<1>4. a \in Nat /\ b \in Nat /\ c \in Nat /\ a < Power[1] /\ b < Power[2] /\ c < Power[4]
  <2>1. Power[1] = Base * Power[0] /\ Power[0] = 1
    <3>1. 1 \in 1..8 /\ 1 - 1 = 0
      OBVIOUS
    <3> QED
      BY <3>1, PowerFacts
  <2>2. Power[1] = Base
    BY <2>1, BaseFacts
  <2>3. Power[2] \in Nat /\ Power[4] \in Nat
    BY <1>3, PowerFacts
  <2> QED
    BY <1>1, <2>2, <2>3, BaseFacts
<1>5. s \in Seq(Byte) /\ Len(s) = 1 /\ s[1] = a
  <2>1. s \in Seq(Byte) /\ Len(s) = 1
    BY <1>3, <1>4, BytesType, Zenon
  <2>2. BigEndian(s) = a
    BY <1>3, <1>4, ValueOfBytes, Zenon
  <2> HIDE DEF s
  <2> QED
    BY <2>1, <2>2, OneByte
<1>6. t \in Seq(Byte) /\ Len(t) = 2 /\ BigEndian(t) = b
  BY <1>3, <1>4, BytesType, ValueOfBytes, Zenon
<1>7. u \in Seq(Byte) /\ Len(u) = 4 /\ BigEndian(u) = c
  BY <1>3, <1>4, BytesType, ValueOfBytes, Zenon
<1>8. w \in Seq(Byte) /\ Len(w) = 8 /\ Word(w) = d
  BY <1>1, WordOfBytes
<1> HIDE DEF s, t, u, w
<1>9. /\ stu \in Seq(Byte) /\ Len(stu) = 7 /\ Slice(stu, 0, 1) = s
      /\ Slice(stu, 1, 3) = t /\ Slice(stu, 3, 7) = u
  <2>1. Parts(stu, s, t, u, 1, 2, 4)
    BY <1>3, <1>5, <1>6, <1>7, ThreeParts DEF stu
  <2>2. 1 + 2 = 3 /\ 3 + 4 = 7
    OBVIOUS
  <2> QED
    BY <2>1, <2>2 DEF Parts
<1>10. /\ p \in Seq(Byte) /\ Len(p) = Len(stu) + Len(w) /\ Slice(p, Len(stu), Len(stu) + Len(w)) = w
  BY <1>8, <1>9, JoinedBytes, SlicesOfJoined DEF p
<1>11. Len(p) = 15 /\ Slice(p, 7, 15) = w
  <2>1. Len(stu) + Len(w) = 15
    BY <1>8, <1>9
  <2> QED
    BY <1>9, <1>10, <2>1
<1>12. Slice(p, 0, 1) = s /\ Slice(p, 1, 3) = t /\ Slice(p, 3, 7) = u
  <2>1. /\ 0 \in Nat /\ 1 \in Nat /\ 3 \in Nat /\ 7 \in Nat /\ 0 <= 1 /\ 1 <= 3 /\ 3 <= 7
        /\ 1 <= Len(stu) /\ 3 <= Len(stu) /\ 7 <= Len(stu)
    BY <1>9
  <2>2. /\ Slice(p, 0, 1) = Slice(stu, 0, 1) /\ Slice(p, 1, 3) = Slice(stu, 1, 3)
        /\ Slice(p, 3, 7) = Slice(stu, 3, 7)
    BY <1>8, <1>9, <2>1, SliceOfSlice, ZenonT(60) DEF p
  <2> QED
    BY <1>9, <2>2
<1>13. p[1] = a
  <2>1. p # <<>>
    BY <1>11
  <2>2. Slice(p, 0, 1) = <<p[1]>>
    BY <1>10, <2>1, FirstByte
  <2> QED
    BY <1>5, <1>12, <2>2
<1>14. WidthsDecoded(p) = v
  BY <1>1, <1>6, <1>7, <1>8, <1>11, <1>12, <1>13 DEF WidthsDecoded
<1>15. DecodedValue(WidthsName, p) = Shown("integer_widths_decoded", v)
  BY <1>11, <1>14, DecoderCases DEF When
<1> QED
  BY <1>2, <1>10, <1>15, Zenon DEF Decodes

(* Whatever is logged of a type is shown. *)
LEMMA MeantDecodes ==
  ASSUME NEW type, NEW v, Meant(type, v)
  PROVE  Decodes(type, v)
<1>1. type \in Ids \union Tagged \union Others
  BY DEF Meant, Ids, Tagged, Others, PairName, OutcomeName, OptionName, ResultName, ArrayName,
         WidthsName, MatchName, ByteStringName, IdentityName, HashName, PayloadName
<1>2. CASE type \in Ids
  BY <1>2, ViewDecodes
<1>3. CASE type \in Tagged
  BY <1>3, OutcomeDecodes, OptionDecodes, ResultDecodes, MatchDecodes, IdentityDecodes DEF Tagged
<1>4. CASE type \in Others
  BY <1>4, PairDecodes, WidthsDecode, ViewDecodes, WordsDecode DEF Others
<1> QED
  BY <1>1, <1>2, <1>3, <1>4

------------------------------------------------------------------------------
(* What is shown was logged.                                               *)

LEMMA UndecodedFacts ==
  ASSUME NEW c
  PROVE  /\ Undecoded(VariantValue("Unknown", c)) /\ Undecoded(VariantValue("None", c))
         /\ Undecoded(VariantValue("Err", View(<<>>)))
<1>1. View(<<>>).elements = <<>>
  <2>1. Ints(<<>>) = <<>>
    BY DEF Ints
  <2> QED
    BY <2>1, SequenceValueFacts DEF View
<1> QED
  BY <1>1, ValueFacts DEF Undecoded

(* A tag and a part of the payload after it. *)
LEMMA VariantFaithful ==
  ASSUME NEW type \in Tagged, NEW p \in Seq(Byte), p # <<>>, NEW name, NEW c, NEW n \in Nat,
         Tag[name] = p[1], 1 <= n, n <= Len(p), Contents(c) = Slice(p, 1, n)
  PROVE  Wire(Encoded(type, VariantValue(name, c)), p)
<1> DEFINE v == VariantValue(name, c)
<1>1. Encoded(type, v) = <<Tag[v.discriminator]>> \o Contents(v.contents)
  BY WireCases
<1>2. v.discriminator = name /\ v.contents = c
  BY ValueFacts
<1>3. Slice(p, 0, 1) = <<p[1]>>
  BY FirstByte
<1>4. 0 \in Nat /\ 1 \in Nat /\ 0 <= 1
  OBVIOUS
<1>5. Slice(p, 0, 1) \o Slice(p, 1, n) = Slice(p, 0, n)
  BY <1>4, JoinedSlices
<1> HIDE DEF v
<1>6. Encoded(type, v) = Slice(p, 0, n)
  BY <1>1, <1>2, <1>3, <1>5
<1> QED
  BY <1>6, WireOfSlice DEF v

LEMMA WordFaithful ==
  ASSUME NEW type \in Tagged, NEW p \in Seq(Byte), HasWord(p), NEW name, Tag[name] = p[1]
  PROVE  Wire(Encoded(type, VariantValue(name, WordOf(p))), p)
<1>1. Len(p) >= 9 /\ Len(p) \in Nat
  BY DEF HasWord
<1>2. p # <<>>
  BY <1>1
<1>3. 1 \in Nat /\ 9 \in Nat /\ 1 <= 9 /\ 9 - 1 = 8 /\ 9 <= Len(p)
  BY <1>1
<1> DEFINE s == Slice(p, 1, 9)
<1>4. IsPart(s, p, 1, 9)
  BY <1>3, SliceFacts
<1> HIDE DEF s
<1>5. s \in Seq(Byte) /\ Len(s) = 8
  BY <1>3, <1>4 DEF IsPart
<1>6. IsWord(Word(s)) /\ WordBytes(Word(s)) = s
  BY <1>5, BytesOfWord
<1>7. Contents(Word(s)) = s
  BY <1>6, ContentsFacts
<1>8. WordOf(p) = Word(s)
  BY DEF WordOf, s
<1>9. Contents(WordOf(p)) = Slice(p, 1, 9)
  BY <1>7, <1>8 DEF s
<1> QED
  BY <1>2, <1>3, <1>9, VariantFaithful

LEMMA ViewFaithful ==
  ASSUME NEW type \in Tagged, NEW p \in Seq(Byte), NEW name, Tag[name] = p[1],
         NEW n \in Nat, 1 <= n, n <= Len(p)
  PROVE  Wire(Encoded(type, VariantValue(name, View(Slice(p, 1, n)))), p)
<1>1. p # <<>> /\ 1 \in Nat
  OBVIOUS
<1> DEFINE s == Slice(p, 1, n)
<1>2. IsPart(s, p, 1, n)
  BY <1>1, SliceFacts
<1> HIDE DEF s
<1>3. s \in Seq(Byte)
  BY <1>2 DEF IsPart
<1>4. Viewed(View(s)) = s /\ IsView(View(s), Len(s))
  BY <1>3, ViewFacts
<1>5. Contents(View(s)) = s
  BY <1>4, ContentsFacts
<1>6. Wire(Encoded(type, VariantValue(name, View(s))), p)
  BY <1>1, <1>5, VariantFaithful DEF s
<1> QED
  BY <1>6 DEF s

LEMMA UnitFaithful ==
  ASSUME NEW type \in Tagged, NEW p \in Seq(Byte), p # <<>>, NEW name, Tag[name] = p[1]
  PROVE  Wire(Encoded(type, VariantValue(name, Unit)), p)
<1>1. Len(p) >= 1 /\ 1 \in Nat /\ 1 <= 1 /\ 1 <= Len(p) /\ 1 - 1 = 0
  OBVIOUS
<1> DEFINE s == Slice(p, 1, 1)
<1>2. IsPart(s, p, 1, 1)
  BY <1>1, SliceFacts
<1> HIDE DEF s
<1>3. s \in Seq(Byte) /\ Len(s) = 0
  BY <1>1, <1>2 DEF IsPart
<1>4. s = <<>>
  BY <1>3
<1>5. Contents(Unit) = Slice(p, 1, 1)
  BY <1>4, ContentsFacts DEF s
<1> QED
  BY <1>1, <1>5, VariantFaithful

LEMMA OutcomeFaithful ==
  ASSUME NEW p \in Seq(Byte), p # <<>>
  PROVE  Faithful(OutcomeName, p)
<1> DEFINE v == OutcomeVariant(p)
<1> SUFFICES Undecoded(v) \/ Wire(Encoded(OutcomeName, v), p)
  <2>1. DecodedValue(OutcomeName, p) = Shown("outcome_variant", v)
    BY DecoderCases
  <2> HIDE DEF v
  <2> QED
    BY <2>1, FaithfulIf
<1>1. OutcomeName \in Tagged /\ Unit = TupleValue(<<>>)
  BY DEF Tagged, Unit
<1>2. CASE p[1] = 0 /\ HasWord(p)
  <2>1. v = VariantValue("Success", WordOf(p))
    BY <1>2 DEF OutcomeVariant
  <2>2. Wire(Encoded(OutcomeName, v), p)
    BY <1>1, <1>2, <2>1, TagFacts, WordFaithful
  <2> QED
    BY <2>2
<1>3. CASE p[1] = 1 /\ HasWord(p)
  <2>1. v = VariantValue("Failure", View(Slice(p, 1, 9)))
    BY <1>3 DEF OutcomeVariant
  <2>2. 9 \in Nat /\ 1 <= 9 /\ 9 <= Len(p)
    BY <1>3 DEF HasWord
  <2>3. Wire(Encoded(OutcomeName, v), p)
    BY <1>1, <1>3, <2>1, <2>2, TagFacts, ViewFaithful
  <2> QED
    BY <2>3
<1>4. CASE p[1] = 2
  <2>1. v = VariantValue("Skipped", Unit)
    BY <1>1, <1>4 DEF OutcomeVariant
  <2>2. Wire(Encoded(OutcomeName, v), p)
    BY <1>1, <1>4, <2>1, TagFacts, UnitFaithful
  <2> QED
    BY <2>2
<1>5. CASE ~(p[1] = 0 /\ HasWord(p)) /\ ~(p[1] = 1 /\ HasWord(p)) /\ p[1] # 2
  <2>1. v = VariantValue("Unknown", NoValue)
    BY <1>5 DEF OutcomeVariant
  <2>2. Undecoded(v)
    BY <2>1, UndecodedFacts
  <2> QED
    BY <2>2
<1> QED
  BY <1>2, <1>3, <1>4, <1>5

LEMMA OptionFaithful ==
  ASSUME NEW p \in Seq(Byte), p # <<>>
  PROVE  Faithful(OptionName, p)
<1> DEFINE v == OptionDecoded(p)
<1> SUFFICES Undecoded(v) \/ Wire(Encoded(OptionName, v), p)
  <2>1. DecodedValue(OptionName, p) = Shown("option_decoded", v)
    BY DecoderCases
  <2> HIDE DEF v
  <2> QED
    BY <2>1, FaithfulIf
<1>1. OptionName \in Tagged
  BY DEF Tagged
<1>2. CASE p[1] = 1 /\ HasWord(p)
  <2>1. v = VariantValue("Some", WordOf(p))
    BY <1>2 DEF OptionDecoded
  <2>2. Wire(Encoded(OptionName, v), p)
    BY <1>1, <1>2, <2>1, TagFacts, WordFaithful
  <2> QED
    BY <2>2
<1>3. CASE ~(p[1] = 1 /\ HasWord(p))
  <2>1. v = VariantValue("None", TupleValue(<<>>))
    BY <1>3 DEF OptionDecoded
  <2>2. Undecoded(v)
    BY <2>1, UndecodedFacts
  <2> QED
    BY <2>2
<1> QED
  BY <1>2, <1>3

LEMMA ResultFaithful ==
  ASSUME NEW p \in Seq(Byte), p # <<>>
  PROVE  Faithful(ResultName, p)
<1> DEFINE v == ResultDecoded(p)
           n == IF Len(p) <= 9 THEN Len(p) ELSE 9
<1> SUFFICES Undecoded(v) \/ Wire(Encoded(ResultName, v), p)
  <2>1. DecodedValue(ResultName, p) = Shown("result_decoded", v)
    BY DecoderCases
  <2> HIDE DEF v
  <2> QED
    BY <2>1, FaithfulIf
<1>1. ResultName \in Tagged
  BY DEF Tagged
<1>2. CASE p[1] = 0 /\ HasWord(p)
  <2>1. v = VariantValue("Ok", WordOf(p))
    BY <1>2 DEF ResultDecoded
  <2>2. Wire(Encoded(ResultName, v), p)
    BY <1>1, <1>2, <2>1, TagFacts, WordFaithful
  <2> QED
    BY <2>2
<1>3. CASE p[1] = 1 /\ Len(p) >= 2
  <2>1. v = VariantValue("Err", View(Slice(p, 1, n)))
    BY <1>3 DEF ResultDecoded
  <2>2. n \in Nat /\ 1 <= n /\ n <= Len(p)
    BY <1>3
  <2> HIDE DEF n
  <2>3. Wire(Encoded(ResultName, v), p)
    BY <1>1, <1>3, <2>1, <2>2, TagFacts, ViewFaithful
  <2> QED
    BY <2>3
<1>4. CASE ~(p[1] = 0 /\ HasWord(p)) /\ ~(p[1] = 1 /\ Len(p) >= 2)
  <2>1. v = VariantValue("Err", View(<<>>))
    BY <1>4 DEF ResultDecoded
  <2>2. Undecoded(v)
    BY <2>1, UndecodedFacts
  <2> QED
    BY <2>2
<1> QED
  BY <1>2, <1>3, <1>4

LEMMA MatchFaithful ==
  ASSUME NEW p \in Seq(Byte), p # <<>>
  PROVE  Faithful(MatchName, p)
<1> DEFINE v == MatchArmVariant(p)
<1> SUFFICES Undecoded(v) \/ Wire(Encoded(MatchName, v), p)
  <2>1. DecodedValue(MatchName, p) = Shown("match_arm_variant", v)
    BY DecoderCases
  <2> HIDE DEF v
  <2> QED
    BY <2>1, FaithfulIf
<1>1. MatchName \in Tagged /\ Unit = TupleValue(<<>>)
  BY DEF Tagged, Unit
<1>2. CASE p[1] \in 0..2 /\ HasWord(p)
  <2> DEFINE name == <<"Add", "Sub", "Mul">>[p[1] + 1]
  <2>1. v = VariantValue(name, WordOf(p))
    BY <1>2 DEF MatchArmVariant
  <2>2. Tag[name] = p[1]
    <3>1. p[1] = 0 \/ p[1] = 1 \/ p[1] = 2
      BY <1>2
    <3>2. /\ <<"Add", "Sub", "Mul">>[0 + 1] = "Add" /\ <<"Add", "Sub", "Mul">>[1 + 1] = "Sub"
          /\ <<"Add", "Sub", "Mul">>[2 + 1] = "Mul"
      OBVIOUS
    <3> QED
      BY <3>1, <3>2, TagFacts
  <2> HIDE DEF name
  <2>3. Wire(Encoded(MatchName, v), p)
    BY <1>1, <1>2, <2>1, <2>2, WordFaithful
  <2> QED
    BY <2>3
<1>3. CASE p[1] = 3
  <2>1. v = VariantValue("Noop", Unit)
    BY <1>1, <1>3 DEF MatchArmVariant
  <2>2. Wire(Encoded(MatchName, v), p)
    BY <1>1, <1>3, <2>1, TagFacts, UnitFaithful
  <2> QED
    BY <2>2
<1>4. CASE ~(p[1] \in 0..2 /\ HasWord(p)) /\ p[1] # 3
  <2>1. v = VariantValue("Unknown", NoValue)
    BY <1>4 DEF MatchArmVariant
  <2>2. Undecoded(v)
    BY <2>1, UndecodedFacts
  <2> QED
    BY <2>2
<1> QED
  BY <1>2, <1>3, <1>4

LEMMA IdentityFaithful ==
  ASSUME NEW p \in Seq(Byte), p # <<>>
  PROVE  Faithful(IdentityName, p)
<1> DEFINE v == IdentityVariant(p)
           c == View(Slice(p, 1, 33))
<1>1. IdentityName \in Tagged
  BY DEF Tagged
<1>2. ASSUME Len(p) >= 33 PROVE Undecoded(v) \/ Wire(Encoded(IdentityName, v), p)
  <2>1. 33 \in Nat /\ 1 <= 33 /\ 33 <= Len(p)
    BY <1>2
  <2>2. CASE p[1] = 0
    <3>1. v = VariantValue("Address", c)
      BY <2>2 DEF IdentityVariant
    <3> QED
      BY <1>1, <2>1, <2>2, <3>1, TagFacts, ViewFaithful
  <2>3. CASE p[1] = 1
    <3>1. v = VariantValue("ContractId", c)
      BY <2>3 DEF IdentityVariant
    <3> QED
      BY <1>1, <2>1, <2>3, <3>1, TagFacts, ViewFaithful
  <2>4. CASE p[1] # 0 /\ p[1] # 1
    <3>1. v = VariantValue("Unknown", c)
      BY <2>4 DEF IdentityVariant
    <3> QED
      BY <3>1, UndecodedFacts
  <2> QED
    BY <2>2, <2>3, <2>4
<1>3. DecodedValue(IdentityName, p) = When(Len(p) >= 33, Shown("identity_variant", v))
  BY DecoderCases
<1> HIDE DEF v
<1>4. \/ DecodedValue(IdentityName, p) = <<>>
      \/ /\ DecodedValue(IdentityName, p) = Shown("identity_variant", v)
         /\ Undecoded(v) \/ Wire(Encoded(IdentityName, v), p)
  BY <1>2, <1>3 DEF When
<1> QED
  BY <1>4, FaithfulIf

LEMMA PairFaithful ==
  ASSUME NEW p \in Seq(Byte)
  PROVE  Faithful(PairName, p)
<1> DEFINE v == TupleDecoded(p)
<1>1. ASSUME Len(p) = 41 PROVE Wire(Encoded(PairName, v), p)
  <2> DEFINE s == Slice(p, 0, 8)
             t == Slice(p, 8, 40)
             b == p[41] # 0
             x == <<IF b THEN 1 ELSE 0>>
             w == Slice(p, 0, 40)
  <2>1. /\ 0 \in Nat /\ 8 \in Nat /\ 40 \in Nat /\ 0 <= 8 /\ 8 <= 40 /\ 0 <= 40
        /\ 8 - 0 = 8 /\ 40 - 8 = 32 /\ 40 - 0 = 40 /\ 8 <= Len(p) /\ 40 <= Len(p)
    BY <1>1
  <2>2. IsPart(s, p, 0, 8) /\ IsPart(t, p, 8, 40) /\ IsPart(w, p, 0, 40)
    BY <2>1, SliceFacts
  <2>3. s \o t = w
    BY <2>1, JoinedSlices
  <2>4. v = TupleValue(<<Word(s), View(t), BoolValue(b)>>)
    BY DEF TupleDecoded
  <2> HIDE DEF s, t, w, v, b
  <2>5. /\ s \in Seq(Byte) /\ Len(s) = 8 /\ t \in Seq(Byte)
        /\ w \in Seq(Byte) /\ Len(w) = 40 /\ \A k \in 1..40 : w[k] = p[0 + k]
    BY <2>1, <2>2 DEF IsPart
  <2>6. v.elements[1] = Word(s) /\ v.elements[2] = View(t) /\ v.elements[3].b = b
    BY <2>4, ValueFacts
  <2>7. WordBytes(v.elements[1]) = s /\ Viewed(v.elements[2]) = t
    BY <2>5, <2>6, BytesOfWord, ViewFacts
  <2>8. Encoded(PairName, v) = w \o x
    BY <2>3, <2>6, <2>7, WireCases
  <2>9. x \in Seq(Byte) /\ Len(x) = 1 /\ x[1] = IF b THEN 1 ELSE 0
    <3>1. (IF b THEN 1 ELSE 0) \in Byte
      BY BaseFacts
    <3> QED
      BY <3>1
  <2> HIDE DEF x
  <2> DEFINE e == w \o x
  <2>10. /\ Len(e) = Len(w) + Len(x) /\ \A k \in 1..Len(w) : e[k] = w[k]
         /\ \A k \in 1..Len(x) : e[Len(w) + k] = x[k]
    BY <2>5, <2>9, JoinedBytes, ZenonT(60)
  <2> HIDE DEF e
  <2>11. Len(e) = 41 /\ \A k \in 1..40 : e[k] = p[k]
    <3>1. \A k \in 1..40 : 0 + k = k
      OBVIOUS
    <3> QED
      BY <2>5, <2>9, <2>10, <3>1
  <2>12. e[41] = IF b THEN 1 ELSE 0
    <3>1. Len(w) + 1 = 41 /\ 1 \in 1..Len(x)
      BY <2>5, <2>9
    <3> QED
      BY <2>9, <2>10, <3>1
  <2>13. e[41] = p[41] \/ (41 = 41 /\ e[41] = 1 /\ p[41] # 0)
    BY <2>12 DEF b
  <2>14. Wire(e, p)
    <3>1. \A k \in 1..41 : k \in 1..40 \/ k = 41
      OBVIOUS
    <3>2. Len(e) <= Len(p)
      BY <1>1, <2>11
    <3> QED
      BY <2>11, <2>13, <3>1, <3>2 DEF Wire
  <2> QED
    BY <2>8, <2>14 DEF e
<1>2. DecodedValue(PairName, p) = When(Len(p) = 41, Shown("tuple_decoded", v))
  BY DecoderCases
<1> HIDE DEF v
<1>3. \/ DecodedValue(PairName, p) = <<>>
     \/ /\ DecodedValue(PairName, p) = Shown("tuple_decoded", v)
        /\ Undecoded(v) \/ Wire(Encoded(PairName, v), p)
  BY <1>1, <1>2 DEF When
<1> QED
  BY <1>3, FaithfulIf

LEMMA EmptyBytes == Len(<<>>) = 0
OBVIOUS

LEMMA WidthsFaithful ==
  ASSUME NEW p \in Seq(Byte)
  PROVE  Faithful(WidthsName, p)
<1> DEFINE v == WidthsDecoded(p)
<1>1. ASSUME Len(p) = 15 PROVE Wire(Encoded(WidthsName, v), p)
  <2> DEFINE s == Slice(p, 0, 1)
             t == Slice(p, 1, 3)
             u == Slice(p, 3, 7)
             w == Slice(p, 7, 15)
  <2>1. /\ 0 \in Nat /\ 1 \in Nat /\ 3 \in Nat /\ 7 \in Nat /\ 15 \in Nat
        /\ 0 <= 1 /\ 0 <= 3 /\ 0 <= 7 /\ 1 <= 3 /\ 3 <= 7 /\ 7 <= 15
        /\ 1 - 0 = 1 /\ 3 - 1 = 2 /\ 7 - 3 = 4 /\ 15 - 7 = 8
        /\ 1 <= Len(p) /\ 3 <= Len(p) /\ 7 <= Len(p) /\ 15 <= Len(p)
    BY <1>1
  <2>2. IsPart(s, p, 0, 1) /\ IsPart(t, p, 1, 3) /\ IsPart(u, p, 3, 7) /\ IsPart(w, p, 7, 15)
    BY <2>1, SliceFacts
  <2>3. s \o t = Slice(p, 0, 3)
    BY <2>1, JoinedSlices, SMTT(30)
  <2>4. Slice(p, 0, 3) \o u = Slice(p, 0, 7)
    BY <2>1, JoinedSlices
  <2>5. Slice(p, 0, 7) \o w = Slice(p, 0, 15)
    BY <2>1, JoinedSlices, SMTT(30)
  <2>6. p # <<>>
    <3>1. p = <<>> => Len(p) = 0
      BY Zenon, EmptyBytes
    <3> QED
      BY <1>1, <3>1
  <2>7. s = <<p[1]>>
    BY <2>6, FirstByte
  <2>8. v = TupleValue(<<IntValue(p[1], "u8"), IntValue(BigEndian(t), "u16"),
                         IntValue(BigEndian(u), "u32"), Word(w)>>)
    BY DEF WidthsDecoded
  <2> HIDE DEF s, t, u, w, v
  <2>9. /\ s \in Seq(Byte) /\ Len(s) = 1 /\ t \in Seq(Byte) /\ Len(t) = 2
        /\ u \in Seq(Byte) /\ Len(u) = 4 /\ w \in Seq(Byte) /\ Len(w) = 8
    BY <2>1, <2>2 DEF IsPart
  <2>10. BigEndian(s) = p[1]
    <3>1. s[1] = p[1]
      BY <2>7
    <3> QED
      BY <2>9, <3>1, OneByte
  <2>11. /\ v.elements[1].i = BigEndian(s) /\ v.elements[2].i = BigEndian(t)
         /\ v.elements[3].i = BigEndian(u) /\ v.elements[4] = Word(w)
    BY <2>8, <2>10, ValueFacts, IntValueFacts
  <2>12. /\ Bytes(BigEndian(s), 1) = s /\ Bytes(BigEndian(t), 2) = t /\ Bytes(BigEndian(u), 4) = u
         /\ WordBytes(Word(w)) = w
    <3>1. Bytes(BigEndian(s), Len(s)) = s /\ Bytes(BigEndian(t), Len(t)) = t
      BY <2>9, BytesOfValue
    <3>2. Bytes(BigEndian(u), Len(u)) = u /\ WordBytes(Word(w)) = w
      BY <2>9, BytesOfValue, BytesOfWord
    <3> QED
      BY <2>9, <3>1, <3>2
  <2>13. Encoded(WidthsName, v) = s \o t \o u \o w
    BY <2>11, <2>12, WireCases
  <2>14. Encoded(WidthsName, v) = Slice(p, 0, 15)
    BY <2>3, <2>4, <2>5, <2>13
  <2> QED
    BY <2>1, <2>14, WireOfSlice
<1>2. DecodedValue(WidthsName, p) = When(Len(p) = 15, Shown("integer_widths_decoded", v))
  BY DecoderCases
<1> HIDE DEF v
<1>3. \/ DecodedValue(WidthsName, p) = <<>>
     \/ /\ DecodedValue(WidthsName, p) = Shown("integer_widths_decoded", v)
        /\ Undecoded(v) \/ Wire(Encoded(WidthsName, v), p)
  BY <1>1, <1>2 DEF When
<1> QED
  BY <1>3, FaithfulIf

LEMMA WordsFaithful ==
  ASSUME NEW p \in Seq(Byte)
  PROVE  Faithful(ArrayName, p) /\ Faithful(PayloadName, p)
<1>1. Wire(p, p)
  BY WireOfAll
<1>2. Faithful(ArrayName, p)
  <2> DEFINE v == SequenceValue(Words(p), TRUE)
  <2>1. ASSUME Len(p) = 32 PROVE Wire(Encoded(ArrayName, v), p)
    <3>1. Len(p) % 8 = 0
      BY <2>1
    <3>2. Concatenated(Words(p)) = p
      BY <3>1, ConcatenatedOfWords
    <3>3. Encoded(ArrayName, v) = Concatenated(v.elements) /\ v.elements = Words(p)
      BY WireCases, SequenceValueFacts
    <3> HIDE DEF v
    <3> QED
      BY <1>1, <3>2, <3>3
  <2>2. DecodedValue(ArrayName, p) = When(Len(p) = 32, Shown("array_fixed", v))
    BY DecoderCases
  <2> HIDE DEF v
  <2>3. \/ DecodedValue(ArrayName, p) = <<>>
       \/ /\ DecodedValue(ArrayName, p) = Shown("array_fixed", v)
          /\ Undecoded(v) \/ Wire(Encoded(ArrayName, v), p)
    BY <2>1, <2>2 DEF When
  <2> QED
    BY <2>3, FaithfulIf
<1>3. Faithful(PayloadName, p)
  <2> DEFINE v == TupleValue(Words(p))
  <2>1. ASSUME Len(p) % 8 = 0 PROVE Wire(Encoded(PayloadName, v), p)
    <3>1. Concatenated(Words(p)) = p
      BY <2>1, ConcatenatedOfWords
    <3>2. Encoded(PayloadName, v) = Concatenated(v.elements) /\ v.elements = Words(p)
      BY WireCases, ValueFacts
    <3> HIDE DEF v
    <3> QED
      BY <1>1, <3>1, <3>2
  <2>2. DecodedValue(PayloadName, p) = When(Len(p) % 8 = 0, Shown("configurable_decoded", v))
    BY DecoderCases
  <2> HIDE DEF v
  <2>3. \/ DecodedValue(PayloadName, p) = <<>>
       \/ /\ DecodedValue(PayloadName, p) = Shown("configurable_decoded", v)
          /\ Undecoded(v) \/ Wire(Encoded(PayloadName, v), p)
    BY <2>1, <2>2 DEF When
  <2> QED
    BY <2>3, FaithfulIf
<1> QED
  BY <1>2, <1>3

LEMMA ViewsFaithful ==
  ASSUME NEW p \in Seq(Byte)
  PROVE  /\ Faithful(ByteStringName, p) /\ Faithful(HashName, p)
         /\ \A type \in Ids : Faithful(type, p)
<1>1. Wire(p, p)
  BY WireOfAll
<1>2. Faithful(ByteStringName, p)
  <2> DEFINE v == View(p)
  <2>1. Encoded(ByteStringName, v) = Viewed(v) /\ Viewed(v) = p
    BY WireCases, ViewFacts
  <2>2. DecodedValue(ByteStringName, p) = Shown("bytes_decoded", v)
    BY DecoderCases
  <2> HIDE DEF v
  <2> QED
    BY <1>1, <2>1, <2>2, FaithfulIf
<1>3. Faithful(HashName, p)
  <2> DEFINE v == SequenceValue(Ints(p), FALSE)
  <2>1. Encoded(HashName, v) = Viewed(v) /\ Viewed(v) = p
    BY WireCases, ViewedInts
  <2>2. DecodedValue(HashName, p) = When(Len(p) = 32, Shown("b256_decoded", v))
    BY DecoderCases
  <2> HIDE DEF v
  <2>3. \/ DecodedValue(HashName, p) = <<>>
       \/ /\ DecodedValue(HashName, p) = Shown("b256_decoded", v)
          /\ Undecoded(v) \/ Wire(Encoded(HashName, v), p)
    BY <1>1, <2>1, <2>2 DEF When
  <2> QED
    BY <2>3, FaithfulIf
<1>4. ASSUME NEW type \in Ids PROVE Faithful(type, p)
  <2> DEFINE s == Slice(p, 0, 32)
             v == View(s)
  <2>1. ASSUME Len(p) >= 32 PROVE Wire(Encoded(type, v), p)
    <3>1. 0 \in Nat /\ 32 \in Nat /\ 0 <= 32 /\ 32 <= Len(p)
      BY <2>1
    <3>2. IsPart(s, p, 0, 32) /\ Wire(s, p)
      BY <3>1, SliceFacts, WireOfSlice
    <3> HIDE DEF s
    <3>3. s \in Seq(Byte)
      BY <3>2 DEF IsPart
    <3>4. Encoded(type, v) = Viewed(v) /\ Viewed(v) = s
      BY <3>3, WireCases, ViewFacts
    <3> HIDE DEF v
    <3> QED
      BY <3>2, <3>4
  <2>2. DecodedValue(type, p) = When(Len(p) >= 32, Shown("address_decoded", v))
    BY DecoderCases
  <2> HIDE DEF v
  <2>3. \/ DecodedValue(type, p) = <<>>
       \/ /\ DecodedValue(type, p) = Shown("address_decoded", v)
          /\ Undecoded(v) \/ Wire(Encoded(type, v), p)
    BY <2>1, <2>2 DEF When
  <2> QED
    BY <2>3, FaithfulIf
<1> QED
  BY <1>2, <1>3, <1>4

(* Whatever the payload and the type, what is shown was logged. *)
LEMMA AllFaithful ==
  ASSUME NEW type, NEW p \in Seq(Byte), p # <<>>
  PROVE  Faithful(type, p)
<1>1. CASE type \in Ids
  BY <1>1, ViewsFaithful
<1>2. CASE type \in Tagged
  BY <1>2, OutcomeFaithful, OptionFaithful, ResultFaithful, MatchFaithful, IdentityFaithful DEF Tagged
<1>3. CASE type \in Others
  BY <1>3, PairFaithful, WidthsFaithful, WordsFaithful, ViewsFaithful DEF Others
<1>4. CASE type \notin Ids \union Tagged \union Others
  <2>1. DecodedValue(type, p) = <<>>
    BY <1>4, DecoderCases, Zenon
  <2> QED
    BY <2>1 DEF Faithful
<1> QED
  BY <1>1, <1>2, <1>3, <1>4

------------------------------------------------------------------------------
(* What a step shows: the raw values, then the decoded one.                *)

LEMMA LastOfJoined ==
  ASSUME NEW S, NEW r \in Seq(S), NEW d \in Seq(S)
  PROVE  /\ SubSeq(r \o d, Len(r \o d) - Len(d) + 1, Len(r \o d)) = d
         /\ Len(r \o d) = Len(r) + Len(d)
<1> DEFINE s == r \o d
           m == Len(r)
           n == Len(d)
<1>1. /\ s \in Seq(S) /\ Len(s) = m + n /\ m \in Nat /\ n \in Nat
      /\ \A k \in 1..n : s[m + k] = d[k]
  OBVIOUS
<1>2. d = [k \in 1..n |-> d[k]]
  OBVIOUS
<1> HIDE DEF s, m, n
<1>3. Len(s) - n + 1 = m + 1
  BY <1>1
<1>4. SubSeq(s, m + 1, m + n) = [k \in 1..n |-> s[m + k]]
  <2>1. SubSeq(s, m + 1, m + n) = [k \in 1..(1 + (m + n) - (m + 1)) |-> s[k + (m + 1) - 1]]
    BY <1>1
  <2>2. 1 + (m + n) - (m + 1) = n /\ \A k \in 1..n : k + (m + 1) - 1 = m + k
    BY <1>1
  <2> QED
    BY <2>1, <2>2
<1>5. [k \in 1..n |-> s[m + k]] = [k \in 1..n |-> d[k]]
  BY <1>1
<1>6. SubSeq(s, Len(s) - n + 1, Len(s)) = d
  BY <1>1, <1>2, <1>3, <1>4, <1>5
<1> QED
  BY <1>1, <1>6 DEF s, m, n

IsShown(d) == d = <<>> \/ \E e : d = <<e>>

LEMMA DecodedShape ==
  ASSUME NEW type, NEW p
  PROVE  IsShown(DecodedValue(type, p))
<1>1. \A name, v : IsShown(Shown(name, v))
  BY DEF IsShown, Shown
<1>2. IsShown(<<>>)
  BY DEF IsShown
<1>3. CASE type \in Ids
  <2>1. DecodedValue(type, p)
          = When(Len(p) >= 32, Shown("address_decoded", View(Slice(p, 0, 32))))
    BY <1>3, DecoderCases
  <2> QED
    BY <1>1, <1>2, <2>1 DEF When
<1>4. CASE type \in Tagged
  <2>1. IsShown(DecodedValue(OutcomeName, p))
    <3>1. DecodedValue(OutcomeName, p) = Shown("outcome_variant", OutcomeVariant(p))
      BY DecoderCases
    <3> QED
      BY <1>1, <1>2, <3>1 DEF When
  <2>2. IsShown(DecodedValue(OptionName, p))
    <3>1. DecodedValue(OptionName, p) = Shown("option_decoded", OptionDecoded(p))
      BY DecoderCases
    <3> QED
      BY <1>1, <1>2, <3>1 DEF When
  <2>3. IsShown(DecodedValue(ResultName, p))
    <3>1. DecodedValue(ResultName, p) = Shown("result_decoded", ResultDecoded(p))
      BY DecoderCases
    <3> QED
      BY <1>1, <1>2, <3>1 DEF When
  <2>4. IsShown(DecodedValue(MatchName, p))
    <3>1. DecodedValue(MatchName, p) = Shown("match_arm_variant", MatchArmVariant(p))
      BY DecoderCases
    <3> QED
      BY <1>1, <1>2, <3>1 DEF When
  <2>5. IsShown(DecodedValue(IdentityName, p))
    <3>1. DecodedValue(IdentityName, p) = When(Len(p) >= 33, Shown("identity_variant", IdentityVariant(p)))
      BY DecoderCases
    <3> QED
      BY <1>1, <1>2, <3>1 DEF When
  <2> QED
    BY <1>4, <2>1, <2>2, <2>3, <2>4, <2>5 DEF Tagged
<1>5. CASE type \in Others
  <2>1. IsShown(DecodedValue(PairName, p))
    <3>1. DecodedValue(PairName, p) = When(Len(p) = 41, Shown("tuple_decoded", TupleDecoded(p)))
      BY DecoderCases
    <3> QED
      BY <1>1, <1>2, <3>1 DEF When
  <2>2. IsShown(DecodedValue(WidthsName, p))
    <3>1. DecodedValue(WidthsName, p) = When(Len(p) = 15, Shown("integer_widths_decoded", WidthsDecoded(p)))
      BY DecoderCases
    <3> QED
      BY <1>1, <1>2, <3>1 DEF When
  <2>3. IsShown(DecodedValue(ArrayName, p))
    <3>1. DecodedValue(ArrayName, p) = When(Len(p) = 32, Shown("array_fixed", SequenceValue(Words(p), TRUE)))
      BY DecoderCases
    <3> QED
      BY <1>1, <1>2, <3>1 DEF When
  <2>4. IsShown(DecodedValue(PayloadName, p))
    <3>1. DecodedValue(PayloadName, p) = When(Len(p) % 8 = 0, Shown("configurable_decoded", TupleValue(Words(p))))
      BY DecoderCases
    <3> QED
      BY <1>1, <1>2, <3>1 DEF When
  <2>5. IsShown(DecodedValue(ByteStringName, p))
    <3>1. DecodedValue(ByteStringName, p) = Shown("bytes_decoded", View(p))
      BY DecoderCases
    <3> QED
      BY <1>1, <1>2, <3>1 DEF When
  <2>6. IsShown(DecodedValue(HashName, p))
    <3>1. DecodedValue(HashName, p) = When(Len(p) = 32, Shown("b256_decoded", SequenceValue(Ints(p), FALSE)))
      BY DecoderCases
    <3> QED
      BY <1>1, <1>2, <3>1 DEF When
  <2> QED
    BY <1>5, <2>1, <2>2, <2>3, <2>4, <2>5, <2>6 DEF Others
<1>6. CASE type \notin Ids \union Tagged \union Others
  <2>1. DecodedValue(type, p) = <<>>
    BY <1>6, DecoderCases, Zenon
  <2> QED
    BY <1>2, <2>1
<1> QED
  BY <1>3, <1>4, <1>5, <1>6

LEMMA AtMostOne ==
  ASSUME NEW S, NEW e \in S, NEW s, s = <<>> \/ s = <<e>>
  PROVE  s \in Seq(S) /\ Len(s) \in 0..1
<1>1. CASE s = <<>>
  BY <1>1
<1>2. CASE s = <<e>>
  <2>1. <<e>> \in Seq(S) /\ Len(<<e>>) = 1
    OBVIOUS
  <2> QED
    BY <1>2, <2>1
<1> QED
  BY <1>1, <1>2

IsJoined(r, s, t, S) == r \in Seq(S) /\ Len(r) = Len(s) + Len(t)

LEMMA TwoJoined ==
  ASSUME NEW S, NEW s \in Seq(S), NEW t \in Seq(S)
  PROVE  IsJoined(s \o t, s, t, S)
BY DEF IsJoined

LEMMA ShownShape ==
  ASSUME NEW type, NEW p
  PROVE  \E S : /\ RawValues(p) \in Seq(S) /\ Len(RawValues(p)) \in 1..3
                /\ DecodedValue(type, p) \in Seq(S) /\ Len(DecodedValue(type, p)) \in 0..1
<1> DEFINE d == DecodedValue(type, p)
<1>1. PICK e : d = <<>> \/ d = <<e>>
  BY DecodedShape DEF IsShown
<1> DEFINE a == [name |-> "logd_payload", value |-> SequenceValue(Ints(p), FALSE)]
           b == [name |-> "logd_struct", value |-> StructValue(Words(p))]
           c == [name |-> "vec_dynamic", value |-> SequenceValue(Words(p), FALSE)]
           x == <<a>>
           y == When(Len(p) % 8 = 0 /\ Len(p) >= 16, <<b>>)
           z == When(Len(p) % 8 = 0 /\ Len(p) >= 8, <<c>>)
           S == {a, b, c, e}
<1>2. RawValues(p) = (x \o y) \o z
  BY DEF RawValues, Shown
<1>3. (y = <<>> \/ y = <<b>>) /\ (z = <<>> \/ z = <<c>>)
  BY DEF When
<1> HIDE DEF y, z, d
<1>4. a \in S /\ b \in S /\ c \in S /\ e \in S
  OBVIOUS
<1>5. x \in Seq(S) /\ Len(x) = 1
  <2> HIDE DEF a, S
  <2> QED
    BY <1>4
<1> HIDE DEF a, b, c, S, x
<1>6. /\ d \in Seq(S) /\ Len(d) \in 0..1
      /\ y \in Seq(S) /\ Len(y) \in 0..1
      /\ z \in Seq(S) /\ Len(z) \in 0..1
  BY <1>1, <1>3, <1>4, AtMostOne
<1> DEFINE xy == x \o y
           r == xy \o z
<1>7. r \in Seq(S) /\ Len(r) = (Len(x) + Len(y)) + Len(z)
  <2>1. IsJoined(xy, x, y, S)
    BY <1>5, <1>6, TwoJoined
  <2> HIDE DEF xy
  <2>2. IsJoined(r, xy, z, S)
    <3>1. xy \in Seq(S)
      BY <2>1 DEF IsJoined
    <3> QED
      BY <1>6, <3>1, TwoJoined
  <2> HIDE DEF r
  <2> QED
    BY <2>1, <2>2 DEF IsJoined
<1> HIDE DEF r
<1>8. Len(r) \in 1..3
  <2> DEFINE l == Len(x)
             m == Len(y)
             n == Len(z)
             i == Len(r)
  <2>1. l = 1 /\ m \in 0..1 /\ n \in 0..1 /\ i = (l + m) + n
    BY <1>5, <1>6, <1>7
  <2> HIDE DEF l, m, n, i
  <2>2. i \in 1..3
    BY <2>1
  <2> QED
    BY <2>2 DEF i
<1>9. RawValues(p) = r
  BY <1>2 DEF r
<1> QED
  BY <1>6, <1>7, <1>8, <1>9 DEF d

------------------------------------------------------------------------------
(* The inductive invariant about what is logged.                           *)

LogInv ==
  /\ payload \in Seq(Byte)
  /\ phase # "listing" => payload = <<>> /\ shown = <<>>
  /\ shown = PayloadValues(abi, payload)

LEMMA PayloadsAreBytes == Payloads \subseteq Seq(Byte)
<1> SUFFICES ASSUME NEW type \in Decodable, NEW v \in Logs[type]
             PROVE  Encoded(type, v) \in Seq(Byte)
  BY DEF Payloads
<1>1. Meant(type, v)
  BY LogsAssumption
<1> QED
  BY <1>1, MeantDecodes DEF Decodes

LEMMA VariationsAreBytes ==
  ASSUME NEW p \in Seq(Byte)
  PROVE  Variations(p) \subseteq Seq(Byte)
<1>1. Append(p, 0) \in Seq(Byte)
  BY BaseFacts
<1>2. ASSUME p # <<>>, NEW n \in {1, Len(p) - 1}
      PROVE  SubSeq(p, 1, n) \in Seq(Byte)
  <2>1. n \in Nat /\ n <= Len(p)
    BY <1>2
  <2>2. \A i \in 1..n : p[i] \in Byte
    BY <2>1, ElementFacts
  <2> QED
    BY <2>1, <2>2
<1>3. ASSUME p # <<>>, NEW tag \in 0..4
      PROVE  [p EXCEPT ![1] = tag] \in Seq(Byte)
  <2>1. tag \in Byte
    BY BaseFacts DEF Byte
  <2> QED
    BY <1>3, <2>1
<1> QED
  BY <1>1, <1>2, <1>3 DEF Variations

LEMMA LogInvInit == Init => LogInv
<1>1. <<>> \in Seq(Byte)
  OBVIOUS
<1> QED
  BY <1>1 DEF Init, LogInv, PayloadValues

LEMMA LogInvNext == LogInv /\ [Next]_vars => LogInv'
<1> SUFFICES ASSUME LogInv, [Next]_vars PROVE LogInv'
  OBVIOUS
<1>1. CASE LoadAbi
  BY <1>1 DEF LoadAbi, LogInv, PayloadValues, symbolVars, logVars
<1>2. CASE NoAbi
  BY <1>2 DEF NoAbi, LogInv, PayloadValues, abiVars, symbolVars, logVars
<1>3. CASE LoadSymbols
  BY <1>3 DEF LoadSymbols, LogInv, PayloadValues, abiVars, logVars
<1>4. CASE NoSymbols
  BY <1>4 DEF NoSymbols, LogInv, PayloadValues, abiVars, symbolVars, logVars
<1>5. CASE LogData
  <2>1. PICK p \in Payloads : \E bytes \in Variations(p) :
          payload' = bytes /\ shown' = PayloadValues(abi, bytes)
    BY <1>5 DEF LogData
  <2>2. payload' \in Seq(Byte)
    BY <2>1, PayloadsAreBytes, VariationsAreBytes
  <2>3. phase' = "listing" /\ abi' = abi /\ shown' = PayloadValues(abi', payload')
    BY <1>5, <2>1 DEF LogData, abiVars
  <2> QED
    BY <2>2, <2>3 DEF LogInv
<1>6. CASE UNCHANGED vars
  BY <1>6 DEF LogInv, vars, abiVars, logVars
<1>7. CASE Done
  BY <1>6, <1>7 DEF Done
<1> QED
  BY <1>1, <1>2, <1>3, <1>4, <1>5, <1>6, <1>7 DEF Next

LEMMA LogInvAlways == Spec => []LogInv
BY LogInvInit, LogInvNext, PTL DEF Spec

LEMMA DecodedIs ==
  ASSUME LogInv, payload # <<>>
  PROVE  Decoded = DecodedValue(Declared, payload)
<1> DEFINE r == RawValues(payload)
           d == DecodedValue(Declared, payload)
<1>1. shown = r \o d
  BY DEF LogInv, PayloadValues, Declared
<1>2. PICK S : r \in Seq(S) /\ d \in Seq(S)
  BY ShownShape
<1>3. Decoded = SubSeq(shown, Len(shown) - Len(d) + 1, Len(shown))
  BY DEF Decoded
<1> HIDE DEF r, d
<1>4. SubSeq(r \o d, Len(r \o d) - Len(d) + 1, Len(r \o d)) = d
  BY <1>2, LastOfJoined
<1> QED
  BY <1>1, <1>3, <1>4 DEF d

(* A value of the type the ABI declares that a program logs is shown, as   *)
(* it was logged (recorder.rs:486-527).                                    *)
THEOREM LoggedIsAlwaysShown == Spec => []LoggedIsShown
<1>1. LogInv => LoggedIsShown
  <2> SUFFICES ASSUME LogInv, payload # <<>>, Declared \in Decodable,
                      NEW v \in Logs[Declared], payload = Encoded(Declared, v)
               PROVE  Decoded # <<>> /\ Decoded[1].value = v
    BY DEF LoggedIsShown
  <2>1. Decodes(Declared, v)
    BY LogsAssumption, MeantDecodes
  <2>2. PICK name : DecodedValue(Declared, payload) = Shown(name, v)
    BY <2>1 DEF Decodes
  <2>3. Decoded = Shown(name, v)
    BY <2>2, DecodedIs
  <2> QED
    BY <2>3, ShownFacts
<1> QED
  BY <1>1, LogInvAlways, PTL

(* Nothing is shown that was not logged (recorder.rs:737-1340).            *)
THEOREM ShownAlwaysWasLogged == Spec => []ShownWasLogged
<1>1. LogInv => ShownWasLogged
  <2> SUFFICES ASSUME LogInv, payload # <<>> PROVE ShownWasLogged
    BY DEF ShownWasLogged
  <2>1. payload \in Seq(Byte)
    BY DEF LogInv
  <2>2. Faithful(Declared, payload)
    BY <2>1, AllFaithful
  <2>3. Decoded = DecodedValue(Declared, payload)
    BY DecodedIs
  <2> QED
    BY <2>2, <2>3 DEF ShownWasLogged, Faithful, Wire
<1> QED
  BY <1>1, LogInvAlways, PTL

------------------------------------------------------------------------------
(* The ABI: every reference leads to the type it was made for, or, when    *)
(* the document has lost that type, to none.                               *)

InputRef(shape, t) ==
  CASE shape = "concrete" -> ByConcreteId(Id(t))
    [] shape = "named" -> ByType(NamedType(t))
    [] shape = "indexed" -> ByType(TypeIndex(CHOOSE n \in 1..Len(Types) : Types[n] = t))

OutputRef(shape, t) ==
  IF shape = "concrete" THEN ById(Id(t)) ELSE InputRef(shape, t)

ConcreteTable == [n \in 1..Len(Types) |-> [key |-> Id(Types[n]), val |-> Types[n]]]
IndexTable == [n \in 1..Len(Types) |-> [key |-> n, val |-> Types[n]]]

(* A document of the program whose function n may have lost its name. *)
Describes(document, p, shape, Nameless) ==
  /\ document.functions = [n \in 1..Len(p) |-> document.functions[n]]
  /\ \A n \in 1..Len(p) :
       LET f == document.functions[n]
       IN  /\ f = [name |-> f.name, inputs |-> f.inputs, output |-> f.output]
           /\ f.name = IF n \in Nameless THEN None ELSE p[n].name
           /\ Len(f.inputs) = Len(p[n].inputs)
           /\ \A k \in 1..Len(p[n].inputs) :
                /\ f.inputs[k].name = p[n].inputs[k].name
                /\ f.inputs[k].type = InputRef(shape, p[n].inputs[k].type_name)
           /\ f.output = IF p[n].output = None THEN None ELSE OutputRef(shape, p[n].output)

LEMMA ProgramFacts ==
  ASSUME NEW p \in Programs
  PROVE  /\ p \in Seq(AbiFunction)
         /\ \A n \in 1..Len(p) :
              /\ p[n] = [name |-> p[n].name, inputs |-> p[n].inputs, output |-> p[n].output]
              /\ p[n].name \in STRING /\ p[n].output \in STRING \union {None}
              /\ p[n].inputs \in Seq([name : STRING, type_name : STRING])
<1>1. p \in Seq(AbiFunction)
  BY ProgramsAssumption
<1>2. ASSUME NEW f \in AbiFunction
      PROVE  /\ f = [name |-> f.name, inputs |-> f.inputs, output |-> f.output]
             /\ f.name \in STRING /\ f.output \in STRING \union {None}
             /\ f.inputs \in Seq([name : STRING, type_name : STRING])
  BY DEF AbiFunction
<1>3. \A n \in 1..Len(p) : p[n] \in AbiFunction
  BY <1>1, ElementFacts
<1> QED
  BY <1>1, <1>2, <1>3

LEMMA ShapeIs ==
  ASSUME NEW p \in Programs, NEW shape \in Shapes
  PROVE  /\ Describes(Document(p, shape), p, shape, {})
         /\ Document(p, shape).concreteTypes = IF shape = "concrete" THEN ConcreteTable ELSE <<>>
         /\ Document(p, shape).types = IF shape = "indexed" THEN IndexTable ELSE <<>>
         /\ DOMAIN Document(p, shape) = {"concreteTypes", "types", "functions"}
<1>0. Len(p) \in Nat /\ \A n \in 1..Len(p) : Len(p[n].inputs) \in Nat
  BY ProgramFacts
<1>1. CASE shape = "concrete"
  <2>1. Document(p, shape) = ConcreteShape(p, Types)
    BY <1>1 DEF Document
  <2>2. \A t : InputRef(shape, t) = ByConcreteId(Id(t)) /\ OutputRef(shape, t) = ById(Id(t))
    BY <1>1 DEF InputRef, OutputRef
  <2>3. Describes(ConcreteShape(p, Types), p, shape, {})
    <3> DEFINE fs == ConcreteShape(p, Types).functions
    <3>1. fs = [n \in 1..Len(p) |-> fs[n]] /\ \A n \in 1..Len(p) :
            fs[n] = [ name |-> p[n].name,
                      inputs |-> [k \in 1..Len(p[n].inputs) |->
                                    [name |-> p[n].inputs[k].name,
                                     type |-> ByConcreteId(Id(p[n].inputs[k].type_name))]],
                      output |-> IF p[n].output = None THEN None
                                 ELSE ById(Id(p[n].output)) ]
      BY <1>0 DEF ConcreteShape, Shaped
    <3> HIDE DEF fs
    <3>2. ASSUME NEW n \in 1..Len(p)
          PROVE  /\ fs[n] = [name |-> fs[n].name, inputs |-> fs[n].inputs,
                              output |-> fs[n].output]
                 /\ fs[n].name = p[n].name /\ Len(fs[n].inputs) = Len(p[n].inputs)
                 /\ \A k \in 1..Len(p[n].inputs) :
                      /\ fs[n].inputs[k].name = p[n].inputs[k].name
                      /\ fs[n].inputs[k].type = InputRef(shape, p[n].inputs[k].type_name)
                 /\ fs[n].output = IF p[n].output = None THEN None
                                   ELSE OutputRef(shape, p[n].output)
      <4> DEFINE ins == [k \in 1..Len(p[n].inputs) |->
                            [name |-> p[n].inputs[k].name,
                             type |-> ByConcreteId(Id(p[n].inputs[k].type_name))]]
                 out == IF p[n].output = None THEN None
                        ELSE ById(Id(p[n].output))
      <4>1. fs[n] = [name |-> p[n].name, inputs |-> ins, output |-> out]
        BY <3>1
      <4>2. Len(ins) = Len(p[n].inputs)
        BY <1>0
      <4>3. \A k \in 1..Len(p[n].inputs) :
              /\ ins[k].name = p[n].inputs[k].name
              /\ ins[k].type = InputRef(shape, p[n].inputs[k].type_name)
        BY <2>2
      <4>4. out = IF p[n].output = None THEN None ELSE OutputRef(shape, p[n].output)
        BY <2>2
      <4> HIDE DEF ins, out
      <4>5. fs[n].name = p[n].name /\ fs[n].inputs = ins /\ fs[n].output = out
        BY <4>1
      <4>6. fs[n] = [name |-> fs[n].name, inputs |-> fs[n].inputs, output |-> fs[n].output]
        BY <4>1, <4>5
      <4> QED
        BY <4>2, <4>3, <4>4, <4>5, <4>6
    <3> QED
      BY <3>1, <3>2 DEF Describes, fs
  <2> QED
    BY <1>1, <2>1, <2>3, SMTT(30) DEF ConcreteShape, ConcreteTable
<1>2. CASE shape = "named"
  <2>1. Document(p, shape) = NamedShape(p, Types)
    BY <1>2 DEF Document
  <2>2. \A t : InputRef(shape, t) = ByType(NamedType(t)) /\ OutputRef(shape, t) = ByType(NamedType(t))
    BY <1>2 DEF InputRef, OutputRef
  <2>3. Describes(NamedShape(p, Types), p, shape, {})
    <3> DEFINE fs == NamedShape(p, Types).functions
    <3>1. fs = [n \in 1..Len(p) |-> fs[n]] /\ \A n \in 1..Len(p) :
            fs[n] = [ name |-> p[n].name,
                      inputs |-> [k \in 1..Len(p[n].inputs) |->
                                    [name |-> p[n].inputs[k].name,
                                     type |-> ByType(NamedType(p[n].inputs[k].type_name))]],
                      output |-> IF p[n].output = None THEN None
                                 ELSE ByType(NamedType(p[n].output)) ]
      BY <1>0 DEF NamedShape, Shaped
    <3> HIDE DEF fs
    <3>2. ASSUME NEW n \in 1..Len(p)
          PROVE  /\ fs[n] = [name |-> fs[n].name, inputs |-> fs[n].inputs,
                              output |-> fs[n].output]
                 /\ fs[n].name = p[n].name /\ Len(fs[n].inputs) = Len(p[n].inputs)
                 /\ \A k \in 1..Len(p[n].inputs) :
                      /\ fs[n].inputs[k].name = p[n].inputs[k].name
                      /\ fs[n].inputs[k].type = InputRef(shape, p[n].inputs[k].type_name)
                 /\ fs[n].output = IF p[n].output = None THEN None
                                   ELSE OutputRef(shape, p[n].output)
      <4> DEFINE ins == [k \in 1..Len(p[n].inputs) |->
                            [name |-> p[n].inputs[k].name,
                             type |-> ByType(NamedType(p[n].inputs[k].type_name))]]
                 out == IF p[n].output = None THEN None
                        ELSE ByType(NamedType(p[n].output))
      <4>1. fs[n] = [name |-> p[n].name, inputs |-> ins, output |-> out]
        BY <3>1
      <4>2. Len(ins) = Len(p[n].inputs)
        BY <1>0
      <4>3. \A k \in 1..Len(p[n].inputs) :
              /\ ins[k].name = p[n].inputs[k].name
              /\ ins[k].type = InputRef(shape, p[n].inputs[k].type_name)
        BY <2>2
      <4>4. out = IF p[n].output = None THEN None ELSE OutputRef(shape, p[n].output)
        BY <2>2
      <4> HIDE DEF ins, out
      <4>5. fs[n].name = p[n].name /\ fs[n].inputs = ins /\ fs[n].output = out
        BY <4>1
      <4>6. fs[n] = [name |-> fs[n].name, inputs |-> fs[n].inputs, output |-> fs[n].output]
        BY <4>1, <4>5
      <4> QED
        BY <4>2, <4>3, <4>4, <4>5, <4>6
    <3> QED
      BY <3>1, <3>2 DEF Describes, fs
  <2> QED
    BY <1>2, <2>1, <2>3 DEF NamedShape
<1>3. CASE shape = "indexed"
  <2>1. Document(p, shape) = IndexedShape(p, Types)
    BY <1>3 DEF Document
  <2>2. \A t : /\ InputRef(shape, t) = ByType(TypeIndex(CHOOSE n \in 1..Len(Types) : Types[n] = t))
               /\ OutputRef(shape, t) = ByType(TypeIndex(CHOOSE n \in 1..Len(Types) : Types[n] = t))
    BY <1>3 DEF InputRef, OutputRef
  <2>3. Describes(IndexedShape(p, Types), p, shape, {})
    <3> DEFINE fs == IndexedShape(p, Types).functions
    <3>1. fs = [n \in 1..Len(p) |-> fs[n]] /\ \A n \in 1..Len(p) :
            fs[n] = [ name |-> p[n].name,
                      inputs |-> [k \in 1..Len(p[n].inputs) |->
                                    [name |-> p[n].inputs[k].name,
                                     type |-> ByType(TypeIndex(CHOOSE m \in 1..Len(Types) : Types[m] = p[n].inputs[k].type_name))]],
                      output |-> IF p[n].output = None THEN None
                                 ELSE ByType(TypeIndex(CHOOSE m \in 1..Len(Types) : Types[m] = p[n].output)) ]
      BY <1>0 DEF IndexedShape, Shaped
    <3> HIDE DEF fs
    <3>2. ASSUME NEW n \in 1..Len(p)
          PROVE  /\ fs[n] = [name |-> fs[n].name, inputs |-> fs[n].inputs,
                              output |-> fs[n].output]
                 /\ fs[n].name = p[n].name /\ Len(fs[n].inputs) = Len(p[n].inputs)
                 /\ \A k \in 1..Len(p[n].inputs) :
                      /\ fs[n].inputs[k].name = p[n].inputs[k].name
                      /\ fs[n].inputs[k].type = InputRef(shape, p[n].inputs[k].type_name)
                 /\ fs[n].output = IF p[n].output = None THEN None
                                   ELSE OutputRef(shape, p[n].output)
      <4> DEFINE ins == [k \in 1..Len(p[n].inputs) |->
                            [name |-> p[n].inputs[k].name,
                             type |-> ByType(TypeIndex(CHOOSE m \in 1..Len(Types) : Types[m] = p[n].inputs[k].type_name))]]
                 out == IF p[n].output = None THEN None
                        ELSE ByType(TypeIndex(CHOOSE m \in 1..Len(Types) : Types[m] = p[n].output))
      <4>1. fs[n] = [name |-> p[n].name, inputs |-> ins, output |-> out]
        BY <3>1
      <4>2. Len(ins) = Len(p[n].inputs)
        BY <1>0
      <4>3. \A k \in 1..Len(p[n].inputs) :
              /\ ins[k].name = p[n].inputs[k].name
              /\ ins[k].type = InputRef(shape, p[n].inputs[k].type_name)
        BY <2>2
      <4>4. out = IF p[n].output = None THEN None ELSE OutputRef(shape, p[n].output)
        BY <2>2
      <4> HIDE DEF ins, out
      <4>5. fs[n].name = p[n].name /\ fs[n].inputs = ins /\ fs[n].output = out
        BY <4>1
      <4>6. fs[n] = [name |-> fs[n].name, inputs |-> fs[n].inputs, output |-> fs[n].output]
        BY <4>1, <4>5
      <4> QED
        BY <4>2, <4>3, <4>4, <4>5, <4>6
    <3> QED
      BY <3>1, <3>2 DEF Describes, fs
  <2> QED
    BY <1>3, <2>1, <2>3 DEF IndexedShape, IndexTable
<1> QED
  BY <1>1, <1>2, <1>3 DEF Shapes

(* What a map collects: of each key, the value of one of its entries. *)
Complete(pairs) == {n \in 1..Len(pairs) : pairs[n].key # None /\ pairs[n].val # None}

IsCollected(map, pairs) ==
  /\ DOMAIN map = {pairs[n].key : n \in Complete(pairs)}
  /\ \A k \in DOMAIN map : \E n \in Complete(pairs) : pairs[n].key = k /\ map[k] = pairs[n].val

LEMMA CollectedFacts ==
  ASSUME NEW pairs, Len(pairs) \in Nat
  PROVE  IsCollected(Collected(pairs), pairs)
<1> DEFINE C == Complete(pairs)
           Last(k) == CHOOSE n \in C :
                        pairs[n].key = k /\ \A m \in C : m > n => pairs[m].key # k
<1>1. Collected(pairs) = [k \in {pairs[n].key : n \in C} |-> pairs[Last(k)].val]
  BY DEF Collected, Complete
<1>2. ASSUME NEW k \in {pairs[n].key : n \in C}
      PROVE  Last(k) \in C /\ pairs[Last(k)].key = k
  <2> DEFINE S == {n \in C : pairs[n].key = k}
  <2>1. S \subseteq 1..Len(pairs) /\ S # {}
    BY <1>2 DEF Complete
  <2>2. PICK n \in S : \A m \in S : m <= n
    BY <2>1, LargestExists
  <2>3. n \in C /\ pairs[n].key = k /\ \A m \in C : m > n => pairs[m].key # k
    BY <2>1, <2>2
  <2> HIDE DEF C
  <2> QED
    BY <2>3
<1> HIDE DEF Last
<1>3. DOMAIN Collected(pairs) = {pairs[n].key : n \in C}
  BY <1>1
<1>4. ASSUME NEW k \in DOMAIN Collected(pairs)
      PROVE  \E n \in C : pairs[n].key = k /\ Collected(pairs)[k] = pairs[n].val
  <2>1. k \in {pairs[n].key : n \in C}
    BY <1>3
  <2>2. Collected(pairs)[k] = pairs[Last(k)].val
    BY <1>1, <2>1
  <2>3. Last(k) \in C /\ pairs[Last(k)].key = k
    BY <1>2, <2>1
  <2> QED
    BY <2>2, <2>3
<1> QED
  BY <1>3, <1>4 DEF IsCollected

(* A table with a key for each type, and what a loss leaves of it. *)
Keyed(keys) == [n \in 1..Len(Types) |-> [key |-> keys[n], val |-> Types[n]]]
Left(table, loss) == IF loss.kind = "entry" THEN Without(table, loss.type) ELSE table
Loses(loss, t) == loss.kind = "entry" /\ loss.type = t

LEMMA TypesFacts ==
  /\ Len(Types) \in Nat
  /\ \A n \in 1..Len(Types) : Types[n] \in STRING /\ Types[n] # None /\ Types[n] # Error
<1>1. Types \in Seq(STRING) /\ None \notin STRING /\ Error \notin STRING
  BY ProgramsAssumption
<1>2. Len(Types) \in Nat /\ \A n \in 1..Len(Types) : Types[n] \in STRING
  BY <1>1, ElementFacts
<1> QED
  BY <1>1, <1>2

LEMMA LookedUp ==
  ASSUME NEW keys, NEW loss,
         \A n \in 1..Len(Types) : keys[n] # None,
         \A n, m \in 1..Len(Types) : keys[n] = keys[m] => Types[n] = Types[m]
  PROVE  \A n \in 1..Len(Types) :
           /\ keys[n] \in DOMAIN Collected(Left(Keyed(keys), loss)) =>
                Collected(Left(Keyed(keys), loss))[keys[n]] = Types[n]
           /\ keys[n] \in DOMAIN Collected(Left(Keyed(keys), loss)) \/ Loses(loss, Types[n])
<1> DEFINE T == Left(Keyed(keys), loss)
<1>1. Len(T) = Len(Types) /\ Len(T) \in Nat
  BY TypesFacts DEF Left, Keyed, Without
<1>2. ASSUME NEW n \in 1..Len(Types)
      PROVE  T[n].key = keys[n] /\ T[n].val = IF Loses(loss, Types[n]) THEN None ELSE Types[n]
  <2> DEFINE K == Keyed(keys)
  <2>1. K[n] = [key |-> keys[n], val |-> Types[n]]
    BY DEF Keyed
  <2>2. K[n].key = keys[n] /\ K[n].val = Types[n]
    BY <2>1
  <2>3. CASE loss.kind = "entry"
    <3>1. Len(K) = Len(Types)
      BY TypesFacts DEF Keyed
    <3>2. T[n] = IF K[n].val = loss.type THEN [K[n] EXCEPT !.val = None] ELSE K[n]
      BY <2>3, <3>1 DEF Left, Without
    <3> QED
      BY <2>1, <2>2, <2>3, <3>2 DEF Loses
  <2>4. CASE loss.kind # "entry"
    BY <2>2, <2>4 DEF Left, Loses
  <2> QED
    BY <2>3, <2>4
<1> HIDE DEF T
<1>3. ASSUME NEW n \in 1..Len(Types), keys[n] \in DOMAIN Collected(T)
      PROVE  Collected(T)[keys[n]] = Types[n]
  <2>1. PICK m \in Complete(T) : T[m].key = keys[n] /\ Collected(T)[keys[n]] = T[m].val
    <3>1. IsCollected(Collected(T), T)
      BY <1>1, CollectedFacts
    <3> QED
      BY <1>3, <3>1 DEF IsCollected
  <2>2. m \in 1..Len(Types) /\ T[m].val # None
    BY <1>1, <2>1 DEF Complete
  <2>3. T[m].key = keys[m] /\ T[m].val = Types[m]
    BY <1>2, <2>2
  <2> QED
    BY <2>1, <2>2, <2>3
<1>4. ASSUME NEW n \in 1..Len(Types), ~Loses(loss, Types[n])
      PROVE  keys[n] \in DOMAIN Collected(T)
  <2>1. T[n].key = keys[n] /\ T[n].val = Types[n] /\ Types[n] # None /\ keys[n] # None
    BY <1>2, <1>4, TypesFacts
  <2>2. n \in Complete(T)
    BY <1>1, <2>1 DEF Complete
  <2>3. T[n].key \in {T[m].key : m \in Complete(T)}
    BY <2>2
  <2>4. DOMAIN Collected(T) = {T[m].key : m \in Complete(T)}
    BY <1>1, CollectedFacts DEF IsCollected
  <2> QED
    BY <2>1, <2>3, <2>4
<1> QED
  BY <1>3, <1>4 DEF T

Concrete(shape, loss) ==
  Collected(Left(IF shape = "concrete" THEN ConcreteTable ELSE <<>>, loss))
Indexed(shape, loss) ==
  Collected(Left(IF shape = "indexed" THEN IndexTable ELSE <<>>, loss))

LEMMA ConcreteLookup ==
  ASSUME NEW loss, NEW n \in 1..Len(Types)
  PROVE  /\ Id(Types[n]) \in DOMAIN Concrete("concrete", loss) =>
              Concrete("concrete", loss)[Id(Types[n])] = Types[n]
         /\ Id(Types[n]) \in DOMAIN Concrete("concrete", loss) \/ Loses(loss, Types[n])
<1> DEFINE ids == [m \in 1..Len(Types) |-> Id(Types[m])]
<1>1. ConcreteTable = Keyed(ids)
  BY DEF ConcreteTable, Keyed
<1>2. \A m \in 1..Len(Types) : ids[m] = Id(Types[m]) /\ ids[m] # None
  BY ProgramsAssumption
<1>3. \A m, k \in 1..Len(Types) : ids[m] = ids[k] => Types[m] = Types[k]
  BY DEF Id
<1> HIDE DEF ids
<1>4. \A m \in 1..Len(Types) :
        /\ ids[m] \in DOMAIN Collected(Left(Keyed(ids), loss)) =>
             Collected(Left(Keyed(ids), loss))[ids[m]] = Types[m]
        /\ ids[m] \in DOMAIN Collected(Left(Keyed(ids), loss)) \/ Loses(loss, Types[m])
  BY <1>2, <1>3, LookedUp
<1>5. Concrete("concrete", loss) = Collected(Left(Keyed(ids), loss))
  BY <1>1 DEF Concrete
<1> QED
  BY <1>2, <1>4, <1>5

LEMMA IndexedLookup ==
  ASSUME NEW loss, NEW n \in 1..Len(Types)
  PROVE  /\ n \in DOMAIN Indexed("indexed", loss) => Indexed("indexed", loss)[n] = Types[n]
         /\ n \in DOMAIN Indexed("indexed", loss) \/ Loses(loss, Types[n])
<1> DEFINE numbers == [m \in 1..Len(Types) |-> m]
<1>1. IndexTable = Keyed(numbers)
  BY DEF IndexTable, Keyed
<1>2. \A m \in 1..Len(Types) : numbers[m] = m /\ numbers[m] # None
  BY BuildsAssumption, TypesFacts
<1>3. \A m, k \in 1..Len(Types) : numbers[m] = numbers[k] => Types[m] = Types[k]
  OBVIOUS
<1> HIDE DEF numbers
<1>4. \A m \in 1..Len(Types) :
        /\ numbers[m] \in DOMAIN Collected(Left(Keyed(numbers), loss)) =>
             Collected(Left(Keyed(numbers), loss))[numbers[m]] = Types[m]
        /\ numbers[m] \in DOMAIN Collected(Left(Keyed(numbers), loss)) \/ Loses(loss, Types[m])
  BY <1>2, <1>3, LookedUp
<1>5. Indexed("indexed", loss) = Collected(Left(Keyed(numbers), loss))
  BY <1>1 DEF Indexed
<1> QED
  BY <1>2, <1>4, <1>5

(* A reference to a type resolves to it, and fails only if it is lost.     *)
Resolves(name, t, loss) == (name = t) \/ (name = Error /\ Loses(loss, t))

LEMMA ReferencesResolve ==
  ASSUME NEW shape \in Shapes, NEW loss, NEW t \in {Types[n] : n \in 1..Len(Types)}
  PROVE  /\ Resolves(TypeName(InputRef(shape, t), Concrete(shape, loss), Indexed(shape, loss)),
                     t, loss)
         /\ Resolves(TypeName(OutputRef(shape, t), Concrete(shape, loss), Indexed(shape, loss)),
                     t, loss)
         /\ OutputRef(shape, t) # None
<1> DEFINE C == Concrete(shape, loss)
           I == Indexed(shape, loss)
           at == CHOOSE n \in 1..Len(Types) : Types[n] = t
<1>1. at \in 1..Len(Types) /\ Types[at] = t
  OBVIOUS
<1>2. None \notin {Id(t), ById(Id(t)), ByType(NamedType(t)), ByType(TypeIndex(at))}
  BY <1>1, ProgramsAssumption
<1> HIDE DEF at, C, I
<1>3. CASE shape = "concrete"
  <2>1. /\ Id(t) \in DOMAIN C => C[Id(t)] = t
        /\ Id(t) \in DOMAIN C \/ Loses(loss, t)
    BY <1>1, <1>3, ConcreteLookup DEF C
  <2>2. InputRef(shape, t) = ByConcreteId(Id(t)) /\ OutputRef(shape, t) = ById(Id(t))
    BY <1>3 DEF InputRef, OutputRef
  <2>3. TypeName(ByConcreteId(Id(t)), C, I) = Get(C, Id(t))
    BY <1>2 DEF TypeName, ByConcreteId
  <2>4. TypeName(ById(Id(t)), C, I) = Get(C, Id(t))
    BY <1>2 DEF TypeName, ById, NoType, Get
  <2>5. Resolves(Get(C, Id(t)), t, loss)
    BY <2>1 DEF Resolves, Get
  <2> QED
    BY <1>2, <2>2, <2>3, <2>4, <2>5 DEF C, I
<1>4. CASE shape = "named"
  <2>1. InputRef(shape, t) = ByType(NamedType(t)) /\ OutputRef(shape, t) = ByType(NamedType(t))
    BY <1>4 DEF InputRef, OutputRef
  <2>2. TypeName(ByType(NamedType(t)), C, I) = t
    BY DEF TypeName, ByType, NamedType
  <2> QED
    BY <1>2, <2>1, <2>2 DEF C, I, Resolves
<1>5. CASE shape = "indexed"
  <2>1. /\ at \in DOMAIN I => I[at] = t
        /\ at \in DOMAIN I \/ Loses(loss, t)
    BY <1>1, <1>5, IndexedLookup DEF I
  <2>2. InputRef(shape, t) = ByType(TypeIndex(at)) /\ OutputRef(shape, t) = ByType(TypeIndex(at))
    BY <1>5 DEF InputRef, OutputRef, at
  <2>3. TypeName(ByType(TypeIndex(at)), C, I) = Get(I, at)
    BY DEF TypeName, ByType, TypeIndex
  <2>4. Resolves(Get(I, at), t, loss)
    BY <2>1 DEF Resolves, Get
  <2> QED
    BY <1>2, <2>2, <2>3, <2>4 DEF C, I
<1> QED
  BY <1>3, <1>4, <1>5 DEF Shapes

LEMMA UsedTypes ==
  ASSUME NEW p \in Programs, NEW n \in 1..Len(p)
  PROVE  /\ \A k \in 1..Len(p[n].inputs) :
              /\ p[n].inputs[k].type_name \in TypesOf(p)
              /\ p[n].inputs[k].type_name \in {Types[m] : m \in 1..Len(Types)}
         /\ p[n].output # None => /\ p[n].output \in TypesOf(p)
                                  /\ p[n].output \in {Types[m] : m \in 1..Len(Types)}
<1>1. TypesOf(p) \ {None} \subseteq {Types[m] : m \in 1..Len(Types)} /\ None \notin STRING
  BY ProgramsAssumption
<1>2. ASSUME NEW k \in 1..Len(p[n].inputs)
      PROVE  p[n].inputs[k].type_name \in STRING /\ p[n].inputs[k].type_name \in TypesOf(p)
  <2>1. p[n].inputs \in Seq([name : STRING, type_name : STRING])
    BY ProgramFacts
  <2>2. p[n].inputs[k] \in [name : STRING, type_name : STRING]
    BY <2>1, ElementFacts
  <2>3. p[n].inputs[k].type_name \in UNION { {p[m].inputs[j].type_name : j \in 1..Len(p[m].inputs)} :
                                              m \in 1..Len(p)}
    OBVIOUS
  <2> QED
    BY <2>2, <2>3 DEF TypesOf
<1>3. p[n].output \in TypesOf(p)
  BY DEF TypesOf
<1> QED
  BY <1>1, <1>2, <1>3

LEMMA ProgramIsRead ==
  ASSUME NEW p \in Programs, NEW shape \in Shapes, NEW loss, NEW document, NEW Nameless,
         Describes(document, p, shape, Nameless),
         document.concreteTypes = Left(IF shape = "concrete" THEN ConcreteTable ELSE <<>>, loss),
         document.types = Left(IF shape = "indexed" THEN IndexTable ELSE <<>>, loss)
  PROVE  \/ FromJson(document) = [functions |-> p]
         \/ /\ FromJson(document) = Error
            /\ Nameless # {} \/ \E t \in TypesOf(p) : Loses(loss, t)
<1> DEFINE T(v) == TypeName(v, Concrete(shape, loss), Indexed(shape, loss))
           ds == document.functions
           ins(d) == [k \in 1..Len(d.inputs) |-> [ name |-> d.inputs[k].name,
                                                   type_name |-> T(d.inputs[k].type) ]]
           Read(d) == [ name |-> d.name, inputs |-> ins(d),
                        output |-> IF d.output = None THEN None ELSE T(d.output) ]
           fs == [n \in 1..Len(ds) |-> Read(ds[n])]
<1>1. FromJson(document) = IF \E n \in 1..Len(fs) : Malformed(fs[n]) THEN Error
                           ELSE [functions |-> fs]
  BY DEF FromJson, Concrete, Indexed
<1>2. Len(p) \in Nat /\ p = [n \in 1..Len(p) |-> p[n]]
  BY ProgramFacts
<1>3. ds = [n \in 1..Len(p) |-> ds[n]]
  BY DEF Describes
<1>4. Len(ds) = Len(p)
  <2> HIDE DEF ds
  <2> QED
    BY <1>2, <1>3
<1>5. Len(fs) = Len(p) /\ \A n \in 1..Len(p) : fs[n] = Read(ds[n])
  <2> HIDE DEF Read, ds
  <2> QED
    BY <1>2, <1>4
<1>6. fs = [n \in 1..Len(p) |-> fs[n]]
  <2> HIDE DEF Read, ds
  <2> QED
    BY <1>4
<1>7. ASSUME NEW n \in 1..Len(p)
      PROVE  /\ fs[n] = [name |-> fs[n].name, inputs |-> fs[n].inputs, output |-> fs[n].output]
             /\ fs[n].name = IF n \in Nameless THEN None ELSE p[n].name
             /\ fs[n].inputs = [k \in 1..Len(p[n].inputs) |-> fs[n].inputs[k]]
             /\ Len(fs[n].inputs) = Len(p[n].inputs)
             /\ \A k \in 1..Len(p[n].inputs) :
                  /\ fs[n].inputs[k] = [ name |-> p[n].inputs[k].name,
                                         type_name |-> fs[n].inputs[k].type_name ]
                  /\ Resolves(fs[n].inputs[k].type_name, p[n].inputs[k].type_name, loss)
             /\ IF p[n].output = None THEN fs[n].output = None
                ELSE Resolves(fs[n].output, p[n].output, loss)
  <2> DEFINE d == ds[n]
  <2>1. /\ d.name = IF n \in Nameless THEN None ELSE p[n].name
        /\ Len(d.inputs) = Len(p[n].inputs)
        /\ \A k \in 1..Len(p[n].inputs) :
             /\ d.inputs[k].name = p[n].inputs[k].name
             /\ d.inputs[k].type = InputRef(shape, p[n].inputs[k].type_name)
        /\ d.output = IF p[n].output = None THEN None ELSE OutputRef(shape, p[n].output)
    BY DEF Describes
  <2>2. fs[n] = Read(d)
    BY <1>5
  <2> HIDE DEF T, ds, fs, d
  <2>3. \A k \in 1..Len(p[n].inputs) :
          /\ ins(d)[k] = [ name |-> p[n].inputs[k].name, type_name |-> T(d.inputs[k].type) ]
          /\ T(d.inputs[k].type) = ins(d)[k].type_name
    BY <2>1
  <2>4. ins(d) = [k \in 1..Len(p[n].inputs) |-> ins(d)[k]]
    BY <2>1
  <2>9. Len(ins(d)) = Len(p[n].inputs)
    <3>1. Len(p[n].inputs) \in Nat
      BY ProgramFacts
    <3> QED
      BY <2>1, <3>1
  <2>5. \A k \in 1..Len(p[n].inputs) :
          Resolves(T(d.inputs[k].type), p[n].inputs[k].type_name, loss)
    BY <2>1, UsedTypes, ReferencesResolve DEF T
  <2>6. ASSUME p[n].output # None
        PROVE  d.output # None /\ Resolves(T(d.output), p[n].output, loss)
    <3>1. p[n].output \in {Types[m] : m \in 1..Len(Types)}
      BY <2>6, UsedTypes
    <3>2. d.output = OutputRef(shape, p[n].output)
      BY <2>1, <2>6
    <3> QED
      BY <3>1, <3>2, ReferencesResolve DEF T
  <2> HIDE DEF ins
  <2>7. /\ fs[n].name = d.name /\ fs[n].inputs = ins(d)
        /\ fs[n].output = IF d.output = None THEN None ELSE T(d.output)
        /\ fs[n] = [name |-> fs[n].name, inputs |-> fs[n].inputs, output |-> fs[n].output]
    BY <2>2
  <2>8. IF p[n].output = None THEN fs[n].output = None
        ELSE Resolves(fs[n].output, p[n].output, loss)
    BY <2>1, <2>6, <2>7
  <2> QED
    BY <2>1, <2>3, <2>4, <2>5, <2>7, <2>8, <2>9
<1> HIDE DEF fs
<1>8. ASSUME NEW n \in 1..Len(p), Malformed(fs[n])
      PROVE  Nameless # {} \/ \E t \in TypesOf(p) : Loses(loss, t)
  <2>1. CASE fs[n].name = None
    <3>1. p[n].name \in STRING /\ None \notin STRING
      BY ProgramFacts, ProgramsAssumption
    <3> QED
      BY <1>7, <2>1, <3>1
  <2>2. CASE fs[n].output = Error
    <3>1. Error # None
      BY ErrorAssumption
    <3>2. p[n].output # None /\ Resolves(fs[n].output, p[n].output, loss)
      BY <1>7, <2>2, <3>1
    <3>3. p[n].output \in {Types[m] : m \in 1..Len(Types)} /\ p[n].output \in TypesOf(p)
      BY <3>2, UsedTypes
    <3>4. p[n].output # Error
      BY <3>3, TypesFacts
    <3> QED
      BY <2>2, <3>2, <3>3, <3>4 DEF Resolves
  <2>3. ASSUME NEW k \in 1..Len(fs[n].inputs), fs[n].inputs[k].type_name = Error
        PROVE  \E t \in TypesOf(p) : Loses(loss, t)
    <3>1. Len(fs[n].inputs) = Len(p[n].inputs)
      BY <1>7
    <3>2. Resolves(fs[n].inputs[k].type_name, p[n].inputs[k].type_name, loss)
      BY <1>7, <3>1
    <3>3. /\ p[n].inputs[k].type_name \in {Types[m] : m \in 1..Len(Types)}
          /\ p[n].inputs[k].type_name \in TypesOf(p)
      BY <3>1, UsedTypes
    <3>4. p[n].inputs[k].type_name # Error
      BY <3>3, TypesFacts
    <3> QED
      BY <2>3, <3>2, <3>3, <3>4 DEF Resolves
  <2> QED
    BY <1>8, <2>1, <2>2, <2>3 DEF Malformed
<1>9. ASSUME NEW n \in 1..Len(p), ~Malformed(fs[n])
      PROVE  fs[n] = p[n]
  <2>1. fs[n].name = p[n].name
    BY <1>7, <1>9 DEF Malformed
  <2>2. fs[n].output = p[n].output
    BY <1>7, <1>9 DEF Malformed, Resolves
  <2>3. fs[n].inputs = p[n].inputs
    <3> DEFINE qs == p[n].inputs
    <3>1. qs \in Seq([name : STRING, type_name : STRING])
      BY ProgramFacts
    <3>2. Len(fs[n].inputs) = Len(qs)
      BY <1>7
    <3>3. ASSUME NEW k \in 1..Len(qs)
          PROVE  fs[n].inputs[k] = qs[k]
      <4>1. qs[k] \in [name : STRING, type_name : STRING]
        BY <3>1, ElementFacts
      <4>2. fs[n].inputs[k].type_name = qs[k].type_name
        <5>1. Resolves(fs[n].inputs[k].type_name, qs[k].type_name, loss)
          BY <1>7
        <5>2. k \in 1..Len(fs[n].inputs)
          BY <3>2
        <5>3. fs[n].inputs[k].type_name # Error
          BY <1>9, <5>2 DEF Malformed
        <5> QED
          BY <5>1, <5>3 DEF Resolves
      <4>3. fs[n].inputs[k] = [name |-> qs[k].name, type_name |-> qs[k].type_name]
        BY <1>7, <4>2
      <4> QED
        BY <4>1, <4>3
    <3>4. qs = [k \in 1..Len(qs) |-> qs[k]]
      BY <3>1
    <3>5. fs[n].inputs = [k \in 1..Len(qs) |-> fs[n].inputs[k]]
      BY <1>7
    <3>6. [k \in 1..Len(qs) |-> fs[n].inputs[k]] = [k \in 1..Len(qs) |-> qs[k]]
      BY <3>3
    <3> QED
      BY <3>4, <3>5, <3>6
  <2>4. p[n] = [name |-> p[n].name, inputs |-> p[n].inputs, output |-> p[n].output]
    BY ProgramFacts
  <2>5. fs[n] = [name |-> fs[n].name, inputs |-> fs[n].inputs, output |-> fs[n].output]
    BY <1>7
  <2> QED
    BY <2>1, <2>2, <2>3, <2>4, <2>5
<1>10. CASE \E n \in 1..Len(p) : Malformed(fs[n])
  BY <1>1, <1>5, <1>8, <1>10
<1>11. CASE ~\E n \in 1..Len(p) : Malformed(fs[n])
  <2>1. [n \in 1..Len(p) |-> fs[n]] = [n \in 1..Len(p) |-> p[n]]
    BY <1>9, <1>11
  <2>2. fs = p
    BY <1>2, <1>6, <2>1
  <2> QED
    BY <1>1, <1>5, <1>11, <2>2
<1> QED
  BY <1>10, <1>11

(* The document of a program that has lost something still describes it.   *)
LEMMA DamagedDescribes ==
  ASSUME NEW p \in Programs, NEW shape \in Shapes, NEW loss \in Losses(p)
  PROVE  LET document == Damaged(Document(p, shape), loss)
         IN  /\ Describes(document, p, shape, IF loss.kind = "name" THEN {loss.at} ELSE {})
             /\ document.concreteTypes =
                  Left(IF shape = "concrete" THEN ConcreteTable ELSE <<>>, loss)
             /\ document.types = Left(IF shape = "indexed" THEN IndexTable ELSE <<>>, loss)
<1> DEFINE D == Document(p, shape)
           document == Damaged(D, loss)
<1>1. /\ Describes(D, p, shape, {})
      /\ D.concreteTypes = IF shape = "concrete" THEN ConcreteTable ELSE <<>>
      /\ D.types = IF shape = "indexed" THEN IndexTable ELSE <<>>
      /\ DOMAIN D = {"concreteTypes", "types", "functions"}
  BY ShapeIs
<1> HIDE DEF D
<1>2. CASE loss = Nothing
  <2>1. loss.kind = "nothing"
    BY <1>2 DEF Nothing
  <2>2. document = D
    BY <2>1 DEF Damaged
  <2> QED
    BY <1>1, <2>1, <2>2 DEF Left, D
<1>3. CASE \E type \in TypesOf(p) \union {Types[1]} : loss = Entry(type)
  <2>1. loss.kind = "entry"
    BY <1>3 DEF Entry
  <2>2. document = [D EXCEPT !.concreteTypes = Without(@, loss.type),
                             !.types = Without(@, loss.type)]
    BY <2>1 DEF Damaged
  <2>3. /\ document.concreteTypes = Without(D.concreteTypes, loss.type)
        /\ document.types = Without(D.types, loss.type)
        /\ document.functions = D.functions
    BY <1>1, <2>2
  <2>4. Describes(document, p, shape, {})
    BY <1>1, <2>3 DEF Describes
  <2> QED
    BY <1>1, <2>1, <2>3, <2>4 DEF Left, D
<1>4. CASE \E n \in 1..Len(p) : loss = NameOf(n)
  <2>1. loss.kind = "name" /\ loss.at \in 1..Len(p)
    BY <1>4 DEF NameOf
  <2>2. document = [D EXCEPT !.functions[loss.at].name = None]
    BY <2>1 DEF Damaged
  <2>3. /\ document.concreteTypes = D.concreteTypes /\ document.types = D.types
        /\ document.functions = [D.functions EXCEPT ![loss.at].name = None]
    BY <1>1, <2>2
  <2> DEFINE fs == D.functions
             gs == document.functions
  <2>4. /\ fs = [n \in 1..Len(p) |-> fs[n]]
        /\ \A n \in 1..Len(p) :
             fs[n] = [name |-> fs[n].name, inputs |-> fs[n].inputs, output |-> fs[n].output]
    BY <1>1 DEF Describes
  <2>5. gs = [fs EXCEPT ![loss.at].name = None]
    BY <2>3
  <2> HIDE DEF fs, gs
  <2>6. /\ gs = [n \in 1..Len(p) |-> gs[n]]
        /\ \A n \in 1..Len(p) :
             gs[n] = IF n = loss.at THEN [fs[n] EXCEPT !.name = None] ELSE fs[n]
    BY <2>4, <2>5
  <2>7. ASSUME NEW n \in 1..Len(p)
        PROVE  /\ gs[n] = [name |-> gs[n].name, inputs |-> gs[n].inputs, output |-> gs[n].output]
               /\ gs[n].name = IF n = loss.at THEN None ELSE fs[n].name
               /\ gs[n].inputs = fs[n].inputs /\ gs[n].output = fs[n].output
    BY <2>4, <2>6
  <2>8. Describes(document, p, shape, {loss.at})
    <3>1. \A n \in 1..Len(p) :
            /\ fs[n].name = p[n].name
            /\ Len(fs[n].inputs) = Len(p[n].inputs)
            /\ \A k \in 1..Len(p[n].inputs) :
                 /\ fs[n].inputs[k].name = p[n].inputs[k].name
                 /\ fs[n].inputs[k].type = InputRef(shape, p[n].inputs[k].type_name)
            /\ fs[n].output = IF p[n].output = None THEN None ELSE OutputRef(shape, p[n].output)
      BY <1>1 DEF Describes, fs
    <3>2. \A n \in 1..Len(p) :
            /\ gs[n] = [name |-> gs[n].name, inputs |-> gs[n].inputs, output |-> gs[n].output]
            /\ gs[n].name = IF n \in {loss.at} THEN None ELSE p[n].name
            /\ Len(gs[n].inputs) = Len(p[n].inputs)
            /\ \A k \in 1..Len(p[n].inputs) :
                 /\ gs[n].inputs[k].name = p[n].inputs[k].name
                 /\ gs[n].inputs[k].type = InputRef(shape, p[n].inputs[k].type_name)
            /\ gs[n].output = IF p[n].output = None THEN None ELSE OutputRef(shape, p[n].output)
      BY <2>7, <3>1
    <3> QED
      BY <2>6, <3>2 DEF Describes, gs
  <2> QED
    BY <1>1, <2>1, <2>3, <2>8 DEF Left, D
<1> QED
  BY <1>2, <1>3, <1>4 DEF Losses

LEMMA DocumentIsRead ==
  ASSUME NEW p \in Programs, NEW shape \in Shapes, NEW loss \in Losses(p)
  PROVE  LET schema == FromJson(Damaged(Document(p, shape), loss))
         IN  \/ schema = [functions |-> p]
             \/ /\ schema = Error /\ loss # Nothing
                /\ loss.kind = "entry" => loss.type \in TypesOf(p)
<1> DEFINE document == Damaged(Document(p, shape), loss)
           Nameless == IF loss.kind = "name" THEN {loss.at} ELSE {}
<1>1. /\ Describes(document, p, shape, Nameless)
      /\ document.concreteTypes =
           Left(IF shape = "concrete" THEN ConcreteTable ELSE <<>>, loss)
      /\ document.types = Left(IF shape = "indexed" THEN IndexTable ELSE <<>>, loss)
  BY DamagedDescribes
<1> HIDE DEF document
<1>2. \/ FromJson(document) = [functions |-> p]
      \/ /\ FromJson(document) = Error
         /\ Nameless # {} \/ \E t \in TypesOf(p) : Loses(loss, t)
  <2> HIDE DEF Nameless
  <2> QED
    BY <1>1, ProgramIsRead
<1>3. Nothing.kind = "nothing"
  BY DEF Nothing
<1>4. CASE Nameless # {}
  BY <1>2, <1>3, <1>4 DEF document
<1>5. CASE \E t \in TypesOf(p) : Loses(loss, t)
  BY <1>2, <1>3, <1>5 DEF document, Loses
<1> QED
  BY <1>2, <1>4, <1>5 DEF document

LEMMA LoadAbiReads ==
  ASSUME LoadAbi
  PROVE  /\ program' \in Programs /\ lost' \in Losses(program')
         /\ \/ abi' = [functions |-> program'] /\ abi' \notin {None, Error}
            \/ /\ abi' = Error /\ lost' # Nothing
               /\ lost'.kind = "entry" => lost'.type \in TypesOf(program')
<1>0. PICK p \in Programs : \E shape \in Shapes, loss \in Losses(p) :
        /\ program' = p /\ lost' = loss
        /\ abi' = FromJson(Damaged(Document(p, shape), loss))
  BY DEF LoadAbi
<1>1. PICK shape \in Shapes, loss \in Losses(p) :
        /\ program' = p /\ lost' = loss
        /\ abi' = FromJson(Damaged(Document(p, shape), loss))
  BY <1>0
<1>2. [functions |-> p] \notin {None, Error}
  BY ProgramsAssumption
<1>3. \/ abi' = [functions |-> p]
      \/ /\ abi' = Error /\ loss # Nothing
         /\ loss.kind = "entry" => loss.type \in TypesOf(p)
  BY <1>1, DocumentIsRead
<1> QED
  BY <1>1, <1>2, <1>3

(* The three shapes of an ABI read as the program they are of, whatever    *)
(* the program, and a document that has lost something reads as its        *)
(* program or not at all (abi_decoder.rs:42-49).                           *)
THEOREM SchemaIsAlwaysProgram == Spec => []SchemaIsProgram
<1>1. Init => SchemaIsProgram
  BY ErrorAssumption DEF Init, SchemaIsProgram
<1>2. SchemaIsProgram /\ [Next]_vars => SchemaIsProgram'
  <2> SUFFICES ASSUME SchemaIsProgram, [Next]_vars PROVE SchemaIsProgram'
    OBVIOUS
  <2>1. CASE LoadAbi
    <3>1. [functions |-> program'].functions = program'
      OBVIOUS
    <3> QED
      BY <2>1, <3>1, LoadAbiReads DEF SchemaIsProgram
  <2>2. CASE UNCHANGED abiVars
    BY <2>2 DEF SchemaIsProgram, abiVars
  <2>3. CASE NoAbi \/ LoadSymbols \/ NoSymbols \/ LogData \/ Done \/ UNCHANGED vars
    BY <2>2, <2>3 DEF NoAbi, LoadSymbols, NoSymbols, LogData, Done, vars
  <2> QED
    BY <2>1, <2>3 DEF Next
<1> QED
  BY <1>1, <1>2, PTL DEF Spec

------------------------------------------------------------------------------
(* The debug symbols: every instruction of the build leads to its place.   *)

IsInserted(info, entries, kept) ==
  /\ info = [i \in {entries[n].index : n \in kept} |-> info[i]]
  /\ \A n \in kept : info[entries[n].index] = entries[n].loc

LEMMA InsertedIs ==
  ASSUME NEW entries, NEW kept, Len(entries) \in Nat, kept \subseteq 1..Len(entries),
         \A n, m \in kept : entries[n].index = entries[m].index => n = m
  PROVE  IsInserted(Symbols!Inserted(entries, kept), entries, kept)
<1> DEFINE info == Symbols!Inserted(entries, kept)
           Last(i) == CHOOSE n \in kept :
                        entries[n].index = i /\ \A m \in kept : m > n => entries[m].index # i
<1>1. info = [i \in {entries[n].index : n \in kept} |-> entries[Last(i)].loc]
  BY DEF Symbols!Inserted
<1>2. ASSUME NEW n \in kept
      PROVE  Last(entries[n].index) = n
  <2> DEFINE i == entries[n].index
  <2>1. \A m \in kept : m > n => entries[m].index # i
    OBVIOUS
  <2>2. Last(i) \in kept /\ entries[Last(i)].index = i
    BY <2>1
  <2> QED
    BY <2>2
<1> HIDE DEF info, Last
<1>3. info = [i \in {entries[n].index : n \in kept} |-> info[i]]
  BY <1>1
<1>4. \A n \in kept : info[entries[n].index] = entries[n].loc
  BY <1>1, <1>2
<1> QED
  BY <1>3, <1>4 DEF info, IsInserted

LEMMA BuildFacts ==
  ASSUME NEW b \in Builds
  PROVE  /\ Len(b) \in Nat /\ Len(b) >= 1
         /\ \A n \in 1..Len(b) :
              /\ b[n].index \in Nat /\ b[n].file \in 1..Len(Sources)
              /\ b[n].line \in Nat /\ b[n].column \in Nat /\ b[n].column # 0
         /\ \A n, m \in 1..Len(b) : b[n].index = b[m].index => n = m
         /\ \A n \in 1..Len(b) : b[1].index <= b[n].index
<1> DEFINE E == [ index : Nat, file : 1..Len(Sources), line : Nat, column : Nat \ {0} ]
<1>1. b \in Seq(E) /\ b # <<>> /\ \A n \in 1..Len(b) : \A m \in 1..(n - 1) : b[m].index < b[n].index
  BY BuildsAssumption
<1>2. \A e \in E : /\ e.index \in Nat /\ e.file \in 1..Len(Sources)
                   /\ e.line \in Nat /\ e.column \in Nat /\ e.column # 0
  OBVIOUS
<1> HIDE DEF E
<1>3. Len(b) \in Nat /\ Len(b) >= 1 /\ \A n \in 1..Len(b) : b[n] \in E
  BY <1>1, ElementFacts, EmptyBytes
<1>4. \A n \in 1..Len(b) : b[n].index \in Nat
  BY <1>2, <1>3
<1>5. ASSUME NEW n \in 1..Len(b), NEW m \in 1..Len(b), b[n].index = b[m].index
      PROVE  n = m
  <2>1. ASSUME n < m PROVE FALSE
    <3>1. n \in 1..(m - 1)
      BY <2>1
    <3>2. b[n].index < b[m].index
      BY <1>1, <3>1
    <3> QED
      BY <1>4, <1>5, <3>2
  <2>2. ASSUME m < n PROVE FALSE
    <3>1. m \in 1..(n - 1)
      BY <2>2
    <3>2. b[m].index < b[n].index
      BY <1>1, <3>1
    <3> QED
      BY <1>4, <1>5, <3>2
  <2> QED
    BY <2>1, <2>2
<1>6. ASSUME NEW n \in 1..Len(b)
      PROVE  b[1].index <= b[n].index
  <2>1. CASE n = 1
    BY <1>4, <2>1
  <2>2. CASE n # 1
    <3>1. 1 \in 1..(n - 1) /\ 1 \in 1..Len(b)
      BY <1>3, <2>2
    <3>2. b[1].index < b[n].index
      BY <1>1, <3>1
    <3> QED
      BY <1>4, <3>1, <3>2
  <2> QED
    BY <2>1, <2>2
<1> QED
  BY <1>2, <1>3, <1>5, <1>6

IsPlaceOf(loc, entry, h) ==
  /\ loc \in Place
  /\ loc.line = entry.line /\ loc.column = entry.column
  /\ h # None \/ Sources[entry.file].stored = Sources[entry.file].path
       => loc.path = Sources[entry.file].path

(* The map of the build's first entries, each path whole if h is a home.   *)
Maps(info, b, count, h) ==
  /\ info = [i \in {b[n].index : n \in 1..count} |-> info[i]]
  /\ \A n \in 1..count : IsPlaceOf(info[b[n].index], b[n], h)

LEMMA MapsFacts ==
  ASSUME NEW b \in Builds, NEW count \in 0..Len(b), NEW info, NEW h,
         Maps(info, b, count, h)
  PROVE  /\ info # Error
         /\ DOMAIN info = {b[n].index : n \in 1..count}
         /\ count >= 1 => DOMAIN info # {} /\ Symbols!First(info).line = b[1].line
<1> DEFINE I == {b[n].index : n \in 1..count}
<1>1. info = [i \in I |-> info[i]] /\ \A n \in 1..count : IsPlaceOf(info[b[n].index], b[n], h)
  BY DEF Maps
<1>2. \A i \in I : info[i] \in Place
  BY <1>1 DEF IsPlaceOf
<1>3. info \in [I -> Place]
  <2> HIDE DEF I
  <2> QED
    BY <1>1, <1>2
<1>4. I \in SUBSET UNION { {c[n].index : n \in 1..Len(c)} : c \in Builds }
  <2>1. \A n \in 1..count : n \in 1..Len(b)
    BY BuildFacts
  <2>2. I \subseteq {b[n].index : n \in 1..Len(b)}
    BY <2>1
  <2> QED
    BY <2>2
<1>5. info # Error
  <2> HIDE DEF I
  <2> QED
    BY <1>3, <1>4, BuildsAssumption
<1>6. DOMAIN info = I
  <2> HIDE DEF I
  <2> QED
    BY <1>1
<1>7. ASSUME count >= 1
      PROVE  DOMAIN info # {} /\ Symbols!First(info).line = b[1].line
  <2> DEFINE at == b[1].index
  <2>1. at \in DOMAIN info /\ at \in Nat
    BY <1>6, <1>7, BuildFacts
  <2>2. \A j \in DOMAIN info : at <= j /\ j \in Nat
    BY <1>6, BuildFacts
  <2>3. (CHOOSE i \in DOMAIN info : \A j \in DOMAIN info : i <= j) = at
    <3> HIDE DEF at
    <3>1. \A i \in DOMAIN info : (\A j \in DOMAIN info : i <= j) => i = at
      BY <2>1, <2>2
    <3>2. at \in DOMAIN info /\ \A j \in DOMAIN info : at <= j
      BY <2>1, <2>2
    <3> QED
      BY <3>1, <3>2
  <2>4. IsPlaceOf(info[at], b[1], h)
    <3>1. 1 \in 1..count
      BY <1>7, BuildFacts
    <3> QED
      BY <1>1, <3>1
  <2> QED
    <3>1. Symbols!First(info) = info[at]
      BY <2>3 DEF Symbols!First
    <3> HIDE DEF at
    <3> QED
      BY <2>1, <2>4, <3>1 DEF IsPlaceOf
<1> QED
  BY <1>5, <1>6, <1>7

Forc == ".forc"

LEMMA SourceFacts ==
  ASSUME NEW n \in 1..Len(Sources)
  PROVE  LET file == Sources[n]
         IN  /\ file.path = [absolute |-> TRUE, parts |-> file.path.parts]
             /\ file.path.parts \in Seq(STRING) /\ file.path.parts # <<>>
             /\ file.path \in Path /\ file.stored \in Path
             /\ file.stored.absolute \in BOOLEAN /\ file.stored.parts \in Seq(STRING)
             /\ \/ file.stored = file.path
                \/ /\ ~file.stored.absolute
                   /\ file.path.parts = Append(Home.parts, Forc) \o file.stored.parts
<1>1. Sources \in Seq([path : Path, stored : Path])
  BY SourcesAssumption
<1>2. Sources[n] \in [path : Path, stored : Path]
  BY <1>1, ElementFacts
<1>3. Sources[n].path \in Path /\ Sources[n].stored \in Path
  BY <1>2
<1>4. \A path \in Path : /\ path = [absolute |-> path.absolute, parts |-> path.parts]
                         /\ path.absolute \in BOOLEAN /\ path.parts \in Seq(STRING)
  BY DEF Path
<1>5. /\ Sources[n].path.absolute /\ Sources[n].path.parts # <<>>
      /\ \/ Sources[n].stored = Sources[n].path
         \/ /\ ~Sources[n].stored.absolute
            /\ Sources[n].path.parts = Append(Home.parts, Forc) \o Sources[n].stored.parts
  BY SourcesAssumption, Zenon DEF Forc
<1>6. Sources[n].path.absolute = TRUE
  BY <1>3, <1>4, <1>5
<1> QED
  BY <1>3, <1>4, <1>5, <1>6

LEMMA PathFacts ==
  /\ \A a \in BOOLEAN, parts \in Seq(STRING) : [absolute |-> a, parts |-> parts] \in Path
  /\ Home = [absolute |-> Home.absolute, parts |-> Home.parts]
  /\ Home.absolute = TRUE /\ Home.parts \in Seq(STRING)
  /\ Home # None
<1>1. Home \in Path /\ Home.absolute /\ None \notin Path
  BY SourcesAssumption
<1>2. \A path \in Path : /\ path = [absolute |-> path.absolute, parts |-> path.parts]
                         /\ path.absolute \in BOOLEAN /\ path.parts \in Seq(STRING)
  BY DEF Path
<1>3. Home.absolute = TRUE /\ Home.parts \in Seq(STRING)
  BY <1>1, <1>2
<1>5. \A a \in BOOLEAN, parts \in Seq(STRING) : [absolute |-> a, parts |-> parts] \in Path
  BY DEF Path
<1>6. Home = [absolute |-> Home.absolute, parts |-> Home.parts]
  BY <1>1, <1>2
<1> QED
  BY <1>1, <1>3, <1>5, <1>6

Moved(path, parts) == [path EXCEPT !.parts = parts]

LEMMA PartsMoved ==
  ASSUME NEW path, NEW part
  PROVE  [path EXCEPT !.parts = Append(@, part)] = Moved(path, Append(path.parts, part))
BY DEF Moved

LEMMA MovedFacts ==
  ASSUME NEW path \in Path, NEW parts
  PROVE  Moved(path, parts).absolute = path.absolute /\ Moved(path, parts).parts = parts
BY DEF Moved, Path

(* The path the JSON form gives for a file of the sources. *)
LEMMA StoredResolves ==
  ASSUME NEW n \in 1..Len(Sources), NEW document, NEW h \in {None, Home},
         Sources[n].stored # Sources[n].path => Sources[n].stored \in document.dependency_paths
  PROVE  /\ Symbols!Resolve(document, Sources[n].stored, h) \in Path
         /\ h # None \/ Sources[n].stored = Sources[n].path
              => Symbols!Resolve(document, Sources[n].stored, h) = Sources[n].path
<1> DEFINE s == Sources[n].stored
           path == Sources[n].path
           r == Symbols!Resolve(document, s, h)
<1>1. /\ path = [absolute |-> TRUE, parts |-> path.parts]
      /\ path \in Path /\ s \in Path /\ s.absolute \in BOOLEAN /\ s.parts \in Seq(STRING)
      /\ s = path \/ (~s.absolute /\ path.parts = Append(Home.parts, Forc) \o s.parts)
  BY SourceFacts
<1>2. s # path => s \in document.dependency_paths
  OBVIOUS
<1>3. r = IF ~s.absolute /\ h # None /\ s \in document.dependency_paths
            THEN Symbols!Join([h EXCEPT !.parts = Append(@, Forc)], s) ELSE s
  BY Zenon DEF Symbols!Resolve, Forc
<1> HIDE DEF s, path, r
<1>4. CASE s = path
  <2>1. s.absolute
    BY <1>1, <1>4
  <2> QED
    BY <1>1, <1>3, <1>4, <2>1 DEF s, path, r
<1>5. CASE s # path /\ h = None
  <2>1. r = s
    BY <1>3, <1>5
  <2> QED
    BY <1>1, <1>5, <2>1 DEF s, path, r
<1>6. CASE s # path /\ h # None
  <2>1. h = [absolute |-> Home.absolute, parts |-> Home.parts] /\ Home.absolute = TRUE
    BY <1>6, PathFacts
  <2>2. ~s.absolute /\ s \in document.dependency_paths
    BY <1>1, <1>2, <1>6
  <2>3. r = Symbols!Join([h EXCEPT !.parts = Append(@, Forc)], s)
    BY <1>3, <1>6, <2>2
  <2> DEFINE dir == [h EXCEPT !.parts = Append(@, Forc)]
  <2>4. dir.absolute = Home.absolute /\ dir.parts = Append(Home.parts, Forc)
    <3>1. h = Home /\ Home \in Path
      BY <1>6, SourcesAssumption
    <3>2. dir = Moved(h, Append(h.parts, Forc))
      BY PartsMoved
    <3> HIDE DEF dir
    <3> QED
      BY <3>1, <3>2, MovedFacts
  <2>5. r = [absolute |-> dir.absolute, parts |-> dir.parts \o s.parts]
    <3>1. r = Symbols!Join(dir, s)
      BY <2>3
    <3> HIDE DEF dir
    <3> QED
      BY <2>2, <3>1 DEF Symbols!Join
  <2>6. r = path
    <3> HIDE DEF dir
    <3>1. path.parts = dir.parts \o s.parts
      BY <1>1, <1>6, <2>4
    <3>2. path = [absolute |-> dir.absolute, parts |-> path.parts]
      BY <1>1, <2>1, <2>4
    <3> QED
      BY <2>5, <3>1, <3>2
  <2> QED
    BY <1>1, <2>6 DEF s, path, r
<1> QED
  BY <1>4, <1>5, <1>6

LEMMA JsonFacts ==
  ASSUME NEW b \in Builds
  PROVE  LET document == JsonOf(b)
         IN  /\ DOMAIN document = {"dependency_paths", "paths", "map"}
             /\ document.map = [n \in 1..Len(b) |->
                  [ key |-> b[n].index, path |-> b[n].file - 1,
                    line |-> b[n].line, column |-> b[n].column ]]
             /\ Len(document.paths) = Len(Sources)
             /\ \A n \in 1..Len(Sources) :
                  /\ document.paths[n] = Sources[n].stored
                  /\ Sources[n].stored # Sources[n].path =>
                       Sources[n].stored \in document.dependency_paths
<1> DEFINE document == JsonOf(b)
           stored == {Sources[n].stored : n \in {m \in 1..Len(Sources) :
                                                   Sources[m].stored # Sources[m].path}}
           paths == [n \in 1..Len(Sources) |-> Sources[n].stored]
           map == [n \in 1..Len(b) |-> [ key |-> b[n].index, path |-> b[n].file - 1,
                                         line |-> b[n].line, column |-> b[n].column ]]
<1>1. document = [dependency_paths |-> stored, paths |-> paths, map |-> map]
  BY DEF JsonOf, Symbols!ForcJson
<1>2. Len(Sources) \in Nat
  BY SourcesAssumption
<1>3. Len(paths) = Len(Sources) /\ \A n \in 1..Len(Sources) : paths[n] = Sources[n].stored
  BY <1>2
<1>4. \A n \in 1..Len(Sources) :
        Sources[n].stored # Sources[n].path => Sources[n].stored \in stored
  OBVIOUS
<1> HIDE DEF document, stored, paths, map
<1>5. /\ DOMAIN document = {"dependency_paths", "paths", "map"}
      /\ document.dependency_paths = stored /\ document.paths = paths /\ document.map = map
  BY <1>1
<1> QED
  BY <1>3, <1>4, <1>5 DEF document, map

(* What a file holds is loaded if it is a map of anything.                 *)
Loaded(info) == IF info = Error THEN Error ELSE IF DOMAIN info = {} THEN Error ELSE info

LEMMA LoadIs ==
  ASSUME NEW file, NEW h
  PROVE  /\ file.form = "json" =>
              Symbols!Load(file, h) = Loaded(Symbols!FromJson(file.content, h))
         /\ file.form = "dwarf" =>
              Symbols!Load(file, h) = Loaded(Symbols!FromRows(file.content))
         /\ file.form \notin {"json", "dwarf"} => Symbols!Load(file, h) = Error
         /\ Symbols!Load(file, h) # Error => DOMAIN Symbols!Load(file, h) # {}
<1> DEFINE info == CASE file.form = "json" -> Symbols!FromJson(file.content, h)
                     [] file.form = "dwarf" -> Symbols!FromRows(file.content)
                     [] OTHER -> Error
<1>1. Symbols!Load(file, h) = Loaded(info)
  BY DEF Symbols!Load, Loaded
<1>2. file.form = "json" => info = Symbols!FromJson(file.content, h)
  OBVIOUS
<1>3. file.form = "dwarf" => info = Symbols!FromRows(file.content)
  OBVIOUS
<1>4. file.form \notin {"json", "dwarf"} => info = Error
  OBVIOUS
<1> HIDE DEF info
<1>5. Loaded(Error) = Error
  BY DEF Loaded
<1>6. Loaded(info) # Error => DOMAIN Loaded(info) # {}
  BY DEF Loaded
<1> QED
  BY <1>1, <1>2, <1>3, <1>4, <1>5, <1>6

LEMMA JsonMaps ==
  ASSUME NEW b \in Builds, NEW h \in {None, Home}
  PROVE  Maps(Symbols!FromJson(JsonOf(b), h), b, Len(b), h)
<1> DEFINE document == JsonOf(b)
           map == document.map
           loc(n) == [ path |-> Symbols!Resolve(document, document.paths[map[n].path + 1], h),
                       line |-> map[n].line, column |-> map[n].column ]
           es == [n \in 1..Len(map) |-> [index |-> map[n].key, loc |-> loc(n)]]
           info == Symbols!FromJson(document, h)
<1>1. info = IF \E n \in 1..Len(map) : map[n].key = None \/ map[n].path >= Len(document.paths)
               THEN Error ELSE Symbols!Inserted(es, 1..Len(map))
  BY DEF Symbols!FromJson
<1>2. /\ map = [n \in 1..Len(b) |->
                  [ key |-> b[n].index, path |-> b[n].file - 1,
                    line |-> b[n].line, column |-> b[n].column ]]
      /\ Len(document.paths) = Len(Sources)
      /\ \A n \in 1..Len(Sources) :
           /\ document.paths[n] = Sources[n].stored
           /\ Sources[n].stored # Sources[n].path =>
                Sources[n].stored \in document.dependency_paths
  BY JsonFacts
<1> HIDE DEF document
<1>3. Len(b) \in Nat /\ \A n \in 1..Len(b) :
        /\ b[n].index \in Nat /\ b[n].file \in 1..Len(Sources) /\ b[n].line \in Nat
        /\ b[n].column \in Nat
  BY BuildFacts
<1>4. Len(map) = Len(b) /\ \A n \in 1..Len(b) :
        /\ map[n].key = b[n].index /\ map[n].path = b[n].file - 1
        /\ map[n].line = b[n].line /\ map[n].column = b[n].column
  BY <1>2, <1>3
<1> HIDE DEF map
<1>5. ASSUME NEW n \in 1..Len(b)
      PROVE  map[n].key # None /\ ~(map[n].path >= Len(document.paths))
  <2>1. b[n].file \in 1..Len(Sources) /\ Len(Sources) \in Nat
    BY <1>3, SourcesAssumption
  <2>2. None \notin Nat
    BY BuildsAssumption
  <2> QED
    BY <1>2, <1>3, <1>4, <2>1, <2>2
<1>6. ASSUME NEW n \in 1..Len(b)
      PROVE  es[n].index = b[n].index /\ IsPlaceOf(es[n].loc, b[n], h)
  <2> DEFINE s == b[n].file
             path == Symbols!Resolve(document, Sources[s].stored, h)
  <2>1. s \in 1..Len(Sources) /\ b[n].line \in Nat /\ b[n].column \in Nat
    BY <1>3
  <2>2. map[n].path + 1 = s
    BY <1>4, <2>1
  <2>3. document.paths[map[n].path + 1] = Sources[s].stored
    BY <1>2, <2>1, <2>2
  <2>4. path \in Path /\ (h # None \/ Sources[s].stored = Sources[s].path
                            => path = Sources[s].path)
    BY <1>2, <2>1, StoredResolves
  <2> DEFINE place == [path |-> path, line |-> b[n].line, column |-> b[n].column]
  <2>5. es[n] = [index |-> b[n].index, loc |-> place]
    BY <1>4, <2>3
  <2> HIDE DEF path
  <2>6. /\ place \in Place /\ place.line = b[n].line /\ place.column = b[n].column
        /\ place.path = path
    BY <2>1, <2>4 DEF Place
  <2> HIDE DEF place, s, es
  <2>7. es[n].index = b[n].index /\ es[n].loc = place
    BY <2>5
  <2> QED
    BY <2>4, <2>6, <2>7 DEF IsPlaceOf, s
<1>7. info = Symbols!Inserted(es, 1..Len(b))
  <2> HIDE DEF es, info
  <2> QED
    BY <1>1, <1>4, <1>5
<1>8. Len(es) = Len(b)
  BY <1>3, <1>4
<1> HIDE DEF es, info
<1>9. \A n, m \in 1..Len(b) : es[n].index = es[m].index => n = m
  BY <1>6, BuildFacts
<1>10. /\ info = [i \in {es[n].index : n \in 1..Len(b)} |-> info[i]]
       /\ \A n \in 1..Len(b) : info[es[n].index] = es[n].loc
  <2> DEFINE kept == 1..Len(b)
  <2>1. Len(es) \in Nat /\ kept \subseteq 1..Len(es)
    BY <1>3, <1>8
  <2>2. \A n, m \in kept : es[n].index = es[m].index => n = m
    BY <1>9
  <2>3. info = Symbols!Inserted(es, kept)
    BY <1>7
  <2> HIDE DEF kept
  <2>4. IsInserted(info, es, kept)
    BY <2>1, <2>2, <2>3, InsertedIs
  <2> QED
    BY <2>4 DEF IsInserted, kept
<1>11. {es[n].index : n \in 1..Len(b)} = {b[n].index : n \in 1..Len(b)}
  BY <1>6
<1>12. \A n \in 1..Len(b) : IsPlaceOf(info[b[n].index], b[n], h)
  BY <1>6, <1>10
<1> QED
  BY <1>10, <1>11, <1>12 DEF Maps, info, document

LEMMA ThreeRuns ==
  ASSUME NEW S, NEW first \in S, NEW middle \in Seq(S), NEW last \in S
  PROVE  LET rows == <<first>> \o middle \o <<last>>
         IN  /\ Len(rows) = Len(middle) + 2
             /\ rows[1] = first
             /\ \A n \in 1..Len(middle) : rows[n + 1] = middle[n]
             /\ rows[Len(middle) + 2] = last
<1> DEFINE two == <<first>> \o middle
<1>1. two \in Seq(S) /\ Len(two) = Len(middle) + 1 /\ two[1] = first
  OBVIOUS
<1>2. \A n \in 1..Len(middle) : two[n + 1] = middle[n]
  OBVIOUS
<1> HIDE DEF two
<1>3. Len(middle) \in Nat
  OBVIOUS
<1>4. /\ Len(two \o <<last>>) = Len(two) + 1
      /\ \A n \in 1..Len(two) : (two \o <<last>>)[n] = two[n]
      /\ (two \o <<last>>)[Len(two) + 1] = last
  BY <1>1
<1> DEFINE rows == two \o <<last>>
<1> HIDE DEF rows
<1>5. /\ Len(rows) = Len(middle) + 2
      /\ rows[1] = first
      /\ \A n \in 1..Len(middle) : rows[n + 1] = middle[n]
      /\ rows[Len(middle) + 2] = last
  BY <1>1, <1>2, <1>3, <1>4 DEF rows
<1> QED
  BY <1>5 DEF rows, two

LEMMA RowFacts ==
  ASSUME NEW entry, NEW end \in BOOLEAN
  PROVE  LET row == Symbols!Row(entry, Sources, end)
             parts == Sources[entry.file].path.parts
         IN  /\ row.address = entry.index /\ row.line = entry.line
             /\ row.column = entry.column /\ row.end_sequence = end
             /\ row.file = [absolute |-> FALSE, parts |-> <<parts[Len(parts)]>>]
             /\ row.dir = [absolute |-> TRUE, parts |-> SubSeq(parts, 1, Len(parts) - 1)]
             /\ row.comp_dir = [absolute |-> TRUE, parts |-> <<>>]
BY DEF Symbols!Row

LEMMA LastRejoined ==
  ASSUME NEW S, NEW s \in Seq(S), s # <<>>
  PROVE  SubSeq(s, 1, Len(s) - 1) \o <<s[Len(s)]>> = s
<1> DEFINE n == Len(s) - 1
<1>1. Len(s) \in Nat /\ n \in 0..Len(s) /\ Len(s) - n = 1 /\ n + 1 = Len(s)
  BY PopFacts
<1>2. /\ SubSeq(s, 1, n) \o SubSeq(s, n + 1, Len(s)) = s
      /\ SubSeq(s, n + 1, Len(s)) \in Seq(S)
      /\ Len(SubSeq(s, n + 1, Len(s))) = Len(s) - n
      /\ \A i \in 1..(Len(s) - n) : SubSeq(s, n + 1, Len(s))[i] = s[n + i]
  BY <1>1, SplitFacts
<1> DEFINE t == SubSeq(s, n + 1, Len(s))
<1>3. t \in Seq(S) /\ Len(t) = 1 /\ t[1] = s[Len(s)]
  <2>1. t \in Seq(S) /\ Len(t) = Len(s) - n /\ \A i \in 1..(Len(s) - n) : t[i] = s[n + i]
    BY <1>2
  <2> HIDE DEF t, n
  <2> QED
    BY <1>1, <2>1
<1>4. t = <<s[Len(s)]>>
  <2> HIDE DEF t
  <2> QED
    BY <1>3
<1> QED
  BY <1>2, <1>4

LEMMA RowLeadsToFile ==
  ASSUME NEW entry, NEW end \in BOOLEAN, entry.file \in 1..Len(Sources)
  PROVE  /\ Symbols!RowPath(Symbols!Row(entry, Sources, end)) = Sources[entry.file].path
         /\ Symbols!Row(entry, Sources, end).file # None
<1> DEFINE row == Symbols!Row(entry, Sources, end)
           path == Sources[entry.file].path
           parts == path.parts
           base == <<parts[Len(parts)]>>
           front == SubSeq(parts, 1, Len(parts) - 1)
<1>1. /\ row.file = [absolute |-> FALSE, parts |-> base]
      /\ row.dir = [absolute |-> TRUE, parts |-> front]
      /\ row.comp_dir = [absolute |-> TRUE, parts |-> <<>>]
  BY RowFacts
<1>2. /\ path = [absolute |-> TRUE, parts |-> parts]
      /\ parts \in Seq(STRING) /\ parts # <<>>
  BY SourceFacts
<1>3. front \o base = parts
  BY <1>2, LastRejoined
<1>4. parts[Len(parts)] \in STRING
  BY <1>2, PopFacts, ElementFacts
<1>5. base \in Seq(STRING)
  BY <1>4
<1> HIDE DEF row, path, base, front
<1>6. row.file # None
  BY <1>1, <1>5, PathFacts, SourcesAssumption
<1> DEFINE file == row.file
           dir == row.dir
           joined == Symbols!Join(dir, file)
<1>7. ~file.absolute /\ file.parts = base /\ dir.absolute = TRUE /\ dir.parts = front
  BY <1>1
<1> HIDE DEF file, dir
<1>8. joined = [absolute |-> dir.absolute, parts |-> dir.parts \o file.parts]
  BY <1>7 DEF Symbols!Join
<1>9. joined = path
  BY <1>2, <1>3, <1>7, <1>8
<1>10. path.absolute
  BY <1>2
<1>11. Symbols!RowPath(row) = Symbols!Join(row.comp_dir, joined)
  BY DEF Symbols!RowPath, file, dir
<1> HIDE DEF joined
<1>12. Symbols!Join(row.comp_dir, joined) = path
  BY <1>9, <1>10 DEF Symbols!Join
<1> QED
  BY <1>6, <1>11, <1>12 DEF row, path

LEMMA RowsMap ==
  ASSUME NEW b \in Builds
  PROVE  Maps(Symbols!FromRows(Symbols!ForcRows(b, Sources)), b, Len(b) - 1, Home)
<1> DEFINE rows == Symbols!ForcRows(b, Sources)
           start == [index |-> 0, file |-> 1, line |-> 1, column |-> 0]
           first == Symbols!Row(start, Sources, FALSE)
           middle == [n \in 1..(Len(b) - 1) |-> Symbols!Row(b[n], Sources, FALSE)]
           last == Symbols!Row(b[Len(b)], Sources, TRUE)
           es == [n \in 1..Len(rows) |->
                    [ index |-> rows[n].address,
                      loc |-> [ path |-> Symbols!RowPath(rows[n]),
                                line |-> rows[n].line, column |-> rows[n].column ] ]]
           kept == {n \in 1..Len(rows) : Symbols!Attributed(rows[n])}
           info == Symbols!Inserted(es, kept)
           count == Len(b) - 1
<1>1. Symbols!FromRows(rows) = info
  BY DEF Symbols!FromRows
<1>2. rows = <<first>> \o middle \o <<last>>
  BY DEF Symbols!ForcRows
<1>3. /\ Len(b) \in Nat /\ Len(b) >= 1 /\ count \in Nat /\ Len(b) = count + 1
      /\ \A n \in 1..Len(b) :
           /\ b[n].index \in Nat /\ b[n].file \in 1..Len(Sources)
           /\ b[n].line \in Nat /\ b[n].column \in Nat /\ b[n].column # 0
      /\ \A n, m \in 1..Len(b) : b[n].index = b[m].index => n = m
  BY BuildFacts
<1>4. first.column = 0 /\ last.end_sequence = TRUE
  <2>1. start.column = 0
    OBVIOUS
  <2> HIDE DEF start
  <2> QED
    BY <2>1, RowFacts
<1>5. /\ Len(rows) = count + 2 /\ rows[1] = first /\ rows[count + 2] = last
      /\ \A n \in 1..count : rows[n + 1] = Symbols!Row(b[n], Sources, FALSE)
  <2>1. Len(middle) = count /\ \A n \in 1..count : middle[n] = Symbols!Row(b[n], Sources, FALSE)
    BY <1>3
  <2> DEFINE S == {first, last} \union {middle[n] : n \in 1..count}
  <2>2. middle = [n \in 1..count |-> middle[n]]
    OBVIOUS
  <2> HIDE DEF rows, first, middle, last, count
  <2>3. first \in S /\ last \in S /\ middle \in Seq(S)
    BY <1>3, <2>2
  <2> HIDE DEF S
  <2>4. /\ Len(rows) = Len(middle) + 2 /\ rows[1] = first
        /\ \A n \in 1..Len(middle) : rows[n + 1] = middle[n]
        /\ rows[Len(middle) + 2] = last
    BY <1>2, <2>3, ThreeRuns
  <2> QED
    BY <2>1, <2>4
<1> HIDE DEF rows, first, last
<1>6. ASSUME NEW n \in 1..count
      PROVE  /\ n + 1 \in kept
             /\ es[n + 1].index = b[n].index
             /\ IsPlaceOf(es[n + 1].loc, b[n], Home)
  <2> DEFINE row == Symbols!Row(b[n], Sources, FALSE)
             path == Sources[b[n].file].path
             place == [path |-> path, line |-> b[n].line, column |-> b[n].column]
  <2>1. n \in 1..Len(b) /\ n + 1 \in 1..Len(rows) /\ rows[n + 1] = row
    <3>1. count \in Nat /\ Len(b) = count + 1 /\ Len(rows) = count + 2 /\ n \in 1..count
      BY <1>3, <1>5
    <3>2. rows[n + 1] = row
      BY <1>5
    <3> HIDE DEF count, row
    <3>3. n \in 1..Len(b) /\ n + 1 \in 1..Len(rows)
      BY <3>1
    <3> QED
      BY <3>2, <3>3
  <2>2. /\ row.address = b[n].index /\ row.line = b[n].line /\ row.column = b[n].column
        /\ row.end_sequence = FALSE
    BY RowFacts
  <2>3. /\ b[n].file \in 1..Len(Sources) /\ b[n].line \in Nat
        /\ b[n].column \in Nat /\ b[n].column # 0
    BY <1>3, <2>1
  <2>4. Symbols!RowPath(row) = path /\ row.file # None
    BY <2>3, RowLeadsToFile
  <2>5. path \in Path
    BY <2>3, SourceFacts
  <2> HIDE DEF row, path, count
  <2>6. None \notin Nat
    BY BuildsAssumption
  <2>7. Symbols!Attributed(row)
    BY <2>2, <2>3, <2>4, <2>6 DEF Symbols!Attributed
  <2>8. es[n + 1] = [index |-> b[n].index, loc |-> place]
    BY <2>1, <2>2, <2>4
  <2>9. /\ place \in Place /\ place.line = b[n].line /\ place.column = b[n].column
        /\ place.path = path
    BY <2>3, <2>5 DEF Place
  <2>10. n + 1 \in kept
    BY <2>1, <2>7
  <2> HIDE DEF es, place, kept
  <2>11. es[n + 1].index = b[n].index /\ es[n + 1].loc = place
    BY <2>8
  <2> QED
    BY <2>9, <2>10, <2>11 DEF IsPlaceOf, path
<1>7. ASSUME NEW m \in kept
      PROVE  \E n \in 1..count : m = n + 1
  <2>1. m \in 1..(count + 2) /\ Symbols!Attributed(rows[m])
    BY <1>5
  <2>2. m # 1
    BY <1>4, <1>5, <2>1 DEF Symbols!Attributed
  <2>3. m # count + 2
    BY <1>4, <1>5, <2>1 DEF Symbols!Attributed
  <2> HIDE DEF count, kept
  <2>4. m - 1 \in 1..count /\ m = (m - 1) + 1
    BY <1>3, <2>1, <2>2, <2>3
  <2> QED
    BY <2>4
<1>8. Len(es) = Len(rows) /\ Len(es) \in Nat /\ kept \subseteq 1..Len(es)
  <2> HIDE DEF count
  <2> QED
    BY <1>3, <1>5
<1>9. \A n \in 1..count : n \in 1..Len(b)
  BY <1>3
<1> HIDE DEF es, kept, count
<1>10. \A n, m \in kept : es[n].index = es[m].index => n = m
  <2> SUFFICES ASSUME NEW n \in kept, NEW m \in kept, es[n].index = es[m].index
               PROVE  n = m
    OBVIOUS
  <2>1. PICK i \in 1..count, j \in 1..count : n = i + 1 /\ m = j + 1
    BY <1>7
  <2>2. b[i].index = b[j].index
    BY <1>6, <2>1
  <2>3. i \in 1..Len(b) /\ j \in 1..Len(b)
    BY <1>9
  <2>4. i = j
    BY <1>3, <2>2, <2>3
  <2> QED
    BY <2>1, <2>4
<1>11. IsInserted(info, es, kept)
  BY <1>8, <1>10, InsertedIs
<1> HIDE DEF info
<1>12. {es[m].index : m \in kept} = {b[n].index : n \in 1..count}
  BY <1>6, <1>7
<1>13. info = [i \in {b[n].index : n \in 1..count} |-> info[i]]
  BY <1>11, <1>12 DEF IsInserted
<1>14. \A n \in 1..count : IsPlaceOf(info[b[n].index], b[n], Home)
  BY <1>6, <1>11 DEF IsInserted
<1>15. Maps(info, b, count, Home)
  BY <1>13, <1>14 DEF Maps
<1> QED
  BY <1>1, <1>15 DEF rows, count

(* What the symbols of a build load as: in JSON every place, in DWARF all  *)
(* but the last, and nothing from a file that was damaged.                 *)
LEMMA SymbolsLoad ==
  ASSUME NEW b \in Builds, NEW f \in Forms, NEW h \in {None, Home}
  PROVE  LET debugged == Symbols!Load(SymbolFile(b, f), h)
         IN  /\ debugged # Error => DOMAIN debugged # {}
             /\ \/ debugged = Error
                \/ f = "json" /\ Maps(debugged, b, Len(b), h)
                \/ f = "dwarf" /\ Len(b) - 1 >= 1 /\ Maps(debugged, b, Len(b) - 1, Home)
<1> DEFINE file == SymbolFile(b, f)
           debugged == Symbols!Load(file, h)
<1>1. debugged # Error => DOMAIN debugged # {}
  BY LoadIs
<1>2. Len(b) \in Nat /\ Len(b) >= 1 /\ Len(b) \in 0..Len(b) /\ Len(b) - 1 \in 0..Len(b)
  BY BuildFacts
<1>3. CASE f = "json"
  <2> DEFINE info == Symbols!FromJson(JsonOf(b), h)
  <2>1. file = [form |-> "json", content |-> JsonOf(b)]
    BY <1>3 DEF SymbolFile
  <2>2. Maps(info, b, Len(b), h)
    BY JsonMaps
  <2> HIDE DEF file
  <2>3. debugged = Loaded(info)
    BY <2>1, LoadIs
  <2> HIDE DEF info
  <2>4. info # Error /\ DOMAIN info # {}
    BY <1>2, <2>2, MapsFacts
  <2> QED
    BY <1>1, <1>3, <2>2, <2>3, <2>4 DEF Loaded, file
<1>4. CASE f = "dwarf"
  <2> DEFINE rows == Symbols!ForcRows(b, Sources)
             info == Symbols!FromRows(rows)
             count == Len(b) - 1
  <2>1. file = [form |-> "dwarf", content |-> rows]
    BY <1>4 DEF SymbolFile
  <2>2. Maps(info, b, count, Home)
    BY RowsMap
  <2> HIDE DEF file, rows
  <2>3. debugged = Loaded(info)
    BY <2>1, LoadIs
  <2>4. count \in 0..Len(b)
    BY <1>2
  <2> HIDE DEF info, count
  <2>5. info # Error /\ DOMAIN info = {b[n].index : n \in 1..count}
    BY <2>2, <2>4, MapsFacts
  <2>6. CASE count >= 1
    <3>1. DOMAIN info # {}
      BY <2>2, <2>4, <2>6, MapsFacts
    <3> QED
      BY <1>1, <1>4, <2>2, <2>3, <2>5, <2>6, <3>1 DEF Loaded, file, count
  <2>7. CASE ~(count >= 1)
    <3>1. 1..count = {}
      BY <1>2, <2>4, <2>7
    <3>2. DOMAIN info = {}
      BY <2>5, <3>1
    <3>3. debugged = Error
      BY <2>3, <3>2 DEF Loaded
    <3> QED
      BY <1>1, <3>3 DEF file
  <2> QED
    BY <2>6, <2>7
<1>5. ASSUME NEW document, NEW n \in 1..Len(document.map),
             file = [form |-> "json", content |-> document],
             document.map[n].key = None \/ document.map[n].path >= Len(document.paths)
      PROVE  debugged = Error
  <2> HIDE DEF file
  <2>1. Symbols!FromJson(document, h) = Error
    BY <1>5 DEF Symbols!FromJson
  <2>2. debugged = Loaded(Symbols!FromJson(document, h))
    BY <1>5, LoadIs
  <2> QED
    BY <2>1, <2>2 DEF Loaded
<1>6. CASE f = "bad_key" \/ f = "bad_path"
  <2> DEFINE D == JsonOf(b)
  <2>1. /\ DOMAIN D = {"dependency_paths", "paths", "map"}
        /\ D.map = [n \in 1..Len(b) |->
                      [ key |-> b[n].index, path |-> b[n].file - 1,
                        line |-> b[n].line, column |-> b[n].column ]]
        /\ Len(D.paths) = Len(Sources)
    BY JsonFacts
  <2>2. Len(b) \in 1..Len(b)
    BY <1>2
  <2>3. Len(Sources) \in Nat
    BY SourcesAssumption
  <2>4. CASE f = "bad_key"
    <3> DEFINE document == [D EXCEPT !.map[Len(b)].key = None]
    <3>1. file = [form |-> "json", content |-> document]
      BY <2>4 DEF SymbolFile
    <3> HIDE DEF D
    <3>2. document.map = [D.map EXCEPT ![Len(b)].key = None]
      BY <2>1
    <3> HIDE DEF document
    <3>3. Len(document.map) = Len(b) /\ document.map[Len(b)].key = None
      BY <1>2, <2>1, <2>2, <3>2
    <3> QED
      BY <1>1, <1>5, <2>2, <3>1, <3>3
  <2>5. CASE f = "bad_path"
    <3> DEFINE document == [D EXCEPT !.map[Len(b)].path = Len(Sources)]
    <3>1. file = [form |-> "json", content |-> document]
      BY <2>5 DEF SymbolFile
    <3> HIDE DEF D
    <3>2. document.map = [D.map EXCEPT ![Len(b)].path = Len(Sources)] /\ document.paths = D.paths
      BY <2>1
    <3> HIDE DEF document
    <3>3. Len(document.map) = Len(b) /\ document.map[Len(b)].path = Len(Sources)
      BY <1>2, <2>1, <2>2, <3>2
    <3>4. document.map[Len(b)].path >= Len(document.paths)
      BY <2>1, <2>3, <3>2, <3>3
    <3> QED
      BY <1>1, <1>5, <2>2, <3>1, <3>3, <3>4
  <2> QED
    BY <1>6, <2>4, <2>5
<1>7. CASE f = "other"
  <2>1. file.form = "other"
    BY <1>7 DEF SymbolFile
  <2> HIDE DEF file
  <2>2. debugged = Error
    BY <2>1, LoadIs
  <2> QED
    BY <1>1, <2>2 DEF file
<1> QED
  BY <1>3, <1>4, <1>6, <1>7 DEF Forms

LEMMA MapsShow ==
  ASSUME NEW b \in Builds, NEW count \in 1..Len(b), NEW info, NEW h, Maps(info, b, count, h),
         NEW mapped, Len(mapped) = count, \A n \in 1..count : mapped[n] = b[n]
  PROVE  /\ DOMAIN info = {mapped[n].index : n \in 1..Len(mapped)}
         /\ \A n \in 1..Len(mapped) :
              LET file == Sources[mapped[n].file]
                  loc == info[mapped[n].index]
              IN  /\ loc.line = mapped[n].line /\ loc.column = mapped[n].column
                  /\ h # None \/ file.stored = file.path => loc.path = file.path
         /\ Symbols!First(info).line = b[1].line
<1>1. count \in 0..Len(b) /\ count >= 1
  OBVIOUS
<1>2. /\ DOMAIN info = {b[n].index : n \in 1..count}
      /\ Symbols!First(info).line = b[1].line
  BY <1>1, MapsFacts
<1>3. {b[n].index : n \in 1..count} = {mapped[n].index : n \in 1..count}
  OBVIOUS
<1>4. \A n \in 1..count : IsPlaceOf(info[b[n].index], b[n], h)
  BY DEF Maps
<1> QED
  BY <1>2, <1>3, <1>4 DEF IsPlaceOf

LEMMA LoadSymbolsLoads ==
  ASSUME LoadSymbols, home \in {None, Home}
  PROVE  /\ build' \in Builds /\ form' \in Forms /\ home' = home
         /\ debug' # Error => DOMAIN debug' # {}
         /\ SymbolsAreBuild'
<1>1. PICK b \in Builds, f \in Forms :
        build' = b /\ form' = f /\ debug' = Symbols!Load(SymbolFile(b, f), home)
  BY DEF LoadSymbols
<1>2. home' = home /\ phase' = IF debug' = Error THEN "failed" ELSE "source_level"
  BY DEF LoadSymbols
<1>3. /\ debug' # Error => DOMAIN debug' # {}
      /\ \/ debug' = Error
         \/ f = "json" /\ Maps(debug', b, Len(b), home)
         \/ f = "dwarf" /\ Len(b) - 1 >= 1 /\ Maps(debug', b, Len(b) - 1, Home)
  BY <1>1, SymbolsLoad
<1>4. Len(b) \in Nat /\ Len(b) >= 1
  BY BuildFacts
<1>5. CASE debug' = Error
  BY <1>1, <1>2, <1>3, <1>5 DEF SymbolsAreBuild
<1>6. CASE f = "json" /\ Maps(debug', b, Len(b), home)
  <2>1. Len(b) \in 1..Len(b) /\ \A n \in 1..Len(b) : b[n] = b[n]
    BY <1>4
  <2>2. /\ DOMAIN debug' = {b[n].index : n \in 1..Len(b)}
        /\ \A n \in 1..Len(b) :
             LET file == Sources[b[n].file]
                 loc == debug'[b[n].index]
             IN  /\ loc.line = b[n].line /\ loc.column = b[n].column
                 /\ home # None \/ file.stored = file.path => loc.path = file.path
        /\ Symbols!First(debug').line = b[1].line
    BY <1>6, <2>1, MapsShow
  <2>3. form' = "json" /\ build' = b
    BY <1>1, <1>6
  <2> QED
    BY <1>1, <1>2, <1>3, <2>2, <2>3 DEF SymbolsAreBuild
<1>7. CASE f = "dwarf" /\ Len(b) - 1 >= 1 /\ Maps(debug', b, Len(b) - 1, Home)
  <2> DEFINE count == Len(b) - 1
             mapped == SubSeq(b, 1, count)
             E == [ index : Nat, file : 1..Len(Sources), line : Nat, column : Nat \ {0} ]
  <2>1. b \in Seq(E) /\ b # <<>>
    BY BuildsAssumption
  <2>2. count \in 1..Len(b)
    BY <1>4, <1>7
  <2>3. Len(mapped) = count /\ \A n \in 1..count : mapped[n] = b[n]
    <3> HIDE DEF E
    <3> QED
      BY <2>1, PopFacts
  <2>4. Maps(debug', b, count, Home)
    BY <1>7
  <2>5. Home # None
    BY PathFacts
  <2>6. form' = "dwarf" /\ build' = b
    BY <1>1, <1>7
  <2>7. mapped = SubSeq(build', 1, Len(build') - 1)
    BY <2>6
  <2> HIDE DEF mapped, count, E
  <2>8. /\ DOMAIN debug' = {mapped[n].index : n \in 1..Len(mapped)}
        /\ \A n \in 1..Len(mapped) :
             LET file == Sources[mapped[n].file]
                 loc == debug'[mapped[n].index]
             IN  /\ loc.line = mapped[n].line /\ loc.column = mapped[n].column
                 /\ Home # None \/ file.stored = file.path => loc.path = file.path
        /\ Symbols!First(debug').line = b[1].line
    BY <2>2, <2>3, <2>4, MapsShow
  <2> QED
    BY <1>1, <1>2, <1>3, <2>5, <2>6, <2>7, <2>8, ZenonT(60) DEF SymbolsAreBuild
<1> QED
  BY <1>3, <1>5, <1>6, <1>7

------------------------------------------------------------------------------
(* The types.  Before a file is read there is nothing of it, so that a     *)
(* recording fails exactly when one of the two files could not be read.    *)
InputsInv ==
  /\ TypeOK
  /\ phase = "abi" => abi = None
  /\ phase \in {"abi", "symbols"} => debug = None

LogTypes == payload \in Seq(Byte) /\ Len(shown) \in 0..4

LEMMA LogTyped == LogInv => LogTypes
<1> SUFFICES ASSUME LogInv PROVE Len(shown) \in 0..4
  BY DEF LogInv, LogTypes
<1>1. CASE payload = <<>>
  <2>1. shown = <<>>
    BY <1>1 DEF LogInv, PayloadValues
  <2> QED
    BY <2>1
<1>2. CASE payload # <<>>
  <2> DEFINE r == RawValues(payload)
             d == DecodedValue(DecoderType(abi), payload)
  <2>1. shown = r \o d
    BY <1>2 DEF LogInv, PayloadValues
  <2>2. PICK S : r \in Seq(S) /\ Len(r) \in 1..3 /\ d \in Seq(S) /\ Len(d) \in 0..1
    BY ShownShape
  <2> HIDE DEF r, d
  <2>3. Len(r \o d) = Len(r) + Len(d)
    BY <2>2, LastOfJoined
  <2> QED
    BY <2>1, <2>2, <2>3, SMTT(30)
<1> QED
  BY <1>1, <1>2

LEMMA InputsInvInit == Init => InputsInv
<1> SUFFICES ASSUME Init PROVE InputsInv
  OBVIOUS
<1>1. <<>> \in Seq(Byte) /\ Len(<<>>) \in 0..4 /\ 0 \in 0..MaxLogs
  BY MaxLogsAssumption
<1>2. Nothing \in Losses(<<>>)
  BY DEF Losses
<1>3. Error # None
  BY ErrorAssumption
<1>4. "other" \in Forms
  BY DEF Forms
<1> QED
  BY <1>1, <1>2, <1>3, <1>4 DEF Init, InputsInv, TypeOK

LEMMA InputsInvNext == InputsInv /\ LogTypes' /\ [Next]_vars => InputsInv'
<1> SUFFICES ASSUME InputsInv, LogTypes', [Next]_vars PROVE InputsInv'
  OBVIOUS
<1> USE ErrorAssumption
<1>1. payload' \in Seq(Byte) /\ Len(shown') \in 0..4
  BY DEF LogTypes
<1>2. CASE LoadAbi
  <2>1. /\ program' \in Programs /\ lost' \in Losses(program')
        /\ abi' = Error \/ abi' \notin {None, Error}
    BY <1>2, LoadAbiReads
  <2>2. /\ phase = "abi" /\ phase' = IF abi' = Error THEN "failed" ELSE "symbols"
        /\ UNCHANGED <<home, symbolVars, logVars>>
    BY <1>2 DEF LoadAbi
  <2> QED
    BY <1>1, <2>1, <2>2 DEF InputsInv, TypeOK, symbolVars, logVars
<1>3. CASE NoAbi
  BY <1>1, <1>3 DEF NoAbi, InputsInv, TypeOK, abiVars, symbolVars, logVars
<1>4. CASE LoadSymbols
  <2>1. home \in {None, Home}
    BY DEF InputsInv, TypeOK
  <2>2. build' \in Builds /\ form' \in Forms /\ (debug' # Error => DOMAIN debug' # {})
    BY <1>4, <2>1, LoadSymbolsLoads
  <2>3. /\ phase = "symbols" /\ phase' = IF debug' = Error THEN "failed" ELSE "source_level"
        /\ UNCHANGED <<home, abiVars, logVars>>
    BY <1>4 DEF LoadSymbols
  <2> QED
    BY <1>1, <2>2, <2>3 DEF InputsInv, TypeOK, abiVars, logVars
<1>5. CASE NoSymbols
  BY <1>1, <1>5 DEF NoSymbols, InputsInv, TypeOK, abiVars, symbolVars, logVars
<1>6. CASE LogData
  <2>1. /\ logged < MaxLogs /\ logged' = logged + 1
        /\ UNCHANGED <<phase, home, abiVars, symbolVars>>
    BY <1>6 DEF LogData
  <2>2. logged' \in 0..MaxLogs
    BY <2>1, MaxLogsAssumption DEF InputsInv, TypeOK
  <2> QED
    BY <1>1, <2>1, <2>2 DEF InputsInv, TypeOK, abiVars, symbolVars
<1>7. CASE UNCHANGED vars
  BY <1>7 DEF InputsInv, TypeOK, vars, abiVars, symbolVars, logVars
<1>8. CASE Done
  BY <1>7, <1>8 DEF Done
<1> QED
  BY <1>2, <1>3, <1>4, <1>5, <1>6, <1>7, <1>8 DEF Next

LEMMA InputsInvAlways == Spec => []InputsInv
BY InputsInvInit, InputsInvNext, LogInvAlways, LogTyped, PTL DEF Spec

(* Every variable keeps its type, whatever the files hold and whatever is  *)
(* logged: a step shows at most four values, a map that is kept maps       *)
(* something, and a recording fails exactly when a file could not be read. *)
THEOREM TypeCorrect == Spec => []TypeOK
<1>1. InputsInv => TypeOK
  BY DEF InputsInv
<1> QED
  BY <1>1, InputsInvAlways, PTL

(* The symbols of a build, in JSON or in DWARF, lead every instruction to  *)
(* its place and no other instruction anywhere, whatever the build and its *)
(* sources (debug_info.rs:8-23).                                           *)
THEOREM SymbolsAreAlwaysBuild == Spec => []SymbolsAreBuild
<1>1. Init => SymbolsAreBuild
  BY DEF Init, SymbolsAreBuild
<1>2. InputsInv /\ SymbolsAreBuild /\ [Next]_vars => SymbolsAreBuild'
  <2> SUFFICES ASSUME InputsInv, SymbolsAreBuild, [Next]_vars PROVE SymbolsAreBuild'
    OBVIOUS
  <2>1. CASE LoadSymbols
    BY <2>1, LoadSymbolsLoads DEF InputsInv, TypeOK
  <2>2. CASE LoadAbi \/ NoAbi \/ NoSymbols
    <3>1. phase' # "source_level"
      BY <2>2 DEF LoadAbi, NoAbi, NoSymbols
    <3> QED
      BY <3>1 DEF SymbolsAreBuild
  <2>3. CASE UNCHANGED <<phase, home, symbolVars>>
    BY <2>3 DEF SymbolsAreBuild, symbolVars
  <2>4. CASE LogData \/ Done \/ UNCHANGED vars
    BY <2>3, <2>4 DEF LogData, Done, vars
  <2> QED
    BY <2>1, <2>2, <2>4 DEF Next
<1> QED
  BY <1>1, <1>2, InputsInvAlways, PTL DEF Spec
==============================================================================
