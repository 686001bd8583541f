---- MODULE DecodeProofs ----
(***************************************************************************)
(* Proofs about Decode for every packet: types, the current, when the      *)
(* average of the temperatures is one, and, with cells below five volts,   *)
(* the limits of the cells and their median, whatever word of the stack    *)
(* is sorted in.                                                           *)
(*                                                                         *)
(* The loops of the code are recursive functions; that they run to their   *)
(* end, and keep an invariant on the way, is proved by an induction over   *)
(* sets of numbers, from the least one that is missing.                    *)
(***************************************************************************)
EXTENDS Decode, FiniteSetTheorems, WellFoundedInduction, TLAPS

----------------------------------------------------------------------------
\* Numbers

LEMMA LeastNat ==
    ASSUME NEW T \in SUBSET Nat, T # {}
    PROVE  \E x \in T : \A y \in T : x <= y
<1> DEFINE R == OpToRel(<, Nat)
<1>1. IsWellFoundedOn(R, Nat)
  BY NatLessThanWellFounded
<1>2. \A x, y \in Nat : ~ (<<y, x>> \in R) => x <= y
  BY DEF OpToRel
<1> HIDE DEF R
<1> QED
  BY <1>1, <1>2, WFMin

LEMMA Induct ==
    ASSUME NEW S, 0 \in S, \A n \in Nat : n \in S => n + 1 \in S
    PROVE  Nat \subseteq S
<1> SUFFICES ASSUME Nat \ S # {} PROVE FALSE
  OBVIOUS
<1>1. PICK x \in Nat \ S : \A y \in Nat \ S : x <= y
  BY LeastNat
<1>2. x # 0 /\ x - 1 \in Nat
  BY <1>1
<1>3. x - 1 \in S
  BY <1>1, <1>2
<1> QED
  BY <1>1, <1>2, <1>3

Loops(A, first, turn, k) ==
    {f \in [0..k -> A] : f[0] = first /\ \A i \in 1..k : f[i] = turn[i][f[i - 1]]}

LEMMA LoopRuns ==
    ASSUME NEW A, NEW first \in A, NEW n \in Nat, NEW turn \in [1..n -> [A -> A]]
    PROVE  Loops(A, first, turn, n) # {}
<1> DEFINE S == {k \in Nat : k <= n => Loops(A, first, turn, k) # {}}
<1>1. 0 \in S
  <2>1. [i \in 0..0 |-> first] \in Loops(A, first, turn, 0)
    BY DEF Loops
  <2> QED
    BY <2>1
<1>2. ASSUME NEW k \in Nat, k \in S PROVE k + 1 \in S
  <2>1. SUFFICES ASSUME k + 1 <= n PROVE Loops(A, first, turn, k + 1) # {}
    OBVIOUS
  <2>2. PICK f \in [0..k -> A] : f[0] = first /\ \A i \in 1..k : f[i] = turn[i][f[i - 1]]
    BY <1>2, <2>1 DEF Loops
  <2> DEFINE g == [i \in 0..(k + 1) |-> IF i <= k THEN f[i] ELSE turn[k + 1][f[k]]]
  <2>3. f[k] \in A /\ turn[k + 1] \in [A -> A]
    BY <2>1
  <2>4. turn[k + 1][f[k]] \in A
    BY <2>3
  <2>5. g \in [0..(k + 1) -> A] /\ g[0] = first
    BY <2>2, <2>4
  <2>6. ASSUME NEW i \in 1..(k + 1) PROVE g[i] = turn[i][g[i - 1]]
    <3>1. CASE i <= k
      BY <2>2, <3>1
    <3>2. CASE i = k + 1
      BY <3>2
    <3> QED
      BY <3>1, <3>2
  <2>7. g \in Loops(A, first, turn, k + 1)
    BY <2>5, <2>6 DEF Loops
  <2> QED
    BY <2>7
<1>3. n \in S
  <2> HIDE DEF S
  <2> QED
    BY <1>1, <1>2, Induct
<1> QED
  BY <1>3

Turns == [sum : Words, max : Words, cmax : Nat, min : Words, cmin : Nat]

LEMMA ASequence ==
    ASSUME NEW S, NEW n \in Nat, NEW v \in [1..n -> S]
    PROVE  v \in Seq(S) /\ Len(v) = n /\ DOMAIN v = 1..n
OBVIOUS

LEMMA WordType ==
    ASSUME NEW k \in Int PROVE Word(k) \in Words
BY DEF Word, Words

LEMMA WordsAre == \A x \in Words : x \in Nat /\ x \in Int /\ 0 <= x /\ x <= 65535
BY DEF Words

LEMMA AWord ==
    ASSUME NEW k \in Nat, k <= 65535 PROVE k \in Words /\ Word(k) = k
<1>1. Word(k) = k
  BY DEF Word
<1> QED
  BY <1>1, WordType

LEMMA SumType ==
    ASSUME NEW x \in Words, NEW y \in Words PROVE Word(x + y) \in Words
<1>1. x + y \in Int
  BY DEF Words
<1> QED
  BY <1>1, WordType

LEMMA TempType ==
    ASSUME NEW w \in Words PROVE Temp(w) \in Words
<1>1. w - 2731 \in Int
  BY WordsAre
<1> QED
  BY <1>1, WordType DEF Temp

LEMMA LookType ==
    ASSUME NEW n \in Nat, NEW v \in [1..n -> Words], NEW a \in Turns, NEW i \in 1..n
    PROVE  Look(a, v, i) \in Turns
<1>1. v[i] \in Words /\ i \in Nat
  OBVIOUS
<1>2. /\ a.sum \in Words /\ a.max \in Words /\ a.cmax \in Nat /\ a.min \in Words
      /\ a.cmin \in Nat
  BY DEF Turns
<1>3. Word(a.sum + v[i]) \in Words
  BY <1>1, <1>2, SumType
<1>4. /\ (IF v[i] > a.max THEN v[i] ELSE a.max) \in Words
      /\ (IF v[i] > a.max THEN i ELSE a.cmax) \in Nat
      /\ (IF v[i] < a.min THEN v[i] ELSE a.min) \in Words
      /\ (IF v[i] < a.min THEN i ELSE a.cmin) \in Nat
  BY <1>1, <1>2, Zenon
<1> QED
  BY <1>3, <1>4, Zenon DEF Look, Turns

LEMMA UnseenType == Unseen \in Turns
<1>1. 0 \in Words /\ 5000 \in Words /\ 0 \in Nat
  BY DEF Words
<1> QED
  BY <1>1 DEF Unseen, Turns

\* The loop runs: what Scan takes the last of follows the first and each the one before.
LEMMA ScanRuns ==
    ASSUME NEW n \in Nat, NEW v \in [1..n -> Words]
    PROVE  \E f : /\ f[0] = Unseen /\ \A i \in 1..n : f[i] = Look(f[i - 1], v, i)
                  /\ Scan(v) = f[n]
<1> DEFINE turn == [i \in 1..n |-> [a \in Turns |-> Look(a, v, i)]]
<1>1. Unseen \in Turns
  BY UnseenType
<1>2. turn \in [1..n -> [Turns -> Turns]]
  BY LookType
<1>3. PICK f \in [0..n -> Turns] :
          f[0] = Unseen /\ \A i \in 1..n : f[i] = turn[i][f[i - 1]]
  <2> HIDE DEF turn
  <2>1. Loops(Turns, Unseen, turn, n) # {}
    BY <1>1, <1>2, LoopRuns
  <2> QED
    BY <2>1 DEF Loops
<1>4. ASSUME NEW i \in 1..n PROVE f[i] = Look(f[i - 1], v, i)
  <2>1. f[i - 1] \in Turns
    OBVIOUS
  <2> QED
    BY <1>3, <2>1
<1>5. f = [i \in 0..n |-> IF i = 0 THEN Unseen ELSE Look(f[i - 1], v, i)]
  BY <1>3, <1>4
<1> DEFINE seen == CHOOSE g : g = [i \in 0..n |-> IF i = 0 THEN Unseen ELSE Look(g[i - 1], v, i)]
<1>6. seen = [i \in 0..n |-> IF i = 0 THEN Unseen ELSE Look(seen[i - 1], v, i)]
  BY <1>5
<1>7. Scan(v) = seen[n]
  BY ASequence DEF Scan
<1> HIDE DEF seen
<1>8. seen[0] = Unseen
  <2>1. 0 \in 0..n
    OBVIOUS
  <2> QED
    BY <1>6, <2>1
<1>9. ASSUME NEW i \in 1..n PROVE seen[i] = Look(seen[i - 1], v, i)
  <2>1. i \in 0..n /\ i # 0
    OBVIOUS
  <2> QED
    BY <1>6, <2>1
<1> QED
  BY <1>7, <1>8, <1>9

----------------------------------------------------------------------------
\* The median

\* A set of words has a greatest one.
LEMMA GreatestWord ==
    ASSUME NEW T \in SUBSET Words, T # {}
    PROVE  \E x \in T : \A y \in T : y <= x
<1> DEFINE U == {65535 - y : y \in T}
<1>1. U \subseteq Nat /\ U # {}
  <2>1. ASSUME NEW y \in T PROVE 65535 - y \in Nat
    <3>1. y \in Words
      OBVIOUS
    <3>2. y \in Nat /\ y <= 65535
      BY <3>1, WordsAre
    <3> QED
      BY <3>2
  <2> QED
    BY <2>1
<1>2. PICK u \in U : \A w \in U : u <= w
  <2> HIDE DEF U
  <2> QED
    BY <1>1, LeastNat
<1>3. PICK x \in T : u = 65535 - x
  BY <1>2
<1>4. ASSUME NEW y \in T PROVE y <= x
  <2>1. 65535 - x <= 65535 - y
    BY <1>2, <1>3
  <2>2. x \in Int /\ y \in Int
    BY WordsAre
  <2> QED
    BY <2>1, <2>2
<1> QED
  BY <1>4

\* The places of what is less than x, and of what is at most x.
Under(s, x) == {i \in DOMAIN s : s[i] < x}
UpTo(s, x) == {i \in DOMAIN s : s[i] <= x}

LEMMA Places ==
    ASSUME NEW n \in Nat, NEW s \in [1..n -> Words], NEW x \in Words
    PROVE  /\ Under(s, x) \subseteq 1..n /\ UpTo(s, x) \subseteq 1..n
           /\ IsFiniteSet(Under(s, x)) /\ IsFiniteSet(UpTo(s, x))
           /\ Cardinality(Under(s, x)) \in Nat /\ Cardinality(UpTo(s, x)) \in Nat
<1>1. Under(s, x) \subseteq 1..n /\ UpTo(s, x) \subseteq 1..n
  BY DEF Under, UpTo
<1>2. IsFiniteSet(1..n)
  BY FS_Interval
<1>3. IsFiniteSet(Under(s, x)) /\ IsFiniteSet(UpTo(s, x))
  BY <1>1, <1>2, FS_Subset
<1> QED
  BY <1>1, <1>3, FS_CardinalityType

\* What Ranked() chooses from is there: the k-th smallest exists.
LEMMA RankedIs ==
    ASSUME NEW n \in Nat, NEW s \in [1..n -> Words], NEW k \in 1..n
    PROVE  /\ \E i \in 1..n : Ranked(s, k) = s[i]
           /\ Cardinality(Under(s, Ranked(s, k))) < k
           /\ Cardinality(UpTo(s, Ranked(s, k))) >= k
<1> DEFINE T == {s[i] : i \in DOMAIN s}
           Q == {x \in T : Cardinality(UpTo(s, x)) >= k}
<1>1. DOMAIN s = 1..n
  OBVIOUS
<1>2. T \subseteq Words /\ T # {}
  <2>1. 1 \in DOMAIN s
    OBVIOUS
  <2> QED
    BY <2>1, <1>1
<1>3. Q # {}
  <2>1. PICK x \in T : \A y \in T : y <= x
    BY <1>2, GreatestWord
  <2>2. UpTo(s, x) = 1..n
    BY <2>1, <1>1 DEF UpTo
  <2>3. Cardinality(1..n) = n
    BY FS_Interval
  <2> QED
    BY <2>1, <2>2, <2>3
<1>4. Q \subseteq Nat
  BY <1>2, WordsAre
<1> HIDE DEF Q
<1>5. PICK x \in Q : \A y \in Q : x <= y
  BY <1>3, <1>4, LeastNat
<1>6. x \in T /\ x \in Words /\ Cardinality(UpTo(s, x)) >= k
  BY <1>2, <1>5 DEF Q
<1>7. Cardinality(Under(s, x)) < k
  <2> DEFINE L == {y \in T : y < x}
  <2> SUFFICES ASSUME ~(Cardinality(Under(s, x)) < k) PROVE FALSE
    OBVIOUS
  <2>1. Cardinality(Under(s, x)) >= k
    BY <1>6, Places
  <2>2. L # {}
    <3>1. Under(s, x) # {}
      <4>1. Cardinality({}) = 0 /\ k >= 1
        BY FS_EmptySet
      <4> QED
        BY <2>1, <4>1
    <3>2. PICK i \in DOMAIN s : s[i] < x
      BY <3>1 DEF Under
    <3> QED
      BY <3>2
  <2>3. PICK y \in L : \A z \in L : z <= y
    BY <1>2, <2>2, GreatestWord
  <2>4. UpTo(s, y) = Under(s, x)
    <3>1. ASSUME NEW i \in DOMAIN s PROVE s[i] <= y <=> s[i] < x
      <4>1. s[i] \in Int /\ y \in Int /\ x \in Int /\ y < x
        <5>1. s[i] \in T /\ y \in T /\ y < x
          BY <2>3
        <5> QED
          BY <1>2, <1>6, <5>1, WordsAre
      <4>2. s[i] < x => s[i] <= y
        BY <2>3
      <4> QED
        BY <4>1, <4>2
    <3> QED
      BY <3>1 DEF UpTo, Under
  <2>5. y \in Q
    BY <2>1, <2>3, <2>4 DEF Q
  <2>6. x <= y
    BY <1>5, <2>5
  <2> QED
    BY <1>2, <1>6, <2>3, <2>6, WordsAre
<1> DEFINE r == Ranked(s, k)
<1>8. /\ r \in T /\ Cardinality(Under(s, r)) < k /\ Cardinality(UpTo(s, r)) >= k
  BY <1>6, <1>7 DEF Ranked, Under, UpTo
<1> QED
  BY <1>1, <1>8

\* Whatever one word at the end may be: what is ranked from the second to the last but
\* one lies within the bounds of all others.
LEMMA RankedWithin ==
    ASSUME NEW n \in Nat, NEW s \in [1..n -> Words], NEW k \in 2..(n - 1),
           NEW lo \in Words, NEW hi \in Words,
           \A i \in 1..(n - 1) : lo <= s[i] /\ s[i] <= hi
    PROVE  Ranked(s, k) \in lo..hi
<1> DEFINE x == Ranked(s, k)
<1>1. k \in 1..n /\ n \in 1..n /\ k \in Int
  OBVIOUS
<1>2. x \in Words /\ Cardinality(Under(s, x)) < k /\ Cardinality(UpTo(s, x)) >= k
  BY <1>1, RankedIs
<1> HIDE DEF x
<1>3. x \in Int /\ lo \in Int /\ hi \in Int /\ \A i \in 1..n : s[i] \in Int
  BY <1>2, WordsAre
<1>4. ~(x < lo)
  <2> SUFFICES ASSUME x < lo PROVE FALSE
    OBVIOUS
  <2>1. ASSUME NEW i \in UpTo(s, x) PROVE i = n
    <3>1. i \in 1..n /\ s[i] <= x
      BY DEF UpTo
    <3>2. i \in 1..(n - 1) => FALSE
      BY <1>3, <3>1
    <3> QED
      BY <3>1, <3>2
  <2>2. UpTo(s, x) \in SUBSET {n}
    BY <2>1
  <2>3. IsFiniteSet({n}) /\ Cardinality({n}) = 1
    BY FS_Singleton
  <2>4. Cardinality(UpTo(s, x)) <= 1
    BY <2>2, <2>3, FS_Subset
  <2>5. Cardinality(UpTo(s, x)) \in Nat
    BY <1>2, Places
  <2> QED
    BY <1>2, <2>4, <2>5
<1>5. ~(hi < x)
  <2> SUFFICES ASSUME hi < x PROVE FALSE
    OBVIOUS
  <2>1. 1..(n - 1) \in SUBSET Under(s, x)
    <3>1. ASSUME NEW i \in 1..(n - 1) PROVE i \in DOMAIN s /\ s[i] < x
      BY <1>3
    <3> QED
      BY <3>1 DEF Under
  <2>2. IsFiniteSet(Under(s, x)) /\ Cardinality(Under(s, x)) \in Nat
    BY <1>2, Places
  <2>3. Cardinality(1..(n - 1)) <= Cardinality(Under(s, x))
    BY <2>1, <2>2, FS_Subset
  <2>4. Cardinality(1..(n - 1)) = n - 1
    <3>1. 1 \in Int /\ n - 1 \in Int /\ ~(1 > n - 1)
      OBVIOUS
    <3> QED
      BY <3>1, FS_Interval
  <2> QED
    BY <1>2, <2>2, <2>3, <2>4
<1> QED
  BY <1>3, <1>4, <1>5 DEF x

----------------------------------------------------------------------------
\* The loop over the cells

\* What the loop has after i cells, of any words ...
LEMMA ScanType ==
    ASSUME NEW n \in Nat, NEW v \in [1..n -> Words]
    PROVE  Scan(v) \in Turns
<1>1. PICK f : /\ f[0] = Unseen /\ \A i \in 1..n : f[i] = Look(f[i - 1], v, i)
               /\ Scan(v) = f[n]
  BY ScanRuns
<1> DEFINE S == {i \in Nat : i <= n => f[i] \in Turns}
<1>2. 0 \in S
  BY <1>1, UnseenType
<1>3. ASSUME NEW i \in Nat, i \in S PROVE i + 1 \in S
  <2> SUFFICES ASSUME i + 1 <= n PROVE f[i + 1] \in Turns
    OBVIOUS
  <2>1. i + 1 \in 1..n /\ (i + 1) - 1 = i /\ f[i] \in Turns
    BY <1>3
  <2>2. f[i + 1] = Look(f[i], v, i + 1)
    BY <1>1, <2>1
  <2> QED
    BY <2>1, <2>2, LookType
<1>4. n \in S
  <2> HIDE DEF S
  <2> QED
    BY <1>2, <1>3, Induct
<1> QED
  BY <1>1, <1>4

\* ... and of cells below five volts.
Below == 0..4999

Seen(a, v, i) ==
    /\ a \in Turns
    /\ \A j \in 1..i : a.min <= v[j] /\ v[j] <= a.max
    /\ a.max = 0 \/ (a.cmax \in 1..i /\ a.max = v[a.cmax])
    /\ i = 0 \/ (a.cmin \in 1..i /\ a.min = v[a.cmin])
    /\ i = 0 => a.min = 5000
    /\ a.sum <= i * 4999
    /\ i * a.min <= a.sum /\ a.sum <= i * a.max

LEMMA Times ==
    ASSUME NEW i \in Nat, NEW m \in Nat, NEW k \in Nat, m <= k
    PROVE  /\ i * m \in Nat /\ i * k \in Nat /\ i * m <= i * k
           /\ (i + 1) * m = i * m + m
OBVIOUS

LEMMA BelowAre == \A x \in Below : x \in Words /\ x \in Nat /\ x <= 4999
<1> SUFFICES ASSUME NEW x \in Below PROVE x \in Words /\ x \in Nat /\ x <= 4999
  OBVIOUS
<1>1. x \in Nat /\ x <= 4999
  BY DEF Below
<1>2. x \in Words
  BY <1>1, AWord
<1> QED
  BY <1>1, <1>2

LEMMA SeenOne ==
    ASSUME NEW n \in 1..8, NEW v \in [1..n -> Below], NEW i \in Nat, i + 1 <= n,
           NEW a, Seen(a, v, i)
    PROVE  Seen(Look(a, v, i + 1), v, i + 1)
<1> DEFINE x == v[i + 1]
           b == Look(a, v, i + 1)
<1>1. /\ a.sum \in Nat /\ a.max \in Nat /\ a.cmax \in Nat /\ a.min \in Nat
      /\ a.cmin \in Nat
  BY WordsAre DEF Seen, Turns
<1>2. i + 1 \in 1..n /\ x \in Nat /\ x <= 4999 /\ i <= 7
  <2>1. i + 1 \in 1..n
    OBVIOUS
  <2>2. v[i + 1] \in Below
    BY <2>1
  <2> QED
    BY <2>1, <2>2, BelowAre
<1>3. b \in Turns
  <2>1. v \in [1..n -> Words] /\ n \in Nat
    BY BelowAre
  <2> QED
    BY <1>2, <2>1, LookType DEF Seen
<1>4. /\ b.max = IF x > a.max THEN x ELSE a.max
      /\ b.cmax = IF x > a.max THEN i + 1 ELSE a.cmax
      /\ b.min = IF x < a.min THEN x ELSE a.min
      /\ b.cmin = IF x < a.min THEN i + 1 ELSE a.cmin
      /\ b.sum = Word(a.sum + x)
  BY DEF Look
<1>5. b.sum = a.sum + x
  <2>1. a.sum <= i * 4999
    BY DEF Seen
  <2> HIDE DEF x
  <2>2. i * 4999 <= 34993
    BY <1>2
  <2>3. a.sum + x \in Nat /\ a.sum + x <= 65535
    BY <1>1, <1>2, <2>1, <2>2
  <2> QED
    BY <1>4, <2>3, AWord
<1> HIDE DEF x, b
<1>6. ASSUME NEW j \in 1..(i + 1) PROVE b.min <= v[j] /\ v[j] <= b.max
  <2>1. CASE j = i + 1
    BY <1>1, <1>2, <1>4, <2>1 DEF x
  <2>2. CASE j \in 1..i
    <3>1. a.min <= v[j] /\ v[j] <= a.max
      BY <2>2 DEF Seen
    <3>2. v[j] \in Nat
      <4>1. v[j] \in Below
        BY <1>2, <2>2
      <4> QED
        BY <4>1, BelowAre
    <3> QED
      BY <1>1, <1>2, <1>4, <3>1, <3>2
  <2> QED
    BY <2>1, <2>2
<1>7. b.max = 0 \/ (b.cmax \in 1..(i + 1) /\ b.max = v[b.cmax])
  <2>1. CASE x > a.max
    BY <1>2, <1>4, <2>1 DEF x
  <2>2. CASE ~(x > a.max)
    <3>1. b.max = a.max /\ b.cmax = a.cmax
      BY <1>4, <2>2
    <3>2. a.max = 0 \/ (a.cmax \in 1..i /\ a.max = v[a.cmax])
      BY DEF Seen
    <3> QED
      BY <3>1, <3>2
  <2> QED
    BY <2>1, <2>2
<1>8. b.cmin \in 1..(i + 1) /\ b.min = v[b.cmin]
  <2>1. CASE x < a.min
    BY <1>2, <1>4, <2>1 DEF x
  <2>2. CASE ~(x < a.min)
    <3>1. i # 0
      BY <1>1, <1>2, <2>2 DEF Seen
    <3>2. b.min = a.min /\ b.cmin = a.cmin
      BY <1>4, <2>2
    <3>3. a.cmin \in 1..i /\ a.min = v[a.cmin]
      BY <3>1 DEF Seen
    <3> QED
      BY <3>2, <3>3
  <2> QED
    BY <2>1, <2>2
<1>9. b.sum <= (i + 1) * 4999
  <2>1. a.sum <= i * 4999
    BY DEF Seen
  <2> QED
    BY <1>1, <1>2, <1>5, <2>1
<1>10. (i + 1) * b.min <= b.sum /\ b.sum <= (i + 1) * b.max
  <2>1. b.min \in Nat /\ b.max \in Nat /\ b.min <= x /\ x <= b.max
    BY <1>1, <1>2, <1>4
  <2>2. i * a.min <= a.sum /\ a.sum <= i * a.max
    BY DEF Seen
  <2>3. b.min <= a.min /\ a.max <= b.max
    BY <1>1, <1>2, <1>4
  <2>4. /\ i * b.min \in Nat /\ i * a.min \in Nat /\ i * b.min <= i * a.min
        /\ (i + 1) * b.min = i * b.min + b.min
    BY <1>1, <2>1, <2>3, Times
  <2>5. /\ i * b.max \in Nat /\ i * a.max \in Nat /\ i * a.max <= i * b.max
        /\ (i + 1) * b.max = i * b.max + b.max
    <3>1. /\ i * b.max \in Nat /\ i * a.max \in Nat /\ i * a.max <= i * b.max
      BY <1>1, <2>1, <2>3, Times
    <3>2. (i + 1) * b.max = i * b.max + b.max
      BY <2>1, Times
    <3> QED
      BY <3>1, <3>2
  <2> DEFINE low == i * b.min
             high == i * b.max
  <2>6. low \in Nat /\ high \in Nat /\ low <= a.sum /\ a.sum <= high
    BY <1>1, <2>2, <2>4, <2>5
  <2> HIDE DEF low, high
  <2>7. low + b.min <= b.sum /\ b.sum <= high + b.max
    BY <1>1, <1>2, <1>5, <2>1, <2>6
  <2> QED
    BY <2>4, <2>5, <2>7 DEF low, high
<1> QED
  <2>1. i + 1 # 0
    OBVIOUS
  <2>2. /\ i + 1 = 0 \/ (b.cmin \in 1..(i + 1) /\ b.min = v[b.cmin])
        /\ i + 1 = 0 => b.min = 5000
    BY <1>8, <2>1
  <2>3. Seen(b, v, i + 1)
    BY <1>3, <1>6, <1>7, <1>9, <1>10, <2>2 DEF Seen
  <2> QED
    BY <2>3 DEF b

LEMMA SeenAll ==
    ASSUME NEW n \in 1..8, NEW v \in [1..n -> Below]
    PROVE  Seen(Scan(v), v, n)
<1>1. v \in [1..n -> Words] /\ n \in Nat
  BY BelowAre
<1>2. PICK f : /\ f[0] = Unseen /\ \A i \in 1..n : f[i] = Look(f[i - 1], v, i)
               /\ Scan(v) = f[n]
  BY <1>1, ScanRuns
<1> DEFINE S == {i \in Nat : i <= n => Seen(f[i], v, i)}
<1>3. 0 \in S
  <2>1. Seen(Unseen, v, 0)
    BY UnseenType DEF Seen, Unseen
  <2> QED
    BY <1>2, <2>1
<1>4. ASSUME NEW i \in Nat, i \in S PROVE i + 1 \in S
  <2> SUFFICES ASSUME i + 1 <= n PROVE Seen(f[i + 1], v, i + 1)
    OBVIOUS
  <2>1. i + 1 \in 1..n /\ (i + 1) - 1 = i /\ Seen(f[i], v, i)
    BY <1>4
  <2>2. f[i + 1] = Look(f[i], v, i + 1)
    BY <1>2, <2>1
  <2> QED
    BY <2>1, <2>2, SeenOne
<1>5. n \in S
  <2> HIDE DEF S
  <2> QED
    BY <1>1, <1>3, <1>4, Induct
<1> QED
  BY <1>1, <1>2, <1>5

\* Limits, where they are, difference and average of four or eight cells.
LEMMA Limits ==
    ASSUME NEW n \in {4, 8}, NEW v \in [1..n -> Below], v[2] # 0, NEW a, a = Scan(v)
    PROVE  /\ a.cmin \in 1..n /\ a.min = v[a.cmin]
           /\ a.cmax \in 1..n /\ a.max = v[a.cmax]
           /\ \A i \in 1..n : a.min <= v[i] /\ v[i] <= a.max
           /\ Word(a.max - a.min) = a.max - a.min
           /\ a.min <= a.sum \div n /\ a.sum \div n <= a.max
<1>1. n \in 1..8 /\ n # 0 /\ 2 \in 1..n
  OBVIOUS
<1>2. Seen(a, v, n)
  BY <1>1, SeenAll
<1>3. /\ a.sum \in Nat /\ a.max \in Nat /\ a.min \in Nat /\ a.max <= 65535
  BY <1>2, WordsAre DEF Seen, Turns
<1>4. v[2] \in Nat /\ v[2] <= a.max /\ a.min <= v[2]
  <2>1. v[2] \in Below
    BY <1>1
  <2> QED
    BY <1>1, <1>2, <2>1, BelowAre DEF Seen
<1>5. a.max # 0
  BY <1>3, <1>4
<1>6. /\ a.cmin \in 1..n /\ a.min = v[a.cmin] /\ a.cmax \in 1..n /\ a.max = v[a.cmax]
      /\ \A i \in 1..n : a.min <= v[i] /\ v[i] <= a.max
  BY <1>1, <1>2, <1>5, Zenon DEF Seen
<1>7. Word(a.max - a.min) = a.max - a.min
  BY <1>3, <1>4 DEF Word
<1>8. n * a.min <= a.sum /\ a.sum <= n * a.max
  BY <1>1, <1>2 DEF Seen
<1>9. a.min <= a.sum \div n /\ a.sum \div n <= a.max
  <2>1. CASE n = 4
    BY <1>3, <1>8, <2>1
  <2>2. CASE n = 8
    BY <1>3, <1>8, <2>2
  <2> QED
    BY <2>1, <2>2
<1> QED
  BY <1>6, <1>7, <1>9

----------------------------------------------------------------------------
\* The temperatures

\* The loop over the sensors runs.
LEMMA TempRuns ==
    ASSUME NEW n \in Nat, NEW ws \in [1..n -> Words]
    PROVE  \E f : /\ f[0] = 0 /\ \A i \in 1..n : f[i] = Word(f[i - 1] + Temp(ws[i]))
                  /\ TempSum(ws) = f[n]
<1> DEFINE turn == [i \in 1..n |-> [a \in Words |-> Word(a + Temp(ws[i]))]]
<1>1. 0 \in Words
  BY AWord
<1>2. turn \in [1..n -> [Words -> Words]]
  <2>1. ASSUME NEW i \in 1..n, NEW a \in Words PROVE Word(a + Temp(ws[i])) \in Words
    BY TempType, SumType
  <2> QED
    BY <2>1
<1>3. PICK f \in [0..n -> Words] :
          f[0] = 0 /\ \A i \in 1..n : f[i] = turn[i][f[i - 1]]
  <2> HIDE DEF turn
  <2>1. Loops(Words, 0, turn, n) # {}
    BY <1>1, <1>2, LoopRuns
  <2> QED
    BY <2>1 DEF Loops
<1>4. ASSUME NEW i \in 1..n PROVE f[i] = Word(f[i - 1] + Temp(ws[i]))
  <2>1. f[i - 1] \in Words
    OBVIOUS
  <2> QED
    BY <1>3, <2>1
<1>5. f = [i \in 0..n |-> IF i = 0 THEN 0 ELSE Word(f[i - 1] + Temp(ws[i]))]
  BY <1>3, <1>4
<1> DEFINE sum == CHOOSE g :
                g = [i \in 0..n |-> IF i = 0 THEN 0 ELSE Word(g[i - 1] + Temp(ws[i]))]
<1>6. sum = [i \in 0..n |-> IF i = 0 THEN 0 ELSE Word(sum[i - 1] + Temp(ws[i]))]
  BY <1>5
<1>7. TempSum(ws) = sum[n]
  BY ASequence DEF TempSum
<1> HIDE DEF sum
<1>8. sum[0] = 0
  <2>1. 0 \in 0..n
    OBVIOUS
  <2> QED
    BY <1>6, <2>1
<1>9. ASSUME NEW i \in 1..n PROVE sum[i] = Word(sum[i - 1] + Temp(ws[i]))
  <2>1. i \in 0..n /\ i # 0
    OBVIOUS
  <2> QED
    BY <1>6, <2>1
<1> QED
  BY <1>7, <1>8, <1>9

\* One to three sensors, added up by hand.
LEMMA TempSums ==
    ASSUME NEW n \in 1..3, NEW ws \in [1..n -> Words]
    PROVE  TempSum(ws) = IF n = 1 THEN Word(0 + Temp(ws[1]))
                         ELSE IF n = 2 THEN Word(Word(0 + Temp(ws[1])) + Temp(ws[2]))
                         ELSE Word(Word(Word(0 + Temp(ws[1])) + Temp(ws[2])) + Temp(ws[3]))
<1>1. PICK f : /\ f[0] = 0 /\ \A i \in 1..n : f[i] = Word(f[i - 1] + Temp(ws[i]))
               /\ TempSum(ws) = f[n]
  BY TempRuns
<1>2. f[1] = Word(0 + Temp(ws[1]))
  <2>1. 1 \in 1..n /\ 1 - 1 = 0
    OBVIOUS
  <2> QED
    BY <1>1, <2>1
<1>3. n >= 2 => f[2] = Word(f[1] + Temp(ws[2]))
  <2>1. n >= 2 => 2 \in 1..n /\ 2 - 1 = 1
    OBVIOUS
  <2> QED
    BY <1>1, <2>1
<1>4. n = 3 => f[3] = Word(f[2] + Temp(ws[3]))
  <2>1. n = 3 => 3 \in 1..n /\ 3 - 1 = 2
    OBVIOUS
  <2> QED
    BY <1>1, <2>1
<1>5. n = 1 \/ n = 2 \/ n = 3
  OBVIOUS
<1> QED
  BY <1>1, <1>2, <1>3, <1>4, <1>5

\* Whatever is added up, the average is a word.
LEMMA AverageType ==
    ASSUME NEW n \in 1..3, NEW ws \in [1..n -> Words] PROVE TempAverage(ws) \in Words
<1>1. TempSum(ws) \in Words
  <2>1. n = 1 \/ n = 2 \/ n = 3
    OBVIOUS
  <2>2. 1 \in 1..n /\ (n >= 2 => 2 \in 1..n) /\ (n = 3 => 3 \in 1..n)
    OBVIOUS
  <2>3. 0 \in Words
    BY AWord
  <2>4. Word(0 + Temp(ws[1])) \in Words
    BY <2>2, <2>3, TempType, SumType
  <2>5. n >= 2 => Word(Word(0 + Temp(ws[1])) + Temp(ws[2])) \in Words
    BY <2>2, <2>4, TempType, SumType
  <2>6. n = 3 => Word(Word(Word(0 + Temp(ws[1])) + Temp(ws[2])) + Temp(ws[3])) \in Words
    BY <2>2, <2>5, TempType, SumType
  <2>7. CASE n = 1
    BY <2>4, <2>7, TempSums
  <2>8. CASE n = 2
    BY <2>5, <2>8, TempSums
  <2>9. CASE n = 3
    BY <2>6, <2>9, TempSums
  <2> QED
    BY <2>1, <2>7, <2>8, <2>9
<1>2. Len(ws) = n
  BY ASequence
<1>3. TempSum(ws) \in Nat /\ TempSum(ws) <= 65535
  BY <1>1, WordsAre
<1>4. TempSum(ws) \div n \in Nat /\ TempSum(ws) \div n <= 65535
  <2>1. n = 1 \/ n = 2 \/ n = 3
    OBVIOUS
  <2> QED
    BY <1>3, <2>1
<1> QED
  BY <1>2, <1>4, AWord DEF TempAverage

\* A word and what it reads as with its sign.
LEMMA SignedIs ==
    ASSUME NEW w \in Words
    PROVE  /\ Signed(w) \in Int /\ -32768 <= Signed(w) /\ Signed(w) <= 32767
           /\ w = Signed(w) \/ w = Signed(w) + 65536
BY WordsAre DEF Signed

\* Sixteen bits do not care how often a sum has run over.
LEMMA Wrapped ==
    \A x \in Nat : x <= 65535 =>
        /\ Word(x) = x /\ Word(x + 65536) = x
        /\ Word(x + 131072) = x /\ Word(x + 196608) = x
BY DEF Word

LEMMA WordIs ==
    ASSUME NEW x \in Words, NEW y \in Words
    PROVE  Word(x + y) = x + y \/ Word(x + y) = x + y - 65536
BY WordsAre DEF Word

\* A sum in range is what is left of it in 16 bits, of two readings ...
LEMMA SumOfTwo ==
    ASSUME NEW x \in Words, NEW y \in Words, Signed(x) + Signed(y) \in Words
    PROVE  Word(x + y) = Signed(x) + Signed(y)
<1> DEFINE r == Signed(x)
           s == Signed(y)
<1>1. r \in Int /\ s \in Int /\ r + s \in Nat /\ r + s <= 65535
  BY SignedIs, WordsAre
<1>2. (x = r \/ x = r + 65536) /\ (y = s \/ y = s + 65536)
  BY SignedIs
<1> HIDE DEF r, s
<1>3. \/ x + y = r + s \/ x + y = (r + s) + 65536 \/ x + y = (r + s) + 131072
  BY <1>1, <1>2
<1>4. Word(x + y) = r + s
  BY <1>1, <1>3, Wrapped
<1> QED
  BY <1>4 DEF r, s

\* ... and of three.
LEMMA SumOfThree ==
    ASSUME NEW x \in Words, NEW y \in Words, NEW z \in Words,
           Signed(x) + Signed(y) + Signed(z) \in Words
    PROVE  Word(Word(x + y) + z) = Signed(x) + Signed(y) + Signed(z)
<1> DEFINE r == Signed(x)
           s == Signed(y)
           u == Signed(z)
           w == Word(x + y)
           all == r + s + u
<1>1. r \in Int /\ s \in Int /\ u \in Int /\ all \in Nat /\ all <= 65535
  BY SignedIs, WordsAre
<1>2. (x = r \/ x = r + 65536) /\ (y = s \/ y = s + 65536) /\ (z = u \/ z = u + 65536)
  BY SignedIs
<1>3. w \in Words /\ (w = x + y \/ w = x + y - 65536)
  BY SumType, WordIs
<1>4. w \in Nat /\ z \in Nat /\ w <= 65535 /\ z <= 65535
  BY <1>3, WordsAre
<1> HIDE DEF r, s, u, w
<1>5. \/ w + z = all \/ w + z = all + 65536 \/ w + z = all + 131072 \/ w + z = all + 196608
      \/ w + z = all - 65536
  BY <1>1, <1>2, <1>3
<1>6. w + z # all - 65536
  BY <1>1, <1>4
<1>7. Word(w + z) = all
  <2> HIDE DEF all
  <2> QED
    BY <1>1, <1>5, <1>6, Wrapped
<1> QED
  BY <1>7 DEF r, s, u, w

\* The average of what does not run over is between two of what is averaged.
LEMMA Between ==
    /\ \A r, s \in Int : LET a == (r + s) \div 2 IN
         (r <= a \/ s <= a) /\ (r >= a \/ s >= a)
    /\ \A r, s, u \in Int : LET a == (r + s + u) \div 3 IN
         (r <= a \/ s <= a \/ u <= a) /\ (r >= a \/ s >= a \/ u >= a)
OBVIOUS

\* One word, or the half or the third of one: what it reads as.
LEMMA PartOfWord ==
    ASSUME NEW w \in Words
    PROVE  /\ w \div 1 = w
           /\ Signed(w \div 2) = w \div 2 /\ w \div 2 >= 0
           /\ Signed(w \div 3) = w \div 3 /\ w \div 3 >= 0
<1>1. w \in Nat /\ w <= 65535
  BY WordsAre
<1>2. w \div 2 \in Nat /\ w \div 2 <= 32767 /\ w \div 3 \in Nat /\ w \div 3 <= 32767
  BY <1>1
<1>3. \A k \in Nat : k <= 32767 => Signed(k) = k
  BY DEF Signed
<1> QED
  BY <1>1, <1>2, <1>3

LEMMA Average ==
    ASSUME NEW n \in 1..3, NEW ws \in [1..n -> Words],
           NEW t, t = [i \in 1..n |-> Temp(ws[i])]
    PROVE  LET avg == Signed(TempAverage(ws)) IN
           /\ Len(t) = 1 \/ TrueSum(t) \in Words =>
                /\ \E i \in 1..n : Signed(t[i]) <= avg
                /\ \E i \in 1..n : Signed(t[i]) >= avg
           /\ Len(t) > 1 => avg >= 0
<1> DEFINE avg == Signed(TempAverage(ws))
<1>1. /\ DOMAIN t = 1..n /\ \A i \in 1..n : t[i] = Temp(ws[i]) /\ t[i] \in Words
      /\ t \in [1..n -> Words]
  BY TempType
<1>2. Len(ws) = n /\ Len(t) = n
  BY <1>1, ASequence
<1>3. 1 \in 1..n /\ t[1] \in Words /\ t[1] = Temp(ws[1])
  BY <1>1
<1>4. Word(0 + t[1]) = t[1]
  BY <1>3, WordsAre, AWord
<1>5. CASE n = 1
  <2>1. TempSum(ws) = t[1]
    BY <1>3, <1>4, <1>5, TempSums
  <2>2. TempAverage(ws) = t[1]
    BY <1>2, <1>3, <1>5, <2>1, PartOfWord DEF TempAverage
  <2>3. avg \in Int /\ Signed(t[1]) = avg
    BY <1>3, <2>2, SignedIs
  <2> HIDE DEF avg
  <2>4. Signed(t[1]) <= avg /\ Signed(t[1]) >= avg /\ ~(Len(t) > 1)
    BY <1>2, <1>5, <2>3
  <2> QED
    BY <1>3, <2>4 DEF avg
<1>6. CASE n = 2
  <2>1. 2 \in 1..n /\ t[2] \in Words /\ t[2] = Temp(ws[2])
    BY <1>1, <1>6
  <2> DEFINE w == Word(t[1] + t[2])
  <2>2. w \in Words /\ TempAverage(ws) = w \div 2
    BY <1>2, <1>3, <1>4, <1>6, <2>1, TempSums, SumType DEF TempAverage
  <2>3. avg = w \div 2 /\ avg >= 0
    BY <2>2, PartOfWord
  <2>4. ASSUME TrueSum(t) \in Words
        PROVE  /\ \E i \in 1..n : Signed(t[i]) <= avg
               /\ \E i \in 1..n : Signed(t[i]) >= avg
    <3>1. Signed(t[1]) \in Int /\ Signed(t[2]) \in Int
      BY <1>3, <2>1, SignedIs
    <3>2. TrueSum(t) = Signed(t[1]) + Signed(t[2])
      <4>1. ~(3 \in 1..n)
        BY <1>6
      <4> QED
        BY <1>1, <1>3, <2>1, <3>1, <4>1 DEF TrueSum
    <3>3. w = Signed(t[1]) + Signed(t[2])
      BY <1>3, <2>1, <2>4, <3>2, SumOfTwo
    <3> HIDE DEF avg, w
    <3>4. /\ Signed(t[1]) <= avg \/ Signed(t[2]) <= avg
          /\ Signed(t[1]) >= avg \/ Signed(t[2]) >= avg
      BY <2>3, <3>1, <3>3, Between
    <3> QED
      BY <1>3, <2>1, <3>4
  <2> HIDE DEF avg
  <2>5. Len(t) # 1
    BY <1>2, <1>6
  <2> QED
    BY <2>3, <2>4, <2>5 DEF avg
<1>7. CASE n = 3
  <2>1. /\ 2 \in 1..n /\ t[2] \in Words /\ t[2] = Temp(ws[2])
        /\ 3 \in 1..n /\ t[3] \in Words /\ t[3] = Temp(ws[3])
    BY <1>1, <1>7
  <2> DEFINE w == Word(Word(t[1] + t[2]) + t[3])
  <2>2. w \in Words
    BY <1>3, <2>1, SumType
  <2>3. TempAverage(ws) = w \div 3
    BY <1>2, <1>3, <1>4, <1>7, <2>1, TempSums DEF TempAverage
  <2>4. avg = w \div 3 /\ avg >= 0
    BY <2>2, <2>3, PartOfWord
  <2>5. ASSUME TrueSum(t) \in Words
        PROVE  /\ \E i \in 1..n : Signed(t[i]) <= avg
               /\ \E i \in 1..n : Signed(t[i]) >= avg
    <3>1. Signed(t[1]) \in Int /\ Signed(t[2]) \in Int /\ Signed(t[3]) \in Int
      BY <1>3, <2>1, SignedIs
    <3>2. TrueSum(t) = Signed(t[1]) + Signed(t[2]) + Signed(t[3])
      BY <1>1, <1>3, <2>1 DEF TrueSum
    <3>3. w = Signed(t[1]) + Signed(t[2]) + Signed(t[3])
      BY <1>3, <2>1, <2>5, <3>2, SumOfThree
    <3> HIDE DEF avg, w
    <3>4. /\ Signed(t[1]) <= avg \/ Signed(t[2]) <= avg \/ Signed(t[3]) <= avg
          /\ Signed(t[1]) >= avg \/ Signed(t[2]) >= avg \/ Signed(t[3]) >= avg
      BY <2>4, <3>1, <3>3, Between
    <3> QED
      BY <1>3, <2>1, <3>4
  <2> HIDE DEF avg
  <2>6. Len(t) # 1
    BY <1>2, <1>7
  <2> QED
    BY <2>4, <2>5, <2>6 DEF avg
<1>8. n = 1 \/ n = 2 \/ n = 3
  OBVIOUS
<1> HIDE DEF avg
<1> QED
  BY <1>5, <1>6, <1>7, <1>8

----------------------------------------------------------------------------
\* What is stored

\* What becomes of a basic packet, and of a cell packet with a word behind it.
BasicOf(p) ==
    [Volts |-> Volts(p.volts), Amps |-> Amps(p.amps), NumOfCells |-> p.cells,
     Temp |-> [i \in 1..Len(p.temps) |-> Temp(p.temps[i])],
     TempAvg |-> TempAverage(p.temps)]

CellsOf(v, g) ==
    LET a == Scan(v) IN
    [CellVolt |-> v, CellMin |-> a.min, CellMax |-> a.max, CellDiff |-> Word(a.max - a.min),
     CellAvg |-> a.sum \div Len(v), iMin |-> a.cmin, iMax |-> a.cmax,
     CellMedian |-> Median(v, g)]

\* What is stored was decoded from the packet that is remembered, which passed the
\* checks: four or eight cells, one to three sensors.
BasicRead ==
    HasBasic => \E p \in BasicPackets :
        BasicValid(p) /\ basicPacket = p /\ basicData = BasicOf(p)

CellsRead ==
    HasCells => \E n \in {4, 8}, g \in Garbage : \E v \in [1..n -> CellmV] :
        v[2] # 0 /\ cellPacket = v /\ cellData = CellsOf(v, g)

LEMMA BasicFields ==
    ASSUME NEW p \in BasicPackets, BasicValid(p)
    PROVE  /\ p.volts \in Words /\ p.amps \in Words /\ p.cells \in {4, 8}
           /\ \E n \in 1..3 : p.temps \in [1..n -> Temps01K] /\ Len(p.temps) = n
<1>1. PICK n \in Sensors : p \in [volts : Volts10mV, amps : Amps10mA, software : {0, 33},
                                  cells : CellCounts, temps : [1..n -> Temps01K]]
  BY DEF BasicPackets
<1>2. p.volts \in Words /\ p.amps \in Words
  BY <1>1, FieldsAssumption DEF FieldsAssumption
<1>3. p.cells \in 0..8 /\ n \in 0..3 /\ p.temps \in [1..n -> Temps01K]
  BY <1>1, FieldsAssumption DEF FieldsAssumption, SizeofCellVolt
<1>4. p.cells \in {4, 8}
  BY <1>3 DEF BasicValid
<1>5. Len(p.temps) = n
  <2>1. n \in Nat
    BY <1>3
  <2> QED
    BY <1>3, <2>1, ASequence
<1>6. n \in 1..3
  BY <1>3, <1>5 DEF BasicValid
<1> QED
  BY <1>2, <1>3, <1>4, <1>5, <1>6

LEMMA Reading == Spec => [](BasicRead /\ CellsRead)
<1>1. Init => BasicRead /\ CellsRead
  BY DEF Init, BasicRead, CellsRead, HasBasic, HasCells
<1>2. BasicRead /\ CellsRead /\ [Next]_vars => (BasicRead /\ CellsRead)'
  <2> SUFFICES ASSUME BasicRead, CellsRead, [Next]_vars PROVE (BasicRead /\ CellsRead)'
    OBVIOUS
  <2>1. CASE BasicData
    <3>1. PICK p \in BasicPackets :
            BasicValid(p) /\ basicPacket' = p /\ basicData' = BasicOf(p)
      BY <2>1, Zenon DEF BasicData, BasicOf
    <3>2. BasicRead'
      BY <3>1, Zenon DEF BasicRead
    <3>3. CellsRead'
      BY <2>1, Zenon DEF BasicData, CellsRead, HasCells
    <3> QED
      BY <3>2, <3>3
  <2>2. CASE CellData
    <3>1. PICK v \in CellPackets, g \in Garbage :
            CellsValid(v) /\ cellPacket' = v /\ cellData' = CellsOf(v, g)
      BY <2>2, Zenon DEF CellData, CellsOf
    <3>2. PICK n \in CellCounts : v \in [1..n -> CellmV]
      BY <3>1 DEF CellPackets
    <3>3. Len(v) = n
      <4>1. n \in Nat
        BY FieldsAssumption DEF FieldsAssumption, SizeofCellVolt
      <4> QED
        BY <3>2, <4>1, ASequence
    <3>4. PICK p \in BasicPackets : BasicValid(p) /\ basicData = BasicOf(p)
      BY <3>1, Zenon DEF CellsValid, BasicRead, HasBasic
    <3>5. n \in {4, 8}
      <4>1. basicData.NumOfCells = p.cells
        BY <3>4 DEF BasicOf
      <4> QED
        BY <3>1, <3>3, <3>4, <4>1, BasicFields DEF CellsValid
    <3>6. CellsRead'
      <4>1. v[2] # 0
        BY <3>1 DEF CellsValid
      <4> QED
        BY <3>1, <3>2, <3>5, <4>1, Zenon DEF CellsRead
    <3>7. BasicRead'
      BY <2>2, Zenon DEF CellData, BasicRead, HasBasic
    <3> QED
      BY <3>6, <3>7
  <2>3. CASE UNCHANGED vars
    BY <2>3, Zenon DEF vars, BasicRead, CellsRead, HasBasic, HasCells
  <2> QED
    BY <2>1, <2>2, <2>3 DEF Next
<1> QED
  BY <1>1, <1>2, PTL DEF Spec

\* What Median() sorts: the cells but the first, and the word behind the array.
LEMMA Sorted ==
    ASSUME NEW n \in {4, 8}, NEW v \in [1..n -> Words], NEW g \in Words
    PROVE  LET s == Append(Tail(v), g) IN
           /\ s \in [1..n -> Words] /\ Len(s) = n
           /\ \A i \in 1..(n - 1) : s[i] = v[i + 1]
<1>1. v \in Seq(Words) /\ Len(v) = n /\ v # <<>>
  <2>1. n \in Nat /\ n # 0
    OBVIOUS
  <2>2. v \in Seq(Words) /\ Len(v) = n
    BY <2>1, ASequence
  <2> QED
    BY <2>1, <2>2
<1>2. /\ Tail(v) \in Seq(Words) /\ Len(Tail(v)) = n - 1
      /\ \A i \in 1..(n - 1) : Tail(v)[i] = v[i + 1]
  BY <1>1
<1> DEFINE t == Tail(v)
<1> HIDE DEF t
<1>3. /\ Append(t, g) \in Seq(Words) /\ Len(Append(t, g)) = n
      /\ \A i \in 1..(n - 1) : Append(t, g)[i] = t[i]
  BY <1>2 DEF t
<1> DEFINE s == Append(t, g)
<1> HIDE DEF s
<1>4. s \in [1..n -> Words]
  <2>1. s \in Seq(Words) /\ Len(s) = n
    BY <1>3 DEF s
  <2>2. s \in [1..Len(s) -> Words]
    BY <2>1
  <2> QED
    BY <2>1, <2>2
<1> QED
  BY <1>2, <1>3, <1>4 DEF s, t

LEMMA MedianOf ==
    ASSUME NEW n \in {4, 8}, NEW v \in [1..n -> Words], NEW g \in Words,
           NEW lo \in Words, NEW hi \in Words,
           \A i \in 2..n : lo <= v[i] /\ v[i] <= hi
    PROVE  Median(v, g) \in Int /\ lo <= Median(v, g) /\ Median(v, g) <= hi
<1> DEFINE s == Append(Tail(v), g)
           h == n \div 2
<1>1. /\ s \in [1..n -> Words] /\ Len(s) = n
      /\ \A i \in 1..(n - 1) : s[i] = v[i + 1]
  BY Sorted
<1> HIDE DEF s
<1>2. n \in Nat /\ n % 2 = 0 /\ h \in 2..(n - 1) /\ h + 1 \in 2..(n - 1)
  OBVIOUS
<1> HIDE DEF h
<1>3. \A i \in 1..(n - 1) : lo <= s[i] /\ s[i] <= hi
  <2> SUFFICES ASSUME NEW i \in 1..(n - 1) PROVE lo <= s[i] /\ s[i] <= hi
    OBVIOUS
  <2>1. i + 1 \in 2..n
    BY <1>2
  <2> QED
    BY <1>1, <2>1
<1> DEFINE x == Ranked(s, h)
           y == Ranked(s, h + 1)
<1>4. x \in lo..hi /\ y \in lo..hi
  BY <1>1, <1>2, <1>3, RankedWithin
<1>5. Median(v, g) = (x + y) \div 2
  BY <1>1, <1>2 DEF Median, Middle, s, h
<1> HIDE DEF x, y
<1>6. lo \in Nat /\ hi \in Nat
  BY WordsAre
<1> QED
  BY <1>4, <1>5, <1>6

\* Four or eight cells below five volts: all that is stored of them.
LEMMA MedianType ==
    ASSUME NEW n \in {4, 8}, NEW v \in [1..n -> Words], NEW g \in Words
    PROVE  Median(v, g) \in Words
<1>1. PICK lo \in Words, hi \in Words :
          0 <= lo /\ hi <= 65535 /\ \A x \in Words : lo <= x /\ x <= hi
  <2>1. 0 \in Words /\ 65535 \in Words
    BY AWord
  <2>2. 0 <= 0 /\ 65535 <= 65535 /\ \A x \in Words : 0 <= x /\ x <= 65535
    BY WordsAre
  <2> QED
    BY <2>1, <2>2
<1>2. \A i \in 2..n : lo <= v[i] /\ v[i] <= hi
  <2> SUFFICES ASSUME NEW i \in 2..n PROVE lo <= v[i] /\ v[i] <= hi
    OBVIOUS
  <2>1. i \in 1..n
    OBVIOUS
  <2>2. v[i] \in Words
    BY <2>1
  <2> QED
    BY <1>1, <2>2
<1>3. Median(v, g) \in Int /\ lo <= Median(v, g) /\ Median(v, g) <= hi
  BY <1>2, MedianOf
<1>4. Median(v, g) \in Nat /\ Median(v, g) <= 65535
  BY <1>1, <1>3, WordsAre
<1> QED
  BY <1>4, AWord

\* Any packet that passes the checks leaves words in the globals.
LEMMA CellTypes ==
    ASSUME NEW n \in {4, 8}, NEW v \in [1..n -> CellmV], NEW g \in Garbage,
           NEW c, c = CellsOf(v, g)
    PROVE  /\ c.CellVolt \in Seq(Words) /\ c.CellMedian \in Words
           /\ {c.CellMin, c.CellMax, c.CellAvg} \subseteq Words
<1> DEFINE a == Scan(v)
<1>1. v \in [1..n -> Words] /\ g \in Words /\ n \in Nat
  BY FieldsAssumption DEF FieldsAssumption
<1>2. v \in Seq(Words) /\ Len(v) = n
  BY <1>1, ASequence
<1>3. a.sum \in Words /\ a.min \in Words /\ a.max \in Words
  BY <1>1, ScanType DEF Turns
<1> HIDE DEF a
<1>4. a.sum \div n \in Words
  <2>1. a.sum \in Nat /\ a.sum <= 65535
    BY <1>3, WordsAre
  <2>2. a.sum \div n \in Nat /\ a.sum \div n <= 65535
    <3>1. n = 4 \/ n = 8
      OBVIOUS
    <3> QED
      BY <2>1, <3>1
  <2> QED
    BY <2>2, AWord
<1>5. Median(v, g) \in Words
  BY <1>1, MedianType
<1>6. /\ c.CellVolt = v /\ c.CellMedian = Median(v, g) /\ c.CellMin = a.min
      /\ c.CellMax = a.max /\ c.CellAvg = a.sum \div n
  BY <1>2 DEF CellsOf, a
<1> QED
  BY <1>2, <1>3, <1>4, <1>5, <1>6

\* The current of any word is in the range of its type.
LEMMA AmpsType ==
    ASSUME NEW w \in Words PROVE Amps(w) \in MinAmps..MaxAmps
<1>1. w \in Int /\ 0 <= w /\ w <= 65535
  BY WordsAre
<1>2. Signed(w) \in Int /\ -32768 <= Signed(w) /\ Signed(w) <= 32767
  BY <1>1 DEF Signed
<1>3. /\ MinAmps \in Int /\ MaxAmps \in Int
      /\ Amps(w) \in Int /\ MinAmps <= Amps(w) /\ Amps(w) <= MaxAmps
  BY <1>2 DEF Amps, MinAmps, MaxAmps
<1> QED
  BY <1>3

\* Whatever the fields of a packet say, what is stored keeps its C type.
THEOREM Typing == Spec => []TypeOK
<1>1. BasicRead /\ CellsRead => TypeOK
  <2> SUFFICES ASSUME BasicRead, CellsRead PROVE TypeOK
    OBVIOUS
  <2>1. ASSUME HasBasic
        PROVE  /\ basicData.Volts \in Words /\ basicData.Amps \in MinAmps..MaxAmps
               /\ basicData.NumOfCells \in 4..252 /\ basicData.TempAvg \in Words
    <3>1. PICK p \in BasicPackets : BasicValid(p) /\ basicData = BasicOf(p)
      BY <2>1, Zenon DEF BasicRead
    <3>2. p.volts \in Words /\ p.amps \in Words /\ p.cells \in {4, 8}
      BY <3>1, BasicFields
    <3>3. PICK n \in 1..3 : p.temps \in [1..n -> Temps01K]
      BY <3>1, BasicFields
    <3>4. Volts(p.volts) \in Words
      <4>1. p.volts * 10 \in Int
        BY <3>2, WordsAre
      <4> QED
        BY <4>1, WordType DEF Volts
    <3>5. Amps(p.amps) \in MinAmps..MaxAmps
      BY <3>2, AmpsType
    <3>6. TempAverage(p.temps) \in Words
      <4>1. p.temps \in [1..n -> Words]
        BY <3>3, FieldsAssumption DEF FieldsAssumption
      <4> QED
        BY <4>1, AverageType
    <3>7. p.cells \in 4..252
      BY <3>2
    <3>8. /\ basicData.Volts = Volts(p.volts) /\ basicData.Amps = Amps(p.amps)
          /\ basicData.NumOfCells = p.cells /\ basicData.TempAvg = TempAverage(p.temps)
      BY <3>1 DEF BasicOf
    <3> QED
      BY <3>4, <3>5, <3>6, <3>7, <3>8, Zenon
  <2>2. ASSUME HasCells
        PROVE  /\ cellData.CellVolt \in Seq(Words) /\ cellData.CellMedian \in Words
               /\ {cellData.CellMin, cellData.CellMax, cellData.CellAvg} \subseteq Words
    <3>1. PICK n \in {4, 8}, g \in Garbage :
            \E v \in [1..n -> CellmV] : cellData = CellsOf(v, g)
      BY <2>2, Zenon DEF CellsRead
    <3>2. PICK v \in [1..n -> CellmV] : cellData = CellsOf(v, g)
      BY <3>1
    <3> QED
      BY <3>2, CellTypes
  <2> QED
    BY <2>1, <2>2, Zenon DEF TypeOK
<1> QED
  BY <1>1, Reading, PTL

\* Sixteen bits read as a number with a sign, and what becomes of them.
LEMMA AmpsOfWord ==
    ASSUME NEW w \in Words
    PROVE  /\ Amps(w) - Signed(w) * 10 \in 0..10
           /\ Amps(w) > 0 => Signed(w) * 10 > 0
           /\ Amps(w) < 0 => Signed(w) * 10 < 0
BY DEF Words, Amps, Signed

\* For every packet the BMS can send, discharging or charging.
THEOREM Current == Spec => []AmpsNear
<1>1. BasicRead => AmpsNear
  <2> SUFFICES ASSUME BasicRead, HasBasic
               PROVE  /\ basicData.Amps - TrueAmps \in 0..10
                      /\ basicData.Amps > 0 => TrueAmps > 0
                      /\ basicData.Amps < 0 => TrueAmps < 0
    BY DEF AmpsNear
  <2>1. PICK p \in BasicPackets :
            BasicValid(p) /\ basicPacket = p /\ basicData = BasicOf(p)
    BY Zenon DEF BasicRead
  <2>2. basicData.Amps = Amps(p.amps) /\ TrueAmps = Signed(p.amps) * 10
    BY <2>1 DEF BasicOf, TrueAmps
  <2>3. p.amps \in Words
    BY <2>1, BasicFields
  <2> QED
    BY <2>2, <2>3, AmpsOfWord
<1> QED
  BY <1>1, Reading, PTL

\* For every packet: the average is one of what it averages unless several sensors
\* together are below freezing (or beyond 2000 degrees), and then it is above freezing.
THEOREM AverageHolds == Spec => []AverageInRange
<1>1. BasicRead => AverageInRange
  <2> SUFFICES ASSUME BasicRead, HasBasic PROVE AverageInRange
    BY DEF AverageInRange
  <2>1. PICK p \in BasicPackets : BasicValid(p) /\ basicData = BasicOf(p)
    BY Zenon DEF BasicRead
  <2>2. PICK n \in 1..3 : p.temps \in [1..n -> Temps01K] /\ Len(p.temps) = n
    BY <2>1, BasicFields
  <2>3. p.temps \in [1..n -> Words]
    BY <2>2, FieldsAssumption DEF FieldsAssumption
  <2> DEFINE t == basicData.Temp
  <2>4. t = [i \in 1..n |-> Temp(p.temps[i])] /\ basicData.TempAvg = TempAverage(p.temps)
    BY <2>1, <2>2 DEF BasicOf
  <2> HIDE DEF t
  <2>5. DOMAIN t = 1..n
    BY <2>4
  <2> DEFINE avg == Signed(TempAverage(p.temps))
  <2>6. /\ Len(t) = 1 \/ TrueSum(t) \in Words =>
             /\ \E i \in 1..n : Signed(t[i]) <= avg
             /\ \E i \in 1..n : Signed(t[i]) >= avg
        /\ Len(t) > 1 => avg >= 0
    BY <2>3, <2>4, Average
  <2> HIDE DEF avg
  <2> QED
    BY <2>4, <2>5, <2>6 DEF t, avg, AverageInRange
<1> QED
  BY <1>1, Reading, PTL

\* Every cell packet below five volts: what CellsRead() keeps of it, in one place.
LEMMA CellsHold ==
    ASSUME CellmV \subseteq Below, CellsRead, HasCells
    PROVE  \E n \in {4, 8}, g \in Words : \E v \in [1..n -> Below] :
             v[2] # 0 /\ cellPacket = v /\ DOMAIN v = 1..n /\ cellData = CellsOf(v, g)
<1>1. PICK n \in {4, 8}, g \in Garbage : \E v \in [1..n -> CellmV] :
          v[2] # 0 /\ cellPacket = v /\ cellData = CellsOf(v, g)
  BY Zenon DEF CellsRead
<1>2. PICK v \in [1..n -> CellmV] :
          v[2] # 0 /\ cellPacket = v /\ cellData = CellsOf(v, g)
  BY <1>1
<1>3. v \in [1..n -> Below] /\ DOMAIN v = 1..n
  OBVIOUS
<1>4. g \in Words
  BY FieldsAssumption DEF FieldsAssumption
<1> QED
  BY <1>2, <1>3, <1>4

\* Lowest, highest, where they are, difference and average: for all voltages a cell can
\* have.
THEOREM LimitsHold ==
    ASSUME CellmV \subseteq Below PROVE Spec => []LimitsRight
<1>1. CellsRead => LimitsRight
  <2> SUFFICES ASSUME CellsRead, HasCells PROVE LimitsRight
    BY DEF LimitsRight
  <2>1. PICK n \in {4, 8}, g \in Words : \E v \in [1..n -> Below] :
            v[2] # 0 /\ cellPacket = v /\ DOMAIN v = 1..n /\ cellData = CellsOf(v, g)
    BY CellsHold
  <2>2. PICK v \in [1..n -> Below] :
            v[2] # 0 /\ cellPacket = v /\ DOMAIN v = 1..n /\ cellData = CellsOf(v, g)
    BY <2>1
  <2>3. Len(v) = n
    <3>1. n \in Nat
      OBVIOUS
    <3> QED
      BY <3>1, ASequence
  <2> DEFINE a == Scan(v)
             c == cellData
  <2>4. /\ c.CellMin = a.min /\ c.CellMax = a.max /\ c.CellDiff = Word(a.max - a.min)
        /\ c.CellAvg = a.sum \div n /\ c.iMin = a.cmin /\ c.iMax = a.cmax
    BY <2>2, <2>3 DEF CellsOf
  <2>5. /\ a.cmin \in 1..n /\ a.min = v[a.cmin]
        /\ a.cmax \in 1..n /\ a.max = v[a.cmax]
        /\ \A i \in 1..n : a.min <= v[i] /\ v[i] <= a.max
        /\ Word(a.max - a.min) = a.max - a.min
        /\ a.min <= a.sum \div n /\ a.sum \div n <= a.max
    BY <2>2, Limits
  <2> HIDE DEF a
  <2> QED
    BY <2>2, <2>4, <2>5 DEF LimitsRight
<1> QED
  BY <1>1, Reading, PTL

\* One word of the stack is sorted in with the cells: it cannot bring the median out of
\* their range, whatever it is.
THEOREM MedianHolds ==
    ASSUME CellmV \subseteq Below PROVE Spec => []MedianInRange
<1>1. CellsRead => MedianInRange
  <2> SUFFICES ASSUME CellsRead, HasCells PROVE MedianInRange
    BY DEF MedianInRange
  <2>1. PICK n \in {4, 8}, g \in Words : \E v \in [1..n -> Below] :
            v[2] # 0 /\ cellPacket = v /\ DOMAIN v = 1..n /\ cellData = CellsOf(v, g)
    BY CellsHold
  <2>2. PICK v \in [1..n -> Below] : v[2] # 0 /\ cellData = CellsOf(v, g)
    BY <2>1
  <2> DEFINE a == Scan(v)
  <2>3. /\ cellData.CellMin = a.min /\ cellData.CellMax = a.max
        /\ cellData.CellMedian = Median(v, g)
    BY <2>2 DEF CellsOf
  <2>4. v \in [1..n -> Words] /\ n \in Nat
    BY BelowAre
  <2>5. a.min \in Words /\ a.max \in Words
    BY <2>4, ScanType DEF Turns
  <2>6. \A i \in 1..n : a.min <= v[i] /\ v[i] <= a.max
    BY <2>2, Limits
  <2> HIDE DEF a
  <2>7. \A i \in 2..n : a.min <= v[i] /\ v[i] <= a.max
    BY <2>6
  <2>8. a.min <= Median(v, g) /\ Median(v, g) <= a.max
    BY <2>4, <2>5, <2>7, MedianOf
  <2> QED
    BY <2>3, <2>8 DEF MedianInRange
<1> QED
  BY <1>1, Reading, PTL

====
