------------------------------- MODULE KzLemmas -------------------------------
(***************************************************************************)
(* Facts about numbers and lists that several proofs need.  The models     *)
(* choose the lowest block, run, cell or identity of a set; that there is  *)
(* one is the least-number principle.                                      *)
(***************************************************************************)
EXTENDS Integers, SequencesExt, SequenceTheorems, FiniteSetTheorems,
        WellFoundedInduction, TLAPS

(* A set of natural numbers that is not empty has a least one. *)
LEMMA LeastNatural ==
    ASSUME NEW S \in SUBSET Nat, S # {}
    PROVE  \E m \in S : \A n \in S : m <= n
<1> DEFINE Less == {p \in Nat \X Nat : p[1] < p[2]}
<1>1. IsWellFoundedOn(Less, Nat)
    BY NatLessThanWellFounded, Zenon DEF OpToRel
<1>2. \E x \in S : \A y \in S : ~(<<y, x>> \in Less)
    <2> HIDE DEF Less
    <2> QED BY <1>1, WFMin
<1>3. PICK x \in S : \A y \in S : ~(<<y, x>> \in Less)
    BY <1>2
<1>4. \A y \in S : ~(y < x)
    BY <1>3
<1>5. \A y \in S : y \in Nat
    OBVIOUS
<1> HIDE DEF Less
<1> QED BY <1>4, <1>5

(* What is long enough for one block takes one at least. *)
LEMMA QuotientPositive ==
    ASSUME NEW a \in Nat, NEW b \in Nat \ {0}, a >= b
    PROVE  a \div b \in Nat \ {0}
OBVIOUS

(* The k-th bit of word i is in word i. *)
LEMMA WordOfBit ==
    ASSUME NEW w \in Nat \ {0}, NEW i \in Nat, NEW k \in 0..(w - 1)
    PROVE  (i * w + k) \div w = i /\ i * w \in Nat
OBVIOUS

(* What is left of a list when one element is taken out: those before it   *)
(* where they were and those after it one place up.                        *)
LEMMA RemoveAtProperties ==
    ASSUME NEW S, NEW s \in Seq(S), NEW i \in 1..Len(s)
    PROVE  /\ RemoveAt(s, i) \in Seq(S) /\ Len(RemoveAt(s, i)) = Len(s) - 1
           /\ \A k \in 1..(Len(s) - 1) : RemoveAt(s, i)[k] = IF k < i THEN s[k] ELSE s[k + 1]
<1> DEFINE n == Len(s)
           before == SubSeq(s, 1, i - 1)
           after == SubSeq(s, i + 1, n)
<1>1. n \in Nat /\ i \in 1..n /\ \A k \in 1..n : s[k] \in S
    BY ElementOfSeq, LenProperties
<1>2. /\ before \in Seq(S) /\ Len(before) = i - 1
      /\ \A k \in 1..(i - 1) : before[k] = s[k]
    <2>1. 1 \in Int /\ i - 1 \in Int /\ \A k \in 1..(i - 1) : s[k] \in S
        BY <1>1
    <2>2. /\ before \in Seq(S)
          /\ Len(before) = IF 1 <= i - 1 THEN i - 1 - 1 + 1 ELSE 0
          /\ \A k \in 1..(i - 1 - 1 + 1) : before[k] = s[1 + k - 1]
        BY <2>1, SubSeqProperties
    <2> HIDE DEF before
    <2>3. Len(before) = i - 1
        BY <1>1, <2>2
    <2>4. \A k \in 1..(i - 1) : k \in 1..(i - 1 - 1 + 1) /\ 1 + k - 1 = k
        BY <1>1
    <2> QED BY <2>2, <2>3, <2>4
<1>3. /\ after \in Seq(S) /\ Len(after) = n - i
      /\ \A k \in 1..(n - i) : after[k] = s[i + k]
    <2>1. i + 1 \in Int /\ n \in Int /\ \A k \in (i + 1)..n : s[k] \in S
        BY <1>1
    <2>2. /\ after \in Seq(S)
          /\ Len(after) = IF i + 1 <= n THEN n - (i + 1) + 1 ELSE 0
          /\ \A k \in 1..(n - (i + 1) + 1) : after[k] = s[i + 1 + k - 1]
        BY <2>1, SubSeqProperties
    <2> HIDE DEF after
    <2>3. Len(after) = n - i
        BY <1>1, <2>2
    <2>4. \A k \in 1..(n - i) : k \in 1..(n - (i + 1) + 1) /\ i + 1 + k - 1 = i + k
        BY <1>1
    <2> QED BY <2>2, <2>3, <2>4
<1>4. RemoveAt(s, i) = before \o after
    BY DEF RemoveAt
<1> HIDE DEF before, after
<1>5. /\ before \o after \in Seq(S) /\ Len(before \o after) = Len(before) + Len(after)
      /\ \A k \in 1..(Len(before) + Len(after)) : (before \o after)[k] =
             IF k <= Len(before) THEN before[k] ELSE after[k - Len(before)]
    BY <1>2, <1>3, ConcatProperties
<1>6. ASSUME NEW k \in 1..(n - 1)
      PROVE  (before \o after)[k] = IF k < i THEN s[k] ELSE s[k + 1]
    <2>1. k \in 1..(Len(before) + Len(after)) /\ (k <= Len(before) <=> k < i)
        BY <1>1, <1>2, <1>3
    <2>2. CASE k < i
        <3>1. k \in 1..(i - 1)
            BY <1>1, <2>2
        <3> QED BY <1>2, <1>5, <2>1, <2>2, <3>1
    <2>3. CASE ~(k < i)
        <3>1. k - (i - 1) \in 1..(n - i) /\ i + (k - (i - 1)) = k + 1
            BY <1>1, <2>3
        <3> QED BY <1>2, <1>3, <1>5, <2>1, <2>3, <3>1
    <2> QED BY <2>2, <2>3
<1>7. Len(before \o after) = n - 1
    BY <1>1, <1>2, <1>3, <1>5
<1> QED BY <1>4, <1>5, <1>6, <1>7

(* Counted from below, a finite set of numbers has an element at every     *)
(* place: two of them never share one, so that none is left over.          *)
LEMMA EveryRankTaken ==
    ASSUME NEW S \in SUBSET Nat, IsFiniteSet(S), NEW k \in 0..(Cardinality(S) - 1)
    PROVE  \E b \in S : Cardinality({x \in S : x < b}) = k
<1> DEFINE below(b) == {x \in S : x < b}
           rank(b) == Cardinality(below(b))
           n == Cardinality(S)
           others == (0..(n - 1)) \ {k}
           f == [b \in S |-> rank(b)]
<1>1. n \in Nat
    BY FS_CardinalityType
<1>2. ASSUME NEW b \in S PROVE IsFiniteSet(below(b)) /\ rank(b) \in 0..(n - 1)
    <2>1. below(b) \in SUBSET S /\ b \notin below(b)
        OBVIOUS
    <2>2. IsFiniteSet(below(b)) /\ rank(b) <= n /\ (rank(b) = n => below(b) = S)
        BY <2>1, FS_Subset
    <2>3. rank(b) \in Nat /\ rank(b) # n
        BY <2>1, <2>2, FS_CardinalityType
    <2> HIDE DEF rank, n
    <2> QED BY <1>1, <2>2, <2>3
<1>3. ASSUME NEW a \in S, NEW b \in S, a < b PROVE rank(a) # rank(b)
    <2>1. \A x \in S : (x < a => x < b) /\ ~(a < a)
        BY <1>3
    <2>2. below(a) \in SUBSET below(b) /\ a \in below(b) /\ a \notin below(a)
        BY <1>3, <2>1
    <2>3. IsFiniteSet(below(b))
        BY <1>2
    <2> QED BY <2>2, <2>3, FS_Subset
<1> SUFFICES ASSUME \A b \in S : rank(b) # k PROVE FALSE
    OBVIOUS
<1>4. IsFiniteSet(others) /\ Cardinality(others) < n
    <2>1. IsFiniteSet(0..(n - 1)) /\ Cardinality(0..(n - 1)) = n
        <3>1. 0 \in Int /\ n - 1 \in Int
            BY <1>1
        <3> HIDE DEF n
        <3>2. /\ IsFiniteSet(0..(n - 1))
              /\ Cardinality(0..(n - 1)) = IF 0 > n - 1 THEN 0 ELSE n - 1 - 0 + 1
            BY <3>1, FS_Interval
        <3> QED BY <1>1, <3>2
    <2>2. IsFiniteSet(others) /\ Cardinality(others) = Cardinality(0..(n - 1)) - 1
        BY <2>1, FS_RemoveElement
    <2> HIDE DEF n, others
    <2> QED BY <1>1, <2>1, <2>2
<1>5. f \in [S -> others]
    BY <1>2
<1> HIDE DEF rank, others
<1>6. PICK x, y \in S : x # y /\ f[x] = f[y]
    <2> HIDE DEF f
    <2> QED BY <1>4, <1>5, FS_PigeonHole
<1>7. x < y \/ y < x
    BY <1>6
<1> QED BY <1>3, <1>6, <1>7

(* A sequence that is not empty has a first element. *)
LEMMA NonemptyDomain ==
    ASSUME NEW S, NEW b \in Seq(S), b # <<>>
    PROVE  DOMAIN b # {}
<1>1. Len(b) \in Nat \ {0} /\ DOMAIN b = 1..Len(b)
    BY EmptySeq
<1>2. 1 \in 1..Len(b)
    BY <1>1
<1> QED BY <1>1, <1>2

Steps(N, S) == [1..N -> [S -> S]]
Recursions(S, a, N, G) == {f \in [0..N -> S] : f[0] = a /\ \A n \in 1..N : f[n] = G[n][f[n - 1]]}

(* What is defined step by step up to N is a function: the steps are given *)
(* by G, the n-th of which takes what the one before has left.             *)
LEMMA RecursionUpTo ==
    ASSUME NEW S, NEW a \in S, NEW N \in Nat, NEW G \in Steps(N, S)
    PROVE  \E f : f \in Recursions(S, a, N, G)
<1> USE DEF Steps
<1> SUFFICES \E f \in [0..N -> S] : f[0] = a /\ \A n \in 1..N : f[n] = G[n][f[n - 1]]
    BY DEF Recursions
<1> DEFINE Defined(k) == \E f \in [0..k -> S] : f[0] = a /\ \A n \in 1..k : f[n] = G[n][f[n - 1]]
           missing == {k \in 0..N : ~Defined(k)}
<1> SUFFICES ASSUME missing # {} PROVE FALSE
    <2>1. N \in 0..N /\ (N \notin missing => Defined(N))
        OBVIOUS
    <2> HIDE DEF missing
    <2> QED BY <2>1
<1>1. PICK m \in missing : \A k \in missing : m <= k
    <2>1. missing \in SUBSET Nat
        OBVIOUS
    <2> HIDE DEF missing
    <2> QED BY <2>1, LeastNatural
<1>2. CASE m = 0
    <2> DEFINE f == [i \in 0..0 |-> a]
    <2>1. f \in [0..0 -> S] /\ f[0] = a /\ \A n \in 1..0 : f[n] = G[n][f[n - 1]]
        OBVIOUS
    <2> HIDE DEF f
    <2> QED BY <1>1, <1>2, <2>1
<1>3. CASE m # 0
    <2>1. m \in 1..N /\ m - 1 \in 0..N /\ ~(m <= m - 1)
        BY <1>1, <1>3
    <2>2. Defined(m - 1)
        BY <1>1, <2>1
    <2>3. PICK f \in [0..(m - 1) -> S] : f[0] = a /\ \A n \in 1..(m - 1) : f[n] = G[n][f[n - 1]]
        BY <2>2
    <2>4. f[m - 1] \in S /\ G[m][f[m - 1]] \in S
        BY <2>1, <2>3
    <2> DEFINE g == [i \in 0..m |-> IF i = m THEN G[m][f[m - 1]] ELSE f[i]]
    <2>5. g \in [0..m -> S]
        BY <2>1, <2>3, <2>4
    <2>6. \A i \in 0..(m - 1) : g[i] = f[i]
        BY <2>1
    <2>7. g[m] = G[m][f[m - 1]]
        BY <2>1
    <2> HIDE DEF g
    <2>8. g[0] = a
        BY <2>1, <2>3, <2>6
    <2>9. ASSUME NEW n \in 1..m PROVE g[n] = G[n][g[n - 1]]
        <3>1. n - 1 \in 0..(m - 1) /\ (n # m => n \in 1..(m - 1) /\ n \in 0..(m - 1))
            BY <2>1
        <3>2. g[n - 1] = f[n - 1]
            BY <2>6, <3>1
        <3> QED BY <2>3, <2>6, <2>7, <3>1, <3>2
    <2>10. Defined(m)
        BY <2>5, <2>8, <2>9
    <2> QED BY <1>1, <2>10
<1> QED BY <1>2, <1>3

(* The remainder by a product, digit by digit. *)
LEMMA RemainderByProduct ==
    ASSUME NEW v \in Nat, NEW p \in Nat \ {0}, NEW b \in Nat \ {0}
    PROVE  v % (b * p) = (v % p) + ((v \div p) % b) * p
<1> DEFINE q == v \div p
           r == v % p
           t == q \div b
           d == q % b
<1>1. q \in Nat /\ r \in 0..(p - 1) /\ v = p * q + r
    OBVIOUS
<1> HIDE DEF q, r
<1>2. t \in Nat /\ d \in 0..(b - 1) /\ q = b * t + d
    BY <1>1
<1> HIDE DEF t, d
<1>3. p * q = p * (b * t) + p * d
    BY <1>1, <1>2
<1>4. p * (b * t) = (b * p) * t
    BY <1>2
<1>5. v = (b * p) * t + (p * d + r)
    BY <1>1, <1>2, <1>3, <1>4
<1>6. p * d <= p * (b - 1) /\ p * d >= 0
    BY <1>2
<1>7. p * (b - 1) = b * p - p
    OBVIOUS
<1>8. p * d + r \in 0..(b * p - 1) /\ b * p \in Nat \ {0}
    BY <1>1, <1>2, <1>6, <1>7
<1>9. ASSUME NEW m \in Nat \ {0}, NEW s \in 0..(m - 1), NEW x \in Nat, v = m * x + s
      PROVE  v % m = s
    BY <1>9
<1>10. v % (b * p) = p * d + r
    BY <1>2, <1>5, <1>8, <1>9
<1> QED BY <1>1, <1>2, <1>10 DEF q, r, t, d

(* Lists put one behind the other, list by list. *)
LEMMA FlattenStepwise ==
    ASSUME NEW S, NEW w \in Seq(Seq(S))
    PROVE  \E f \in [0..Len(w) -> Seq(S)] :
              /\ f[0] = <<>> /\ FlattenSeq(w) = f[Len(w)]
              /\ \A k \in 1..Len(w) : f[k] = f[k - 1] \o w[k]
<1> DEFINE n == Len(w)
           T == Seq(S)
           G == [k \in 1..n |-> [x \in T |-> x \o w[k]]]
           Recurs(h) == h = [i \in 1..n |-> IF i = 1 THEN w[i] ELSE h[i - 1] \o w[i]]
           flatten == CHOOSE h : Recurs(h)
<1>1. n \in Nat /\ \A k \in 1..n : w[k] \in T
    BY LenProperties
<1>2. <<>> \in T /\ \A x, y \in T : x \o y \in T
    BY EmptySeq, ConcatProperties
<1>3. \A x \in T : <<>> \o x = x
    BY ConcatEmptySeq
<1> HIDE DEF T, n
<1>4. PICK f \in [0..n -> T] : f[0] = <<>> /\ \A k \in 1..n : f[k] = G[k][f[k - 1]]
    <2>1. G \in Steps(n, T)
        BY <1>1, <1>2 DEF Steps
    <2> HIDE DEF G
    <2>2. PICK f : f \in Recursions(T, <<>>, n, G)
        BY <1>1, <1>2, <2>1, RecursionUpTo
    <2> QED BY <2>2 DEF Recursions
<1>5. \A k \in 1..n : f[k] = f[k - 1] \o w[k]
    <2> SUFFICES ASSUME NEW k \in 1..n PROVE f[k] = f[k - 1] \o w[k]
        OBVIOUS
    <2>1. k - 1 \in 0..n
        BY <1>1
    <2>2. f[k - 1] \in T
        BY <1>4, <2>1
    <2> QED BY <1>4, <2>2
<1>5a. n # 0 => f[1] = w[1]
    <2> SUFFICES ASSUME n # 0 PROVE f[1] = w[1]
        OBVIOUS
    <2>1. 1 \in 1..n /\ 1 - 1 = 0
        BY <1>1
    <2>2. f[1] = <<>> \o w[1] /\ w[1] \in T
        BY <1>1, <1>4, <1>5, <2>1
    <2> QED BY <1>3, <2>2
<1> HIDE DEF G
<1>6. n # 0 => FlattenSeq(w) = flatten[n]
    BY DEF FlattenSeq, n
<1>7. Recurs(flatten)
    <2> DEFINE h == [i \in 1..n |-> f[i]]
    <2>1. \A i \in 1..n : f[i] = IF i = 1 THEN w[i] ELSE h[i - 1] \o w[i]
        <3> SUFFICES ASSUME NEW i \in 1..n PROVE f[i] = IF i = 1 THEN w[i] ELSE h[i - 1] \o w[i]
            OBVIOUS
        <3>1. CASE i = 1
            BY <1>1, <1>5a, <3>1
        <3>2. CASE i # 1
            <4>1. i - 1 \in 1..n
                BY <1>1, <3>2
            <4>2. h[i - 1] = f[i - 1]
                BY <4>1
            <4> HIDE DEF h
            <4> QED BY <1>5, <3>2, <4>2
        <3> QED BY <3>1, <3>2
    <2>2. Recurs(h)
        BY <2>1
    <2> HIDE DEF h, Recurs
    <2> QED BY <2>2
<1> HIDE DEF flatten
<1>8. \A i \in 1..n : flatten[i] = IF i = 1 THEN w[i] ELSE flatten[i - 1] \o w[i]
    <2>1. flatten = [i \in 1..n |-> IF i = 1 THEN w[i] ELSE flatten[i - 1] \o w[i]]
        BY <1>7
    <2> HIDE DEF Recurs
    <2> QED BY <2>1
<1> HIDE DEF Recurs
<1> DEFINE others == {i \in 1..n : flatten[i] # f[i]}
<1>9. others = {}
    <2> SUFFICES ASSUME others # {} PROVE FALSE
        OBVIOUS
    <2>1. PICK m \in others : \A k \in others : m <= k
        <3>1. others \in SUBSET Nat
            BY <1>1
        <3> HIDE DEF others
        <3> QED BY <3>1, LeastNatural
    <2>2. CASE m = 1
        <3>1. 1 \in 1..n /\ n # 0
            BY <1>1, <2>1, <2>2
        <3>2. flatten[1] = w[1]
            BY <1>8, <3>1
        <3> QED BY <1>5a, <2>1, <2>2, <3>1, <3>2
    <2>3. CASE m # 1
        <3>1. m - 1 \in 1..n /\ ~(m <= m - 1) /\ m \in 1..n
            BY <1>1, <2>1, <2>3
        <3>2. flatten[m - 1] = f[m - 1]
            BY <2>1, <3>1
        <3> QED BY <1>5, <1>8, <2>1, <2>3, <3>1, <3>2
    <2> QED BY <2>2, <2>3
<1>10. FlattenSeq(w) = f[n]
    <2>1. CASE n = 0
        <3>1. w = <<>> /\ FlattenSeq(w) = w
            BY <2>1, EmptySeq DEF FlattenSeq, n
        <3> QED BY <1>4, <2>1, <3>1
    <2>2. CASE n # 0
        <3>1. n \in 1..n
            BY <1>1, <2>2
        <3> QED BY <1>6, <1>9, <2>2, <3>1
    <2> QED BY <2>1, <2>2
<1> QED BY <1>4, <1>5, <1>10 DEF n, T

(* Of what the lists are made, the whole is.                               *)
LEMMA FlattenType ==
    ASSUME NEW S, NEW w \in Seq(Seq(S))
    PROVE  FlattenSeq(w) \in Seq(S)
<1>1. Len(w) \in Nat
    BY LenProperties
<1>2. PICK f \in [0..Len(w) -> Seq(S)] : FlattenSeq(w) = f[Len(w)]
    BY FlattenStepwise
<1> QED BY <1>1, <1>2

(* A function of the first n numbers is a list of n.                       *)
LEMMA FunctionIsSequence ==
    ASSUME NEW S, NEW n \in Nat, NEW w \in [1..n -> S]
    PROVE  w \in Seq(S) /\ Len(w) = n /\ DOMAIN w = 1..n
<1>1. w \in Seq(S)
    BY SeqDef
<1>2. DOMAIN w = 1..n
    OBVIOUS
<1>3. Len(w) = n
    BY <1>1, <1>2
<1> QED BY <1>1, <1>2, <1>3

(* What holds of the lowest place, and of each that the one below it does, *)
(* holds of every place.                                                   *)
LEMMA EveryPlace ==
    ASSUME NEW m \in Nat, NEW n \in Nat, NEW B, m \in B, \A k \in (m + 1)..n : k - 1 \in B => k \in B
    PROVE  \A k \in m..n : k \in B
<1> DEFINE others == {k \in m..n : k \notin B}
<1> SUFFICES ASSUME others # {} PROVE FALSE
    OBVIOUS
<1>1. PICK k \in others : \A j \in others : k <= j
    <2>1. others \in SUBSET Nat
        OBVIOUS
    <2> HIDE DEF others
    <2> QED BY <2>1, LeastNatural
<1>2. k # m
    BY <1>1
<1>3. k \in (m + 1)..n /\ k - 1 \in m..n /\ ~(k <= k - 1)
    BY <1>1, <1>2
<1> QED BY <1>1, <1>3

(* The remainder is what is left over from a multiple, less than it, and a *)
(* place of a ring is found again from any other.                          *)
LEMMA Remainder ==
    ASSUME NEW m \in Nat \ {0}, NEW r \in 0..(m - 1), NEW x \in Int, NEW v \in Int, v = m * x + r
    PROVE  v % m = r
OBVIOUS

LEMMA InRing ==
    ASSUME NEW R \in Nat \ {0}, NEW x \in Int
    PROVE  x % R \in 0..(R - 1)
OBVIOUS

(* The m-th place behind place w of a ring. *)
LEMMA PlaceInRing ==
    ASSUME NEW R \in Nat \ {0}, NEW w \in 0..(R - 1), NEW m \in 0..(R - 1)
    PROVE  (w + m) % R \in 0..(R - 1) /\ (((w + m) % R) - w) % R = m
<1>1. CASE w + m < R
    <2>1. w + m \in 0..(R - 1) /\ w + m = R * 0 + (w + m) /\ m = R * 0 + m
        BY <1>1
    <2>2. (w + m) % R = w + m /\ m % R = m
        BY <2>1, Remainder
    <2>3. w + m - w = m
        OBVIOUS
    <2> QED BY <2>1, <2>2, <2>3
<1>2. CASE ~(w + m < R)
    <2>1. w + m - R \in 0..(R - 1) /\ w + m = R * 1 + (w + m - R) /\ m - R = R * (-1) + m
        BY <1>2
    <2>2. (w + m) % R = w + m - R /\ (m - R) % R = m
        BY <2>1, Remainder
    <2>3. w + m - R - w = m - R
        OBVIOUS
    <2> QED BY <2>1, <2>2, <2>3
<1> QED BY <1>1, <1>2

(* What is defined step by step stays in the sets that the steps lead to,  *)
(* even if no step is defined outside of them.                             *)
StepwiseIn(a, N, B, G) ==
    {f \in [0..N -> UNION {B[n] : n \in 0..N}] :
        f[0] = a /\ \A n \in 1..N : f[n] = G[n][f[n - 1]] /\ f[n] \in B[n]}

LEMMA StaysUpTo ==
    ASSUME NEW N \in Nat, NEW B, NEW a \in B[0], NEW G,
           \A n \in 1..N : \A x \in B[n - 1] : G[n][x] \in B[n]
    PROVE  \E f : f \in StepwiseIn(a, N, B, G)
<1> DEFINE S == UNION {B[n] : n \in 0..N}
           H == [n \in 1..N |-> [x \in S |-> IF x \in B[n - 1] THEN G[n][x] ELSE x]]
<1>1. \A n \in 1..N : n - 1 \in 0..N /\ n \in 0..N
    OBVIOUS
<1>2. \A n \in 0..N : B[n] \subseteq S
    OBVIOUS
<1>3. a \in S
    <2>1. 0 \in 0..N
        OBVIOUS
    <2> QED BY <1>2, <2>1
<1> HIDE DEF S
<1>4. H \in Steps(N, S)
    <2> SUFFICES ASSUME NEW n \in 1..N PROVE H[n] \in [S -> S]
        BY DEF Steps
    <2>1. \A x \in B[n - 1] : G[n][x] \in S
        BY <1>1, <1>2
    <2> QED BY <2>1
<1>5. \A n \in 1..N : \A x \in S : x \in B[n - 1] => H[n][x] = G[n][x]
    OBVIOUS
<1> HIDE DEF H
<1>6. PICK f : f \in Recursions(S, a, N, H)
    BY <1>3, <1>4, RecursionUpTo
<1>7. f \in [0..N -> S] /\ f[0] = a /\ \A n \in 1..N : f[n] = H[n][f[n - 1]]
    BY <1>6 DEF Recursions
<1> DEFINE In == {n \in 0..N : f[n] \in B[n]}
<1>8. 0 \in In
    BY <1>7
<1>9. ASSUME NEW n \in 1..N, n - 1 \in In PROVE f[n] = G[n][f[n - 1]] /\ n \in In
    <2>1. f[n - 1] \in B[n - 1] /\ f[n - 1] \in S
        BY <1>1, <1>7, <1>9
    <2>2. f[n] = G[n][f[n - 1]]
        BY <1>5, <1>7, <2>1
    <2> QED BY <1>1, <2>1, <2>2
<1>10. \A n \in 0..N : n \in In
    <2> HIDE DEF In
    <2>1. \A n \in (0 + 1)..N : n - 1 \in In => n \in In
        BY <1>9
    <2> QED BY <1>8, <2>1, EveryPlace
<1>11. \A n \in 1..N : f[n] = G[n][f[n - 1]] /\ f[n] \in B[n]
    BY <1>1, <1>9, <1>10
<1>12. f \in StepwiseIn(a, N, B, G)
    BY <1>7, <1>11 DEF StepwiseIn, S
<1> QED BY <1>12

(* Two lists of lists, one behind the other. *)
LEMMA FlattenConcat ==
    ASSUME NEW S, NEW u \in Seq(Seq(S)), NEW v \in Seq(Seq(S))
    PROVE  FlattenSeq(u \o v) = FlattenSeq(u) \o FlattenSeq(v)
<1> DEFINE m == Len(u)
           n == Len(v)
           T == Seq(S)
<1>1. m \in Nat /\ n \in Nat
    BY LenProperties
<1>2. /\ u \o v \in Seq(T) /\ Len(u \o v) = m + n
      /\ \A k \in 1..m : (u \o v)[k] = u[k]
      /\ \A k \in 1..n : (u \o v)[m + k] = v[k]
    <2>1. \A k \in 1..n : m + k \in 1..(m + n) /\ m + k > m /\ (m + k) - m = k
        BY <1>1
    <2> QED BY <1>1, <2>1, ConcatProperties
<1>3. PICK f \in [0..m -> T] : f[0] = <<>> /\ FlattenSeq(u) = f[m] /\ \A k \in 1..m : f[k] = f[k - 1] \o u[k]
    BY FlattenStepwise DEF T
<1>4. PICK g \in [0..n -> T] : g[0] = <<>> /\ FlattenSeq(v) = g[n] /\ \A k \in 1..n : g[k] = g[k - 1] \o v[k]
    BY FlattenStepwise DEF T
<1>5. PICK h \in [0..(m + n) -> T] : /\ h[0] = <<>> /\ FlattenSeq(u \o v) = h[m + n]
                                     /\ \A k \in 1..(m + n) : h[k] = h[k - 1] \o (u \o v)[k]
    BY <1>2, FlattenStepwise DEF T
<1>6. /\ \A k \in 1..m : u[k] \in T
      /\ \A k \in 1..n : v[k] \in T
    BY <1>1
<1> HIDE DEF T, m, n
<1>7. h[m] = f[m]
    <2> DEFINE B == {k \in 0..m : h[k] = f[k]}
    <2>1. 0 \in B
        BY <1>1, <1>3, <1>5
    <2>2. ASSUME NEW k \in 1..m, k - 1 \in B PROVE k \in B
        <3>1. k \in 1..(m + n) /\ k \in 0..m
            BY <1>1
        <3> QED BY <1>2, <1>3, <1>5, <2>2, <3>1
    <2>3. \A k \in (0 + 1)..m : k - 1 \in B => k \in B
        BY <2>2
    <2> HIDE DEF B
    <2>4. \A k \in 0..m : k \in B
        BY <1>1, <2>1, <2>3, EveryPlace
    <2>5. m \in 0..m
        BY <1>1
    <2> QED BY <2>4, <2>5 DEF B
<1>8. h[m + n] = f[m] \o g[n]
    <2> DEFINE B == {k \in 0..n : h[m + k] = f[m] \o g[k]}
    <2>1. 0 \in B
        <3>1. f[m] \in Seq(S)
            BY <1>1, <1>3 DEF T
        <3>2. f[m] \o <<>> = f[m]
            BY <3>1, ConcatEmptySeq
        <3>3. m + 0 = m /\ 0 \in 0..n
            BY <1>1
        <3> QED BY <1>4, <1>7, <3>2, <3>3
    <2>2. ASSUME NEW k \in 1..n, k - 1 \in B PROVE k \in B
        <3>1. /\ m + k \in 1..(m + n) /\ (m + k) - 1 = m + (k - 1) /\ k \in 0..n
              /\ k - 1 \in 0..n /\ m \in 0..m
            BY <1>1
        <3>2. h[m + k] = h[m + (k - 1)] \o v[k]
            BY <1>2, <1>5, <3>1
        <3>3. h[m + k] = (f[m] \o g[k - 1]) \o v[k]
            BY <2>2, <3>2
        <3>4. f[m] \in Seq(S) /\ g[k - 1] \in Seq(S) /\ v[k] \in Seq(S)
            BY <1>3, <1>4, <1>6, <3>1 DEF T
        <3>5. (f[m] \o g[k - 1]) \o v[k] = f[m] \o (g[k - 1] \o v[k])
            <4> DEFINE x == f[m]
                       y == g[k - 1]
                       z == v[k]
            <4>1. x \in Seq(S) /\ y \in Seq(S) /\ z \in Seq(S)
                BY <3>4
            <4> HIDE DEF x, y, z
            <4>2. (x \o y) \o z = x \o (y \o z)
                BY <4>1, ConcatAssociative, SMTT(20)
            <4> QED BY <4>2 DEF x, y, z
        <3> QED BY <1>4, <3>1, <3>3, <3>5
    <2> HIDE DEF B
    <2>3. \A k \in (0 + 1)..n : k - 1 \in B => k \in B
        BY <2>2
    <2>4. \A k \in 0..n : k \in B
        BY <1>1, <2>1, <2>3, EveryPlace
    <2>5. n \in 0..n
        BY <1>1
    <2> QED BY <2>4, <2>5 DEF B
<1> QED BY <1>3, <1>4, <1>5, <1>8

(* The lists that flattening the first k lists gives, k going up to n. *)
Flattenings(S, w, n) ==
    {f \in [0..n -> Seq(S)] : /\ f[0] = <<>> /\ FlattenSeq(w) = f[n]
                              /\ \A k \in 1..n : f[k] = f[k - 1] \o w[k]}

(* There are such lists for any list of lists. *)
LEMMA FlattenUpTo ==
    ASSUME NEW S, NEW w \in Seq(Seq(S)), NEW n, Len(w) = n
    PROVE  \E f : f \in Flattenings(S, w, n)
<1>1. \E f \in [0..Len(w) -> Seq(S)] :
              /\ f[0] = <<>> /\ FlattenSeq(w) = f[Len(w)]
              /\ \A k \in 1..Len(w) : f[k] = f[k - 1] \o w[k]
    BY FlattenStepwise
<1> QED BY <1>1 DEF Flattenings

(* What of a list is in P, in its order. *)
Those(s, P) == FlattenSeq([k \in DOMAIN s |-> IF s[k] \in P THEN <<s[k]>> ELSE <<>>])

(* The parts of those, and that they are a list of the same elements. *)
LEMMA ThoseParts ==
    ASSUME NEW S, NEW P, NEW s \in Seq(S)
    PROVE  [k \in DOMAIN s |-> IF s[k] \in P THEN <<s[k]>> ELSE <<>>] \in Seq(Seq(S))
<1> DEFINE w == [k \in 1..Len(s) |-> IF s[k] \in P THEN <<s[k]>> ELSE <<>>]
<1>1. Len(s) \in Nat /\ DOMAIN s = 1..Len(s) /\ \A k \in 1..Len(s) : s[k] \in S
    BY LenProperties
<1>2. \A x \in S : <<x>> \in Seq(S) /\ <<>> \in Seq(S)
    OBVIOUS
<1>3. w \in [1..Len(s) -> Seq(S)]
    <2> SUFFICES ASSUME NEW k \in 1..Len(s) PROVE w[k] \in Seq(S)
        OBVIOUS
    <2> QED BY <1>1, <1>2
<1> HIDE DEF w
<1>4. w \in Seq(Seq(S))
    BY <1>1, <1>3, FunctionIsSequence
<1> QED BY <1>1, <1>4 DEF w

LEMMA ThoseType ==
    ASSUME NEW S, NEW P, NEW s \in Seq(S)
    PROVE  Those(s, P) \in Seq(S)
<1> DEFINE w == [k \in DOMAIN s |-> IF s[k] \in P THEN <<s[k]>> ELSE <<>>]
<1>1. w \in Seq(Seq(S))
    BY ThoseParts
<1> HIDE DEF w
<1>2. FlattenSeq(w) \in Seq(S)
    BY <1>1, FlattenType
<1> QED BY <1>2 DEF Those, w

(* Those of two lists are those of the one and then those of the other. *)
LEMMA ThoseOfBoth ==
    ASSUME NEW S, NEW P, NEW s \in Seq(S), NEW t \in Seq(S)
    PROVE  Those(s \o t, P) = Those(s, P) \o Those(t, P)
<1> DEFINE Part(r) == [k \in DOMAIN r |-> IF r[k] \in P THEN <<r[k]>> ELSE <<>>]
<1>1. Part(s) \in Seq(Seq(S)) /\ Part(t) \in Seq(Seq(S))
    BY ThoseParts
<1>2. s \o t \in Seq(S)
    BY ConcatProperties
<1>3. Part(s \o t) \in Seq(Seq(S))
    BY <1>2, ThoseParts
<1>4. /\ Len(s) \in Nat /\ Len(t) \in Nat /\ Len(s \o t) = Len(s) + Len(t)
      /\ DOMAIN s = 1..Len(s) /\ DOMAIN t = 1..Len(t) /\ DOMAIN (s \o t) = 1..(Len(s) + Len(t))
    BY <1>2, ConcatProperties, LenProperties
<1>5. /\ \A k \in 1..Len(s) : (s \o t)[k] = s[k]
      /\ \A k \in 1..Len(t) : (s \o t)[Len(s) + k] = t[k]
    <2>1. \A k \in 1..Len(t) : Len(s) + k \in 1..(Len(s) + Len(t)) /\ Len(s) + k > Len(s) /\ (Len(s) + k) - Len(s) = k
        BY <1>4
    <2>2. \A k \in 1..Len(s) : k \in 1..(Len(s) + Len(t)) /\ k <= Len(s)
        BY <1>4
    <2> QED BY <1>4, <2>1, <2>2, ConcatProperties
<1>6. \A k \in 1..Len(s) : Part(s \o t)[k] = Part(s)[k]
    <2> SUFFICES ASSUME NEW k \in 1..Len(s) PROVE Part(s \o t)[k] = Part(s)[k]
        OBVIOUS
    <2>1. k \in DOMAIN s /\ k \in DOMAIN (s \o t)
        BY <1>4
    <2> QED BY <1>5, <2>1
<1>7. \A k \in 1..Len(t) : Part(s \o t)[Len(s) + k] = Part(t)[k]
    <2> SUFFICES ASSUME NEW k \in 1..Len(t) PROVE Part(s \o t)[Len(s) + k] = Part(t)[k]
        OBVIOUS
    <2>1. k \in DOMAIN t /\ Len(s) + k \in DOMAIN (s \o t)
        BY <1>4
    <2> QED BY <1>5, <2>1
<1>8. DOMAIN Part(s \o t) = 1..(Len(s) + Len(t)) /\ DOMAIN Part(s) = 1..Len(s) /\ DOMAIN Part(t) = 1..Len(t)
    BY <1>4
<1> HIDE DEF Part
<1>9. Part(s \o t) = Part(s) \o Part(t)
    <2>1. Len(Part(s)) = Len(s) /\ Len(Part(t)) = Len(t) /\ Len(Part(s \o t)) = Len(s) + Len(t)
        BY <1>1, <1>3, <1>4, <1>8, LenProperties
    <2> DEFINE x == Part(s)
               y == Part(t)
               z == Part(s \o t)
               a == Len(s)
               b == Len(t)
    <2>2. /\ x \in Seq(Seq(S)) /\ y \in Seq(Seq(S)) /\ z \in Seq(Seq(S)) /\ Len(x) = a /\ Len(y) = b /\ Len(z) = a + b
          /\ a \in Nat /\ b \in Nat
          /\ \A k \in 1..a : z[k] = x[k]
          /\ \A k \in 1..b : z[a + k] = y[k]
        BY <1>1, <1>3, <1>4, <1>6, <1>7, <2>1
    <2> HIDE DEF x, y, z, a, b
    <2>3. /\ x \o y \in Seq(Seq(S)) /\ Len(x \o y) = a + b
          /\ \A k \in 1..(a + b) : (x \o y)[k] = IF k <= a THEN x[k] ELSE y[k - a]
        BY <2>2, ConcatProperties
    <2>4. ASSUME NEW k \in 1..(a + b) PROVE z[k] = (x \o y)[k]
        <3>1. CASE k <= a
            <4>1. k \in 1..a
                BY <2>2, <3>1
            <4> QED BY <2>2, <2>3, <3>1, <4>1
        <3>2. CASE ~(k <= a)
            <4>1. k - a \in 1..b /\ a + (k - a) = k
                BY <2>2, <3>2
            <4>2. z[a + (k - a)] = y[k - a]
                BY <2>2, <4>1
            <4> QED BY <2>3, <3>2, <4>1, <4>2
        <3> QED BY <3>1, <3>2
    <2>5. z = x \o y
        BY <2>2, <2>3, <2>4, SeqEqual
    <2> QED BY <2>5 DEF x, y, z
<1>10. FlattenSeq(Part(s) \o Part(t)) = FlattenSeq(Part(s)) \o FlattenSeq(Part(t))
    BY <1>1, FlattenConcat
<1> QED BY <1>9, <1>10 DEF Those, Part

(* A list of which only elements outside of P have been taken has the same *)
(* ones in P.                                                              *)
LEMMA ThinnedKeeps ==
    ASSUME NEW S, NEW P, NEW s \in Seq(S), NEW w \in Seq(Seq(S)), Len(w) = Len(s),
           \A k \in 1..Len(s) : w[k] = <<s[k]>> \/ (w[k] = <<>> /\ s[k] \notin P)
    PROVE  Those(FlattenSeq(w), P) = Those(s, P)
<1> DEFINE n == Len(s)
           T == Seq(S)
           u == [k \in DOMAIN s |-> IF s[k] \in P THEN <<s[k]>> ELSE <<>>]
<1>1. n \in Nat /\ DOMAIN s = 1..n /\ \A k \in 1..n : s[k] \in S
    BY LenProperties
<1>2. u \in Seq(T) /\ Len(u) = n
    <2>1. u \in Seq(T)
        BY ThoseParts DEF T
    <2>2. DOMAIN u = 1..n
        BY <1>1
    <2> HIDE DEF u, T, n
    <2> QED BY <1>1, <2>1, <2>2, LenProperties
<1>3. \A k \in 1..n : u[k] = IF s[k] \in P THEN <<s[k]>> ELSE <<>>
    BY <1>1
<1>4. Those(s, P) = FlattenSeq(u)
    BY DEF Those
<1> HIDE DEF u
<1>5. PICK f \in [0..n -> T] : f[0] = <<>> /\ FlattenSeq(w) = f[n] /\ \A k \in 1..n : f[k] = f[k - 1] \o w[k]
    <2>1. \E f : f \in Flattenings(S, w, n)
        BY FlattenUpTo DEF T, n
    <2> QED BY <2>1 DEF Flattenings, T
<1>6. PICK g \in [0..n -> T] : g[0] = <<>> /\ FlattenSeq(u) = g[n] /\ \A k \in 1..n : g[k] = g[k - 1] \o u[k]
    <2>1. \E g : g \in Flattenings(S, u, n)
        BY <1>2, FlattenUpTo DEF T, n
    <2> QED BY <2>1 DEF Flattenings, T
<1> DEFINE B == {k \in 0..n : Those(f[k], P) = g[k]}
<1>7. Those(<<>>, P) = <<>>
    <2> DEFINE e == [k \in DOMAIN <<>> |-> IF <<>>[k] \in P THEN <<(<<>>)[k]>> ELSE <<>>]
    <2>1. e = <<>>
        OBVIOUS
    <2> HIDE DEF e
    <2>2. FlattenSeq(e) = <<>>
        <3>1. Len(e) = 0
            BY <2>1
        <3> QED BY <2>1, <3>1 DEF FlattenSeq
    <2> QED BY <2>2 DEF Those, e
<1>8. \A x \in S : Those(<<x>>, P) = IF x \in P THEN <<x>> ELSE <<>>
    <2> SUFFICES ASSUME NEW x \in S PROVE Those(<<x>>, P) = IF x \in P THEN <<x>> ELSE <<>>
        OBVIOUS
    <2> DEFINE y == IF x \in P THEN <<x>> ELSE <<>>
               e == [k \in DOMAIN <<x>> |-> IF <<x>>[k] \in P THEN <<(<<x>>)[k]>> ELSE <<>>]
    <2>1. e = <<y>>
        OBVIOUS
    <2>2. y \in T
        BY DEF T
    <2> HIDE DEF y, e
    <2>3. FlattenSeq(<<y>>) = y
        <3>1. <<y>> \in Seq(Seq(S)) /\ Len(<<y>>) = 1 /\ <<y>>[1] = y
            BY <2>2 DEF T
        <3>2. PICK h \in [0..1 -> Seq(S)] : h[0] = <<>> /\ FlattenSeq(<<y>>) = h[1] /\ \A k \in 1..1 : h[k] = h[k - 1] \o <<y>>[k]
            <4>1. \E h : h \in Flattenings(S, <<y>>, 1)
                BY <3>1, FlattenUpTo DEF T, n
            <4> QED BY <4>1 DEF Flattenings, T
        <3>3. 1 \in 1..1 /\ 1 - 1 = 0
            OBVIOUS
        <3>4. h[1] = h[1 - 1] \o <<y>>[1]
            BY <3>2, <3>3
        <3>5. h[1] = <<>> \o y
            BY <3>1, <3>2, <3>3, <3>4
        <3> QED BY <2>2, <3>2, <3>5, ConcatEmptySeq DEF T
    <2> QED BY <2>1, <2>3 DEF Those, y, e
<1>9. ASSUME NEW k \in 1..n, k - 1 \in B PROVE k \in B
    <2>1. k - 1 \in 0..n /\ k \in 0..n
        BY <1>1
    <2>2. f[k - 1] \in Seq(S) /\ g[k - 1] \in Seq(S) /\ s[k] \in S
        BY <1>1, <1>5, <1>6, <2>1 DEF T
    <2>3. Those(f[k - 1], P) = g[k - 1]
        BY <1>9
    <2>4. w[k] = <<s[k]>> \/ (w[k] = <<>> /\ s[k] \notin P)
        BY DEF n
    <2> HIDE DEF B
    <2>5. CASE w[k] = <<s[k]>>
        <3>1. f[k] = f[k - 1] \o <<s[k]>>
            BY <1>5, <2>5
        <3>2. <<s[k]>> \in Seq(S)
            BY <2>2
        <3>3. Those(f[k - 1] \o <<s[k]>>, P) = Those(f[k - 1], P) \o Those(<<s[k]>>, P)
            BY <2>2, <3>2, ThoseOfBoth, ZenonT(30)
        <3>4. Those(<<s[k]>>, P) = u[k]
            BY <1>3, <1>8, <2>2
        <3>5. Those(f[k], P) = g[k - 1] \o u[k]
            BY <2>3, <3>1, <3>3, <3>4
        <3> QED BY <1>6, <2>1, <3>5 DEF B
    <2>6. CASE w[k] = <<>> /\ s[k] \notin P
        <3>1. f[k] = f[k - 1] /\ g[k] = g[k - 1]
            <4>1. f[k] = f[k - 1] \o <<>> /\ g[k] = g[k - 1] \o <<>>
                BY <1>3, <1>5, <1>6, <2>6
            <4> QED BY <2>2, <4>1, ConcatEmptySeq
        <3> QED BY <2>1, <2>3, <3>1 DEF B
    <2> QED BY <2>4, <2>5, <2>6
<1>10. 0 \in B
    BY <1>1, <1>5, <1>6, <1>7
<1> HIDE DEF B
<1>11. \A k \in (0 + 1)..n : k - 1 \in B => k \in B
    BY <1>9
<1>12. \A k \in 0..n : k \in B
    BY <1>1, <1>10, <1>11, EveryPlace
<1>13. n \in 0..n
    BY <1>1
<1> QED BY <1>4, <1>5, <1>6, <1>12, <1>13 DEF B

(* A list r of what is left of s, whose last element has stayed the last. *)
ThinnedOut(S, s, w, r) ==
    /\ r \in Seq(S) /\ Len(r) \in Nat \ {0} /\ r[Len(r)] = s[Len(s)]
    /\ \A j \in 1..(Len(r) - 1) : \E k \in 1..(Len(s) - 1) : w[k] = <<s[k]>> /\ r[j] = s[k]

(* What is left of a list comes from it, and if its last element stays it  *)
(* stays the last, the others coming from before it.                       *)
LEMMA ThinnedFrom ==
    ASSUME NEW S, NEW s \in Seq(S), s # <<>>, NEW w \in Seq(Seq(S)), Len(w) = Len(s),
           \A k \in 1..Len(s) : w[k] = <<s[k]>> \/ w[k] = <<>>,
           w[Len(s)] = <<s[Len(s)]>>
    PROVE  ThinnedOut(S, s, w, FlattenSeq(w))
<1> DEFINE n == Len(s)
           T == Seq(S)
           r == FlattenSeq(w)
<1>1. n \in Nat \ {0} /\ \A k \in 1..n : s[k] \in S
    BY EmptySeq, LenProperties
<1>2. PICK f \in [0..n -> T] : f[0] = <<>> /\ FlattenSeq(w) = f[n] /\ \A k \in 1..n : f[k] = f[k - 1] \o w[k]
    <2>1. \E f : f \in Flattenings(S, w, n)
        BY FlattenUpTo DEF T, n
    <2> QED BY <2>1 DEF Flattenings, T
<1> DEFINE From(x, k) == \A j \in 1..Len(x) : \E i \in 1..k : w[i] = <<s[i]>> /\ x[j] = s[i]
           B == {k \in 0..n : From(f[k], k)}
<1>3. ASSUME NEW k \in 1..n, k - 1 \in B PROVE k \in B
    <2>1. k - 1 \in 0..n /\ k \in 0..n
        BY <1>1
    <2>2. f[k - 1] \in Seq(S) /\ s[k] \in S
        BY <1>1, <1>2, <2>1 DEF T
    <2>3. From(f[k - 1], k - 1)
        BY <1>3
    <2>4. w[k] = <<s[k]>> \/ w[k] = <<>>
        BY DEF n
    <2> HIDE DEF B
    <2>5. CASE w[k] = <<s[k]>>
        <3> DEFINE x == f[k - 1]
        <3>1. f[k] = x \o <<s[k]>>
            BY <1>2, <2>5
        <3>2. <<s[k]>> \in Seq(S) /\ Len(<<s[k]>>) = 1 /\ <<s[k]>>[1] = s[k] /\ Len(x) \in Nat
            BY <2>2
        <3>3. /\ Len(f[k]) = Len(x) + 1
              /\ \A j \in 1..(Len(x) + 1) : f[k][j] = IF j <= Len(x) THEN x[j] ELSE <<s[k]>>[j - Len(x)]
            BY <2>2, <3>1, <3>2, ConcatProperties
        <3>4. ASSUME NEW j \in 1..(Len(x) + 1) PROVE \E i \in 1..k : w[i] = <<s[i]>> /\ f[k][j] = s[i]
            <4>1. CASE j <= Len(x)
                <5>1. j \in 1..Len(x)
                    BY <3>2, <4>1
                <5>2. PICK i \in 1..(k - 1) : w[i] = <<s[i]>> /\ x[j] = s[i]
                    BY <2>3, <5>1
                <5>3. i \in 1..k
                    BY <1>1
                <5> QED BY <3>3, <4>1, <5>2, <5>3
            <4>2. CASE ~(j <= Len(x))
                <5>1. j - Len(x) = 1 /\ k \in 1..k
                    BY <1>1, <3>2, <4>2
                <5>2. f[k][j] = s[k]
                    BY <3>2, <3>3, <4>2, <5>1
                <5> QED BY <2>5, <5>1, <5>2
            <4> QED BY <4>1, <4>2
        <3> HIDE DEF x
        <3>5. From(f[k], k)
            BY <3>3, <3>4
        <3> QED BY <2>1, <3>5 DEF B
    <2>6. CASE w[k] = <<>>
        <3>1. f[k] = f[k - 1]
            <4>1. f[k] = f[k - 1] \o <<>>
                BY <1>2, <2>6
            <4> QED BY <2>2, <4>1, ConcatEmptySeq
        <3>2. \A i \in 1..(k - 1) : i \in 1..k
            BY <1>1
        <3>3. From(f[k], k)
            BY <2>3, <3>1, <3>2
        <3> QED BY <2>1, <3>3 DEF B
    <2> QED BY <2>4, <2>5, <2>6
<1>4. 0 \in B
    BY <1>1, <1>2
<1> HIDE DEF B
<1>5. \A k \in (0 + 1)..n : k - 1 \in B => k \in B
    BY <1>3
<1>6. \A k \in 0..n : k \in B
    BY <1>1, <1>4, <1>5, EveryPlace
<1>7. n - 1 \in 0..n /\ n \in 1..n
    BY <1>1
<1>8. From(f[n - 1], n - 1)
    BY <1>6, <1>7 DEF B
<1> DEFINE x == f[n - 1]
           z == s[n]
<1>9. x \in Seq(S) /\ z \in S /\ r = x \o <<z>>
    BY <1>1, <1>2, <1>7 DEF T
<1>10. From(x, n - 1)
    BY <1>8
<1> HIDE DEF x, z, r
<1>11. <<z>> \in Seq(S) /\ Len(<<z>>) = 1 /\ <<z>>[1] = z /\ Len(x) \in Nat
    BY <1>9
<1>12. /\ r \in Seq(S) /\ Len(r) = Len(x) + 1
       /\ \A j \in 1..(Len(x) + 1) : r[j] = IF j <= Len(x) THEN x[j] ELSE <<z>>[j - Len(x)]
    BY <1>9, <1>11, ConcatProperties
<1>13. Len(x) + 1 \in 1..(Len(x) + 1) /\ ~(Len(x) + 1 <= Len(x)) /\ (Len(x) + 1) - Len(x) = 1
    BY <1>11
<1>14. r[Len(r)] = z
    BY <1>11, <1>12, <1>13
<1>15. ASSUME NEW j \in 1..(Len(r) - 1) PROVE \E k \in 1..(n - 1) : w[k] = <<s[k]>> /\ r[j] = s[k]
    <2>1. j \in 1..Len(x) /\ j \in 1..(Len(x) + 1) /\ j <= Len(x)
        BY <1>11, <1>12
    <2>2. r[j] = x[j]
        BY <1>12, <2>1
    <2> QED BY <1>10, <2>1, <2>2
<1>16. Len(r) \in Nat \ {0}
    BY <1>11, <1>12
<1> QED BY <1>12, <1>14, <1>15, <1>16 DEF ThinnedOut, r, z, n

(* What is only renamed outside of P changes nothing in it. *)
LEMMA RenamedThose ==
    ASSUME NEW P, NEW s, NEW t, DOMAIN s = DOMAIN t,
           \A k \in DOMAIN s : s[k] = t[k] \/ (s[k] \notin P /\ t[k] \notin P)
    PROVE  Those(s, P) = Those(t, P)
<1> DEFINE Part(r) == [k \in DOMAIN r |-> IF r[k] \in P THEN <<r[k]>> ELSE <<>>]
<1>1. Part(s) = Part(t)
    OBVIOUS
<1> HIDE DEF Part
<1>2. FlattenSeq(Part(s)) = FlattenSeq(Part(t))
    BY <1>1
<1> QED BY <1>2 DEF Those, Part

(* A list none of which is in P. *)
LEMMA NoneOfThose ==
    ASSUME NEW S, NEW P, NEW s \in Seq(S), \A k \in 1..Len(s) : s[k] \notin P
    PROVE  Those(s, P) = <<>>
<1> DEFINE w == [k \in DOMAIN s |-> IF s[k] \in P THEN <<s[k]>> ELSE <<>>]
           n == Len(s)
           T == Seq(S)
<1>1. n \in Nat /\ DOMAIN s = 1..n
    BY LenProperties
<1>2. w \in Seq(T)
    BY ThoseParts DEF T
<1>3. DOMAIN w = 1..n /\ \A k \in 1..n : w[k] = <<>>
    BY <1>1 DEF n
<1> HIDE DEF w
<1>4. Len(w) = n
    BY <1>1, <1>2, <1>3, LenProperties
<1> HIDE DEF n, T
<1>5. PICK f \in [0..n -> T] : f[0] = <<>> /\ FlattenSeq(w) = f[n] /\ \A k \in 1..n : f[k] = f[k - 1] \o w[k]
    <2>1. \E f : f \in Flattenings(S, w, n)
        BY <1>2, <1>4, FlattenUpTo DEF T, n
    <2> QED BY <2>1 DEF Flattenings, T
<1> DEFINE B == {k \in 0..n : f[k] = <<>>}
<1>6. 0 \in B
    BY <1>1, <1>5
<1>7. ASSUME NEW k \in 1..n, k - 1 \in B PROVE k \in B
    <2>1. k \in 0..n /\ k - 1 \in 0..n
        BY <1>1
    <2>2. f[k] = <<>> \o <<>>
        BY <1>3, <1>5, <1>7, <2>1
    <2>3. f[k] = <<>>
        BY <2>2
    <2> QED BY <2>1, <2>3
<1> HIDE DEF B
<1>8. \A k \in (0 + 1)..n : k - 1 \in B => k \in B
    BY <1>7
<1>9. \A k \in 0..n : k \in B
    BY <1>1, <1>6, <1>8, EveryPlace
<1>10. n \in 0..n
    BY <1>1
<1>11. FlattenSeq(w) = <<>>
    BY <1>5, <1>9, <1>10 DEF B
<1> QED BY <1>11 DEF Those, w

(* A list all of which is in P. *)
LEMMA AllOfThose ==
    ASSUME NEW S, NEW P, NEW s \in Seq(S), \A k \in 1..Len(s) : s[k] \in P
    PROVE  Those(s, P) = s
<1> DEFINE w == [k \in DOMAIN s |-> IF s[k] \in P THEN <<s[k]>> ELSE <<>>]
           n == Len(s)
           T == Seq(S)
<1>1. n \in Nat /\ DOMAIN s = 1..n /\ \A k \in 1..n : s[k] \in S
    BY LenProperties
<1>2. w \in Seq(T)
    BY ThoseParts DEF T
<1>3. DOMAIN w = 1..n /\ \A k \in 1..n : w[k] = <<s[k]>>
    BY <1>1 DEF n
<1> HIDE DEF w
<1>4. Len(w) = n
    BY <1>1, <1>2, <1>3, LenProperties
<1> HIDE DEF n, T
<1>5. PICK f \in [0..n -> T] : f[0] = <<>> /\ FlattenSeq(w) = f[n] /\ \A k \in 1..n : f[k] = f[k - 1] \o w[k]
    <2>1. \E f : f \in Flattenings(S, w, n)
        BY <1>2, <1>4, FlattenUpTo DEF T, n
    <2> QED BY <2>1 DEF Flattenings, T
<1> DEFINE Same(x, k) == Len(x) = k /\ \A j \in 1..k : x[j] = s[j]
           B == {k \in 0..n : Same(f[k], k)}
<1>6. 0 \in B
    BY <1>1, <1>5
<1>7. ASSUME NEW k \in 1..n, k - 1 \in B PROVE k \in B
    <2>1. k \in 0..n /\ k - 1 \in 0..n
        BY <1>1
    <2> DEFINE x == f[k - 1]
    <2>2. x \in Seq(S) /\ Same(x, k - 1) /\ s[k] \in S
        BY <1>1, <1>5, <1>7, <2>1 DEF T
    <2>3. f[k] = x \o <<s[k]>>
        BY <1>3, <1>5
    <2> HIDE DEF x, B
    <2>4. <<s[k]>> \in Seq(S) /\ Len(<<s[k]>>) = 1 /\ <<s[k]>>[1] = s[k]
        BY <2>2
    <2>5. /\ Len(f[k]) = (k - 1) + 1
          /\ \A j \in 1..((k - 1) + 1) : f[k][j] = IF j <= k - 1 THEN x[j] ELSE <<s[k]>>[j - (k - 1)]
        BY <2>2, <2>3, <2>4, ConcatProperties
    <2>6. ASSUME NEW j \in 1..k PROVE f[k][j] = s[j]
        <3>1. j \in 1..((k - 1) + 1) /\ (j <= k - 1 => j \in 1..(k - 1)) /\ (~(j <= k - 1) => j = k /\ j - (k - 1) = 1)
            BY <1>1
        <3> QED BY <2>2, <2>4, <2>5, <3>1
    <2>7. (k - 1) + 1 = k
        OBVIOUS
    <2> QED BY <2>1, <2>5, <2>6, <2>7 DEF B
<1> HIDE DEF B
<1>8. \A k \in (0 + 1)..n : k - 1 \in B => k \in B
    BY <1>7
<1>9. \A k \in 0..n : k \in B
    BY <1>1, <1>6, <1>8, EveryPlace
<1>10. n \in 0..n
    BY <1>1
<1>11. f[n] \in Seq(S) /\ Len(f[n]) = n /\ \A j \in 1..n : f[n][j] = s[j]
    BY <1>5, <1>9, <1>10 DEF B, T
<1>12. f[n] = s
    BY <1>11, SeqEqual DEF n
<1> QED BY <1>5, <1>12 DEF Those, w

(* So many steps from a set are half of them, and the others from where    *)
(* those lead; f says it of as many as n, step of one.                     *)
Halves(step, f, k, from) ==
    IF k = 0 THEN from
    ELSE IF k = 1 THEN step[from]
    ELSE LET half == f[k \div 2][from]
         IN  IF half = from THEN from ELSE f[k - k \div 2][half]
Halved(D, step, n, f) == f = [k \in 0..n |-> [from \in SUBSET D |-> Halves(step, f, k, from)]]

(* There is such an f: taking the steps one by one.                        *)
LEMMA HalvesTaken ==
    ASSUME NEW n \in Nat, NEW D, NEW step \in [SUBSET D -> SUBSET D],
           \A B \in SUBSET D : B \subseteq step[B]
    PROVE  \E f : Halved(D, step, n, f)
<1> DEFINE S == SUBSET D
           M == [S -> S]
           same == [B \in S |-> B]
           G == [k \in 1..n |-> [h \in M |-> [B \in S |-> step[h[B]]]]]
<1>1. PICK F : F \in [0..n -> M] /\ F[0] = same /\ \A k \in 1..n : F[k] = G[k][F[k - 1]]
    <2>1. same \in M /\ G \in Steps(n, M)
        BY DEF Steps
    <2> HIDE DEF M, same, G
    <2>2. \E f : f \in Recursions(M, same, n, G)
        BY <2>1, RecursionUpTo
    <2> QED BY <2>2 DEF Recursions
<1>2. \A k \in 0..n, B \in S : F[k][B] \in S
    BY <1>1
<1>3. \A B \in S : F[0][B] = B
    BY <1>1
<1>4. \A k \in 1..n, B \in S : F[k][B] = step[F[k - 1][B]]
    <2> SUFFICES ASSUME NEW k \in 1..n, NEW B \in S PROVE F[k][B] = step[F[k - 1][B]]
        OBVIOUS
    <2>1. F[k - 1] \in M
        BY <1>1
    <2>2. G[k][F[k - 1]] = [C \in S |-> step[F[k - 1][C]]]
        <3> HIDE DEF S, M
        <3> QED BY <2>1
    <2>3. F[k] = [C \in S |-> step[F[k - 1][C]]]
        BY <1>1, <2>2
    <2> QED BY <2>3
<1>5. \A B \in S : step[B] \in S /\ B \subseteq step[B]
    OBVIOUS
<1> HIDE DEF S, M, same, G
<1>6. ASSUME NEW a \in 0..n
      PROVE  \A b \in 0..n : a + b <= n => \A B \in S : F[a + b][B] = F[b][F[a][B]]
    <2> DEFINE all == {b \in 0..n : a + b <= n => \A B \in S : F[a + b][B] = F[b][F[a][B]]}
    <2>1. 0 \in all
        <3>1. a + 0 = a /\ 0 \in 0..n
            OBVIOUS
        <3> QED BY <1>2, <1>3, <3>1
    <2>2. ASSUME NEW b \in 1..n, b - 1 \in all PROVE b \in all
        <3> SUFFICES ASSUME a + b <= n, NEW B \in S PROVE F[a + b][B] = F[b][F[a][B]]
            OBVIOUS
        <3>1. a + b \in 1..n /\ (a + b) - 1 = a + (b - 1) /\ a + (b - 1) <= n
            OBVIOUS
        <3>2. F[a + b][B] = step[F[a + (b - 1)][B]]
            BY <1>4, <3>1
        <3>3. F[a + (b - 1)][B] = F[b - 1][F[a][B]]
            BY <2>2, <3>1
        <3>4. F[a][B] \in S
            BY <1>2
        <3> QED BY <1>4, <3>2, <3>3, <3>4
    <2>3. \A b \in (0 + 1)..n : b - 1 \in all => b \in all
        <3> HIDE DEF all
        <3> QED BY <2>2
    <2>4. \A b \in 0..n : b \in all
        <3> HIDE DEF all
        <3> QED BY <2>1, <2>3, EveryPlace
    <2> QED BY <2>4
<1>7. \A k \in 0..n : \A B \in S : B \subseteq F[k][B] /\ (step[B] = B => F[k][B] = B)
    <2> DEFINE all == {k \in 0..n : \A B \in S : B \subseteq F[k][B] /\ (step[B] = B => F[k][B] = B)}
    <2>1. 0 \in all
        BY <1>3
    <2>2. ASSUME NEW k \in 1..n, k - 1 \in all PROVE k \in all
        <3> SUFFICES ASSUME NEW B \in S PROVE B \subseteq F[k][B] /\ (step[B] = B => F[k][B] = B)
            OBVIOUS
        <3>1. F[k - 1][B] \in S /\ F[k][B] = step[F[k - 1][B]]
            BY <1>2, <1>4
        <3>2. B \subseteq F[k - 1][B] /\ (step[B] = B => F[k - 1][B] = B)
            BY <2>2
        <3> QED BY <1>5, <3>1, <3>2
    <2>3. \A k \in (0 + 1)..n : k - 1 \in all => k \in all
        <3> HIDE DEF all
        <3> QED BY <2>2
    <2>4. \A k \in 0..n : k \in all
        <3> HIDE DEF all
        <3> QED BY <2>1, <2>3, EveryPlace
    <2> QED BY <2>4
<1>8. ASSUME NEW k \in 1..n, NEW B \in S, F[k][B] = B PROVE step[B] = B
    <2>1. F[1 + (k - 1)][B] = F[k - 1][F[1][B]]
        <3>1. 1 \in 0..n /\ k - 1 \in 0..n /\ 1 + (k - 1) <= n
            OBVIOUS
        <3> QED BY <1>6, <3>1
    <2>2. 1 + (k - 1) = k /\ 1 \in 1..n /\ 1 - 1 = 0 /\ k - 1 \in 0..n
        OBVIOUS
    <2>3. F[1][B] = step[B]
        BY <1>3, <1>4, <2>2
    <2>4. step[B] \in S /\ step[B] \subseteq F[k - 1][step[B]]
        BY <1>5, <1>7, <2>2
    <2> QED BY <1>5, <1>8, <2>1, <2>2, <2>3, <2>4
<1>9. ASSUME NEW k \in 0..n, NEW B \in S
      PROVE  F[k][B] = Halves(step, F, k, B)
    <2>1. CASE k = 0
        BY <1>3, <2>1 DEF Halves
    <2>2. CASE k = 1
        BY <1>3, <1>4, <2>2 DEF Halves
    <2>3. CASE k # 0 /\ k # 1
        <3> DEFINE h == k \div 2
        <3>1. h \in 1..n /\ k - h \in 0..n /\ h + (k - h) = k /\ k \in 1..n /\ h \in 0..n
            BY <2>3
        <3> HIDE DEF h
        <3>2. F[k][B] = F[k - h][F[h][B]]
            BY <1>6, <3>1
        <3>3. F[h][B] = B => F[k][B] = B
            BY <1>7, <1>8, <3>1
        <3> QED BY <2>3, <3>2, <3>3 DEF h, Halves
    <2> QED BY <2>1, <2>2, <2>3
<1>10. F = [k \in 0..n |-> [B \in S |-> F[k][B]]]
    BY <1>1 DEF M
<1>11. F = [k \in 0..n |-> [B \in S |-> Halves(step, F, k, B)]]
    <2> DEFINE H == [k \in 0..n |-> [B \in S |-> Halves(step, F, k, B)]]
    <2>1. \A k \in 0..n : [B \in S |-> F[k][B]] = [B \in S |-> Halves(step, F, k, B)]
        BY <1>9
    <2> QED BY <1>10, <2>1
<1> QED BY <1>11 DEF Halved, S

(* Whatever f is such a function, each of the steps has added something to *)
(* a set, unless another adds nothing more.                                *)
GrownBy(D, step, k, B, C) ==
    /\ C \in SUBSET D /\ B \subseteq C
    /\ step[B] = B => C = B
    /\ step[C] = C \/ Cardinality(C) >= Cardinality(B) + k
LEMMA HalvesGrow ==
    ASSUME NEW n \in Nat, NEW D, IsFiniteSet(D), NEW step \in [SUBSET D -> SUBSET D],
           \A B \in SUBSET D : B \subseteq step[B],
           NEW f, Halved(D, step, n, f)
    PROVE  \A k \in 0..n : \A B \in SUBSET D : GrownBy(D, step, k, B, f[k][B])
<1> DEFINE S == SUBSET D
           Grows(k, B, C) == /\ C \in S /\ B \subseteq C
                             /\ step[B] = B => C = B
                             /\ step[C] = C \/ Cardinality(C) >= Cardinality(B) + k
           others == {k \in 0..n : ~ \A B \in S : Grows(k, B, f[k][B])}
<1> SUFFICES ASSUME others # {} PROVE FALSE
    BY DEF GrownBy
<1>1. PICK k \in others : \A j \in others : k <= j
    <2>1. others \in SUBSET Nat
        OBVIOUS
    <2> HIDE DEF others
    <2> QED BY <2>1, LeastNatural
<1>2. k \in 0..n /\ \A j \in 0..(k - 1) : \A B \in S : Grows(j, B, f[j][B])
    <2>1. \A j \in 0..(k - 1) : j \in 0..n /\ ~(k <= j)
        OBVIOUS
    <2> HIDE DEF Grows
    <2> QED BY <1>1, <2>1
<1>3. PICK B \in S : ~Grows(k, B, f[k][B])
    <2> HIDE DEF Grows
    <2> QED BY <1>1
<1>4. f[k][B] = Halves(step, f, k, B)
    <2> HIDE DEF others, Grows
    <2>1. f[k] = [from \in SUBSET D |-> Halves(step, f, k, from)]
        BY <1>2 DEF Halved
    <2> QED BY <2>1
<1>5. \A C \in S : step[C] \in S /\ C \subseteq step[C] /\ IsFiniteSet(C) /\ Cardinality(C) \in Nat
    BY FS_Subset, FS_CardinalityType
<1>6. CASE k = 0
    <2>1. f[k][B] = B /\ Cardinality(B) >= Cardinality(B) + k
        BY <1>4, <1>5, <1>6 DEF Halves
    <2> QED BY <1>3, <2>1
<1>7. CASE k = 1
    <2>1. f[k][B] = step[B]
        BY <1>4, <1>7 DEF Halves
    <2>2. CASE step[B] = B
        BY <1>3, <2>1, <2>2
    <2>3. CASE step[B] # B
        <3>1. Cardinality(B) < Cardinality(step[B])
            BY <1>5, <2>3, FS_Subset
        <3>2. Cardinality(step[B]) >= Cardinality(B) + 1
            BY <1>5, <3>1
        <3> QED BY <1>3, <1>5, <1>7, <2>1, <2>3, <3>2
    <2> QED BY <2>2, <2>3
<1>8. CASE k # 0 /\ k # 1
    <2> DEFINE h == k \div 2
               half == f[h][B]
    <2>1. h \in 0..(k - 1) /\ k - h \in 0..(k - 1) /\ h \in Nat \ {0}
        BY <1>2, <1>8
    <2>2. f[k][B] = IF half = B THEN B ELSE f[k - h][half]
        BY <1>4, <1>8 DEF Halves
    <2> HIDE DEF h, Grows
    <2>3. Grows(h, B, half)
        BY <1>2, <2>1
    <2>4. half \in S /\ B \subseteq half
        BY <2>3 DEF Grows
    <2>5. CASE half = B
        <3>1. ~(Cardinality(B) >= Cardinality(B) + h)
            BY <1>5, <2>1
        <3>2. step[B] = B
            BY <2>3, <2>5, <3>1 DEF Grows
        <3> QED BY <1>3, <2>2, <2>5, <3>2 DEF Grows
    <2>6. CASE half # B
        <3>1. f[k][B] = f[k - h][half]
            BY <2>2, <2>6
        <3>2. Grows(k - h, half, f[k][B])
            BY <1>2, <2>1, <2>4, <3>1
        <3> HIDE DEF half
        <3>3. f[k][B] \in S /\ B \subseteq f[k][B]
            BY <2>4, <3>2 DEF Grows
        <3>4. step[B] = B => f[k][B] = B
            BY <2>3, <2>6 DEF Grows
        <3>5. step[f[k][B]] = f[k][B] \/ Cardinality(f[k][B]) >= Cardinality(B) + k
            <4>1. CASE step[half] = half
                BY <3>2, <4>1 DEF Grows
            <4>2. CASE Cardinality(half) >= Cardinality(B) + h
                <5>1. Cardinality(f[k][B]) >= Cardinality(half) + (k - h) => Cardinality(f[k][B]) >= Cardinality(B) + k
                    <6>1. Cardinality(f[k][B]) \in Nat /\ Cardinality(half) \in Nat /\ Cardinality(B) \in Nat
                        BY <1>5, <2>4, <3>3
                    <6> QED BY <1>2, <2>1, <4>2, <6>1
                <5> QED BY <3>2, <5>1 DEF Grows
            <4> QED BY <2>3, <4>1, <4>2 DEF Grows
        <3> QED BY <1>3, <3>3, <3>4, <3>5 DEF Grows
    <2> QED BY <2>5, <2>6
<1> QED BY <1>6, <1>7, <1>8
===============================================================================
