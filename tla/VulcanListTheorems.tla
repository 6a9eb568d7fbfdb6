-------------------------- MODULE VulcanListTheorems --------------------------
EXTENDS VulcanList, SequenceTheorems, WellFoundedInduction, TLAPS

(* A nonempty set of naturals has the minimum that Min chooses. *)
LEMMA MinProperties ==
  ASSUME NEW S \in SUBSET Nat, S # {}
  PROVE  Min(S) \in S /\ \A x \in S : Min(S) <= x
<1>1. IsWellFoundedOn(OpToRel(<, Nat), Nat)
  BY NatLessThanWellFounded
<1>2. PICK x \in S : \A y \in S : <<y, x>> \notin OpToRel(<, Nat)
  BY <1>1, WFMin, Zenon
<1>3. \A y \in S : ~(y < x)
  BY <1>2, Zenon DEF OpToRel
<1>4. \A y \in S : x <= y
  BY <1>3
<1> QED
  BY <1>4 DEF Min

LEMMA InsertAtProperties ==
  ASSUME NEW S, NEW q \in Seq(S), NEW k \in 1 .. Len(q) + 1, NEW e \in S
  PROVE  /\ InsertAt(q, k, e) \in Seq(S)
         /\ Len(InsertAt(q, k, e)) = Len(q) + 1
         /\ \A i \in 1 .. Len(q) + 1 : InsertAt(q, k, e)[i] =
               IF i < k THEN q[i] ELSE IF i = k THEN e ELSE q[i - 1]
<1> DEFINE a == SubSeq(q, 1, k - 1)
           b == SubSeq(q, k, Len(q))
<1>1. /\ a \in Seq(S) /\ Len(a) = k - 1
      /\ \A i \in 1 .. k - 1 : a[i] = q[i]
  BY SubSeqProperties, LenProperties, ElementOfSeq, Z3
<1>2. /\ b \in Seq(S) /\ Len(b) = Len(q) - k + 1
      /\ \A i \in 1 .. Len(q) - k + 1 : b[i] = q[k + i - 1]
  BY SubSeqProperties, LenProperties, ElementOfSeq, Z3
<1>3. <<e>> \in Seq(S) /\ Len(<<e>>) = 1 /\ <<e>>[1] = e
  OBVIOUS
<1> DEFINE c == a \o <<e>>
<1> HIDE DEF a, b
<1>4. /\ c \in Seq(S) /\ Len(c) = k
      /\ \A i \in 1 .. k : c[i] = IF i < k THEN q[i] ELSE e
  BY <1>1, <1>3, ConcatProperties
<1> HIDE DEF c
<1>5. /\ c \o b \in Seq(S) /\ Len(c \o b) = Len(q) + 1
      /\ \A i \in 1 .. Len(q) + 1 : (c \o b)[i] =
            IF i < k THEN q[i] ELSE IF i = k THEN e ELSE q[i - 1]
  BY <1>2, <1>4, ConcatProperties
<1> QED
  BY <1>5 DEF InsertAt, a, b, c

(* The walk of list_insert stops right after the last element, in a sorted  *)
(* list, whose key is at most that of t.                                    *)
LEMMA InsertPosition ==
  ASSUME NEW S, NEW q \in Seq(S), NEW key \in [S -> Int], NEW t \in S
  PROVE  \E k \in 1 .. Len(q) + 1 :
           /\ list_insert(q, key, t) = InsertAt(q, k, t)
           /\ \A i \in 1 .. k - 1 : key[q[i]] <= key[t]
           /\ k <= Len(q) => key[t] < key[q[k]]
<1> DEFINE I == {i \in 1 .. Len(q) : key[t] < key[q[i]]}
           s == SelectInSeq(q, LAMBDA u : key[t] < key[u])
<1>0. Len(q) \in Nat /\ \A i \in 1 .. Len(q) : q[i] \in S
  BY LenProperties, ElementOfSeq
<1>1. s = IF I # {} THEN Min(I) ELSE 0
  BY DEF SelectInSeq
<1>2. list_insert(q, key, t) = InsertAt(q, IF s = 0 THEN Len(q) + 1 ELSE s, t)
  BY DEF list_insert
<1> HIDE DEF s
<1>3. CASE I = {}
  <2>1. s = 0
    BY <1>1, <1>3
  <2>2. \A i \in 1 .. Len(q) : key[q[i]] <= key[t]
    BY <1>0, <1>3
  <2>3. \A i \in 1 .. (Len(q) + 1) - 1 : key[q[i]] <= key[t]
    BY <1>0, <2>2
  <2> QED
    BY <1>0, <1>2, <2>1, <2>3
<1>4. CASE I # {}
  <2>1. I \in SUBSET Nat
    BY <1>0
  <2>2. Min(I) \in I /\ \A x \in I : Min(I) <= x
    BY <2>1, <1>4, MinProperties
  <2>3. s \in I /\ \A x \in I : s <= x
    BY <2>2, <1>1, <1>4
  <2>4. s \in 1 .. Len(q) /\ key[t] < key[q[s]]
    BY <2>3
  <2>5. \A i \in 1 .. s - 1 : key[q[i]] <= key[t]
    <3> TAKE i \in 1 .. s - 1
    <3>1. i \in 1 .. Len(q) /\ ~(s <= i)
      BY <2>4, <1>0
    <3>2. i \notin I
      BY <3>1, <2>3
    <3> QED
      BY <3>1, <3>2, <1>0
  <2> QED
    BY <2>4, <2>5, <1>0, <1>2
<1> QED
  BY <1>3, <1>4

(* list_insert adds t, keeps the list sorted and free of duplicates.        *)
THEOREM ListInsertProperties ==
  ASSUME NEW S, NEW q \in Seq(S), NEW key \in [S -> Int], NEW t \in S
  PROVE  /\ list_insert(q, key, t) \in Seq(S)
         /\ list_insert(q, key, t) # <<>>
         /\ Queued(list_insert(q, key, t)) = Queued(q) \cup {t}
         /\ NoDuplicates(q) /\ t \notin Queued(q)
              => NoDuplicates(list_insert(q, key, t))
         /\ SortedBy(q, key) => SortedBy(list_insert(q, key, t), key)
<1> DEFINE r == list_insert(q, key, t)
<1>0. Len(q) \in Nat /\ DOMAIN q = 1 .. Len(q) /\ \A i \in 1 .. Len(q) : q[i] \in S
  BY LenProperties, ElementOfSeq
<1>1. PICK k \in 1 .. Len(q) + 1 :
         /\ r = InsertAt(q, k, t)
         /\ \A i \in 1 .. k - 1 : key[q[i]] <= key[t]
         /\ k <= Len(q) => key[t] < key[q[k]]
  BY InsertPosition
<1> HIDE DEF r
<1>2. /\ r \in Seq(S)
      /\ Len(r) = Len(q) + 1
      /\ \A i \in 1 .. Len(q) + 1 : r[i] =
            IF i < k THEN q[i] ELSE IF i = k THEN t ELSE q[i - 1]
  <2>1. /\ InsertAt(q, k, t) \in Seq(S)
        /\ Len(InsertAt(q, k, t)) = Len(q) + 1
        /\ \A i \in 1 .. Len(q) + 1 : InsertAt(q, k, t)[i] =
              IF i < k THEN q[i] ELSE IF i = k THEN t ELSE q[i - 1]
    BY InsertAtProperties
  <2> QED
    BY <1>1, <2>1
<1>3. DOMAIN r = 1 .. Len(q) + 1
  BY <1>2, LenProperties
<1>a. \A i \in 1 .. k - 1 : i \in 1 .. Len(q) + 1 /\ r[i] = q[i]
  BY <1>0, <1>2
<1>b. k \in 1 .. Len(q) + 1 /\ r[k] = t
  BY <1>2
<1>c. \A i \in k .. Len(q) : i + 1 \in 1 .. Len(q) + 1 /\ r[i + 1] = q[i]
  <2> TAKE i \in k .. Len(q)
  <2>1. i + 1 \in 1 .. Len(q) + 1 /\ ~(i + 1 < k) /\ i + 1 # k /\ i + 1 - 1 = i
    BY <1>0
  <2> QED
    BY <2>1, <1>2, SMTT(30)
<1>d. \A i \in 1 .. Len(q) + 1 :
         \/ i \in 1 .. k - 1 /\ i \in 1 .. Len(q) /\ r[i] = q[i]
         \/ i = k /\ r[i] = t
         \/ i - 1 \in k .. Len(q) /\ i - 1 \in 1 .. Len(q) /\ r[i] = q[i - 1]
  <2> TAKE i \in 1 .. Len(q) + 1
  <2>1. r[i] = IF i < k THEN q[i] ELSE IF i = k THEN t ELSE q[i - 1]
    BY <1>2, Zenon
  <2>2. CASE i < k
    <3>1. i \in 1 .. k - 1 /\ i \in 1 .. Len(q)
      BY <2>2, <1>0
    <3> QED
      BY <2>1, <2>2, <3>1
  <2>3. CASE i = k
    BY <2>1, <2>3, <1>0
  <2>4. CASE ~(i < k) /\ i # k
    <3>1. i - 1 \in k .. Len(q) /\ i - 1 \in 1 .. Len(q)
      BY <2>4, <1>0
    <3> QED
      BY <2>1, <2>4, <3>1
  <2> QED
    BY <2>2, <2>3, <2>4, Zenon
<1>4. r # <<>>
  BY <1>0, <1>2
<1>5. Queued(r) = Queued(q) \cup {t}
  <2>1. \A i \in 1 .. Len(q) + 1 : r[i] \in Queued(q) \cup {t}
    <3>1. \A i \in 1 .. Len(q) : q[i] \in Queued(q)
      BY <1>0, Zenon DEF Queued
    <3> QED
      BY <3>1, <1>d
  <2>2. t \in Queued(r)
    BY <1>b, <1>3, Zenon DEF Queued
  <2>3. ASSUME NEW i \in 1 .. Len(q)
        PROVE  q[i] \in Queued(r)
    <3>1. CASE i < k
      <4>1. i \in 1 .. Len(q) + 1 /\ r[i] = q[i]
        BY <3>1, <1>a, <1>0
      <4> QED
        BY <4>1, <1>3, Zenon DEF Queued
    <3>2. CASE ~(i < k)
      <4>1. i + 1 \in 1 .. Len(q) + 1 /\ r[i + 1] = q[i]
        BY <3>2, <1>c, <1>0
      <4> QED
        BY <4>1, <1>3, Zenon DEF Queued
    <3> QED
      BY <3>1, <3>2
  <2> QED
    BY <2>1, <2>2, <2>3, <1>0, <1>3 DEF Queued
<1>6. ASSUME NoDuplicates(q), t \notin Queued(q)
      PROVE  NoDuplicates(r)
  <2>1. \A i, j \in 1 .. Len(q) : q[i] = q[j] => i = j
    BY <1>0, <1>6 DEF NoDuplicates, IsInjective
  <2>2. \A i \in 1 .. Len(q) : q[i] # t
    BY <1>0, <1>6 DEF Queued
  <2>3. \A i, j \in 1 .. Len(q) + 1 : r[i] = r[j] => i = j
    <3> TAKE i, j \in 1 .. Len(q) + 1
    <3> HAVE r[i] = r[j]
    <3> QED
      BY <2>1, <2>2, <1>0, <1>d, SMTT(30)
  <2> QED
    BY <2>3, <1>3 DEF NoDuplicates, IsInjective
<1>7. ASSUME SortedBy(q, key)
      PROVE  SortedBy(r, key)
  <2>1. \A i, j \in 1 .. Len(q) : i < j => key[q[i]] <= key[q[j]]
    BY <1>0, <1>7 DEF SortedBy
  <2>2. \A i \in 1 .. Len(q) : key[q[i]] \in Int
    BY <1>0
  <2>3. key[t] \in Int
    OBVIOUS
  <2>4. \A i \in 1 .. Len(q) : i >= k => key[t] <= key[q[i]]
    <3> TAKE i \in 1 .. Len(q)
    <3> HAVE i >= k
    <3>1. k \in 1 .. Len(q) /\ key[t] < key[q[k]]
      BY <1>0, <1>1
    <3>2. key[q[k]] <= key[q[i]]
      BY <3>1, <2>1, <2>2, <1>0
    <3> QED
      BY <3>1, <3>2, <2>2, <2>3
  <2>5. \A i \in 1 .. Len(q) : i < k => key[q[i]] <= key[t]
    BY <1>0, <1>1
  <2>6. ASSUME NEW i \in 1 .. Len(q) + 1, NEW j \in 1 .. Len(q) + 1, i < j
        PROVE  key[r[i]] <= key[r[j]]
    <3>1. CASE i \in 1 .. k - 1 /\ i \in 1 .. Len(q) /\ r[i] = q[i]
      <4>1. CASE j \in 1 .. k - 1 /\ j \in 1 .. Len(q) /\ r[j] = q[j]
        BY <2>6, <3>1, <4>1, <2>1
      <4>2. CASE j = k /\ r[j] = t
        BY <3>1, <4>2, <2>5
      <4>3. CASE j - 1 \in k .. Len(q) /\ j - 1 \in 1 .. Len(q) /\ r[j] = q[j - 1]
        <5>1. key[q[i]] <= key[t] /\ key[t] <= key[q[j - 1]]
          BY <3>1, <4>3, <2>4, <2>5, <1>0
        <5>2. key[q[i]] \in Int /\ key[t] \in Int /\ key[q[j - 1]] \in Int
          BY <3>1, <4>3, <2>2, <2>3
        <5> QED
          BY <5>1, <5>2, <3>1, <4>3
      <4> QED
        BY <4>1, <4>2, <4>3, <1>d
    <3>2. CASE i = k /\ r[i] = t
      <4>1. j - 1 \in k .. Len(q) /\ j - 1 \in 1 .. Len(q) /\ r[j] = q[j - 1]
        BY <3>2, <2>6, <1>d, <1>0
      <4> QED
        BY <3>2, <4>1, <2>4, <1>0
    <3>3. CASE i - 1 \in k .. Len(q) /\ i - 1 \in 1 .. Len(q) /\ r[i] = q[i - 1]
      <4>1. j - 1 \in 1 .. Len(q) /\ r[j] = q[j - 1] /\ i - 1 < j - 1
        BY <3>3, <2>6, <1>d, <1>0, SMTT(30)
      <4> QED
        BY <3>3, <4>1, <2>1
    <3> QED
      BY <3>1, <3>2, <3>3, <1>d
  <2> QED
    BY <2>6, <1>3 DEF SortedBy
<1> QED
  BY <1>2, <1>4, <1>5, <1>6, <1>7 DEF r

(* list_insert keeps the order of the elements, and puts t behind every     *)
(* element of a sorted list whose key is at most its own.                   *)
THEOREM ListInsertOrder ==
  ASSUME NEW S, NEW q \in Seq(S), NEW key \in [S -> Int], NEW t \in S
  PROVE  /\ \A a, b : Before(q, a, b) => Before(list_insert(q, key, t), a, b)
         /\ SortedBy(q, key) =>
              \A a \in Queued(q) :
                key[a] <= key[t] => Before(list_insert(q, key, t), a, t)
<1> DEFINE r == list_insert(q, key, t)
<1>0. Len(q) \in Nat /\ DOMAIN q = 1 .. Len(q) /\ \A i \in 1 .. Len(q) : q[i] \in S
  BY LenProperties, ElementOfSeq
<1>1. PICK k \in 1 .. Len(q) + 1 :
         /\ r = InsertAt(q, k, t)
         /\ \A i \in 1 .. k - 1 : key[q[i]] <= key[t]
         /\ k <= Len(q) => key[t] < key[q[k]]
  BY InsertPosition
<1> HIDE DEF r
<1>2. /\ r \in Seq(S)
      /\ Len(r) = Len(q) + 1
      /\ \A i \in 1 .. Len(q) + 1 : r[i] =
            IF i < k THEN q[i] ELSE IF i = k THEN t ELSE q[i - 1]
  <2>1. /\ InsertAt(q, k, t) \in Seq(S)
        /\ Len(InsertAt(q, k, t)) = Len(q) + 1
        /\ \A i \in 1 .. Len(q) + 1 : InsertAt(q, k, t)[i] =
              IF i < k THEN q[i] ELSE IF i = k THEN t ELSE q[i - 1]
    BY InsertAtProperties
  <2> QED
    BY <1>1, <2>1
<1>3. DOMAIN r = 1 .. Len(q) + 1
  BY <1>2, LenProperties
<1> DEFINE at(i) == IF i < k THEN i ELSE i + 1
<1>4. \A i \in 1 .. Len(q) : at(i) \in DOMAIN r /\ r[at(i)] = q[i]
  <2> TAKE i \in 1 .. Len(q)
  <2>1. CASE i < k
    BY <2>1, <1>0, <1>2, <1>3
  <2>2. CASE ~(i < k)
    <3>1. i + 1 \in 1 .. Len(q) + 1 /\ ~(i + 1 < k) /\ i + 1 # k /\ i + 1 - 1 = i
      BY <2>2, <1>0
    <3> QED
      BY <2>2, <3>1, <1>2, <1>3, SMTT(30)
  <2> QED
    BY <2>1, <2>2
<1>5. \A i, j \in 1 .. Len(q) : i < j => at(i) < at(j)
  BY <1>0
<1>6. k \in DOMAIN r /\ r[k] = t
  BY <1>2, <1>3
<1> HIDE DEF at
<1>7. ASSUME NEW a, NEW b, Before(q, a, b)
      PROVE  Before(r, a, b)
  <2>1. PICK i, j \in 1 .. Len(q) : i < j /\ q[i] = a /\ q[j] = b
    BY <1>0, <1>7, Zenon DEF Before
  <2>2. at(i) < at(j) /\ r[at(i)] = a /\ r[at(j)] = b
    BY <2>1, <1>4, <1>5
  <2> QED
    BY <2>2, <1>4, Zenon DEF Before
<1>8. ASSUME SortedBy(q, key), NEW a \in Queued(q), key[a] <= key[t]
      PROVE  Before(r, a, t)
  <2>1. PICK i \in 1 .. Len(q) : q[i] = a
    BY <1>0, <1>8, Zenon DEF Queued
  <2>2. i < k
    <3> SUFFICES ASSUME ~(i < k) PROVE FALSE
      OBVIOUS
    <3>1. k \in 1 .. Len(q) /\ key[t] < key[q[k]]
      BY <1>0, <1>1
    <3>2. key[q[k]] <= key[q[i]]
      <4>1. CASE k = i
        BY <4>1, <1>0
      <4>2. CASE k < i
        <5>1. k \in DOMAIN q /\ i \in DOMAIN q
          BY <3>1, <1>0
        <5> QED
          BY <5>1, <4>2, <1>8 DEF SortedBy
      <4> QED
        BY <4>1, <4>2, <1>0
    <3>3. key[t] \in Int /\ key[q[k]] \in Int /\ key[q[i]] \in Int
      BY <3>1, <1>0
    <3> QED
      BY <3>1, <3>2, <3>3, <2>1, <1>8
  <2>3. at(i) = i
    BY <2>2 DEF at
  <2>4. i \in DOMAIN r /\ r[i] = a
    BY <2>1, <2>3, <1>4
  <2> QED
    BY <2>2, <2>4, <1>6, Zenon DEF Before
<1> QED
  BY <1>7, <1>8 DEF r

(* What is left of a list when its head is taken.                           *)
THEOREM HeadTailOfList ==
  ASSUME NEW S, NEW q \in Seq(S), q # <<>>
  PROVE  /\ Head(q) \in Queued(q)
         /\ Head(q) \in S
         /\ Tail(q) \in Seq(S)
         /\ NoDuplicates(q) => /\ NoDuplicates(Tail(q))
                               /\ Queued(Tail(q)) = Queued(q) \ {Head(q)}
         /\ \A key : SortedBy(q, key) => SortedBy(Tail(q), key)
         /\ \A key \in [S -> Int] :
              SortedBy(q, key) => \A u \in Queued(q) : key[Head(q)] <= key[u]
         /\ \A a, b : Before(q, a, b) /\ a # Head(q) => Before(Tail(q), a, b)
<1>1. /\ Len(q) \in Nat /\ Len(q) >= 1 /\ DOMAIN q = 1 .. Len(q)
      /\ \A i \in 1 .. Len(q) : q[i] \in S
  BY EmptySeq, LenProperties, ElementOfSeq
<1>2. Head(q) = q[1] /\ 1 \in DOMAIN q
  BY <1>1
<1> DEFINE r == Tail(q)
<1>3. /\ r \in Seq(S) /\ Len(r) = Len(q) - 1
      /\ \A i \in 1 .. Len(r) : r[i] = q[i + 1]
  BY <1>1, HeadTailProperties
<1>4. DOMAIN r = 1 .. Len(q) - 1
  BY <1>3, LenProperties
<1> HIDE DEF r
<1>5. \A i \in DOMAIN r : i + 1 \in DOMAIN q /\ i + 1 # 1 /\ r[i] = q[i + 1]
  BY <1>1, <1>3, <1>4
<1>6. \A i \in DOMAIN q : i # 1 => i - 1 \in DOMAIN r /\ r[i - 1] = q[i]
  <2> TAKE i \in DOMAIN q
  <2> HAVE i # 1
  <2>1. i - 1 \in 1 .. Len(r) /\ i - 1 + 1 = i
    BY <1>1, <1>3
  <2> QED
    BY <2>1, <1>1, <1>3, <1>4
<1>7. Head(q) \in Queued(q) /\ Head(q) \in S
  BY <1>1, <1>2, Zenon DEF Queued
<1>8. ASSUME NoDuplicates(q)
      PROVE  NoDuplicates(r) /\ Queued(r) = Queued(q) \ {Head(q)}
  <2>1. \A i, j \in DOMAIN q : q[i] = q[j] => i = j
    BY <1>8 DEF NoDuplicates, IsInjective
  <2>2. \A i, j \in DOMAIN r : r[i] = r[j] => i = j
    <3> TAKE i, j \in DOMAIN r
    <3> HAVE r[i] = r[j]
    <3>1. i + 1 = j + 1
      BY <1>5, <2>1
    <3> QED
      BY <3>1, <1>1, <1>4
  <2>3. ASSUME NEW u \in Queued(r) PROVE u \in Queued(q) \ {Head(q)}
    <3>1. PICK i \in DOMAIN r : r[i] = u
      BY <2>3, Zenon DEF Queued
    <3>2. i + 1 \in DOMAIN q /\ i + 1 # 1 /\ q[i + 1] = u
      BY <3>1, <1>5
    <3>3. u # q[1]
      BY <3>2, <2>1, <1>2
    <3> QED
      BY <3>2, <3>3, <1>2, Zenon DEF Queued
  <2>4. ASSUME NEW u \in Queued(q) \ {Head(q)} PROVE u \in Queued(r)
    <3>1. PICK i \in DOMAIN q : q[i] = u
      BY <2>4, Zenon DEF Queued
    <3>2. i # 1
      BY <3>1, <2>4, <1>2
    <3>3. i - 1 \in DOMAIN r /\ r[i - 1] = u
      BY <3>1, <3>2, <1>6
    <3> QED
      BY <3>3, Zenon DEF Queued
  <2> QED
    BY <2>2, <2>3, <2>4 DEF NoDuplicates, IsInjective
<1>9. ASSUME NEW key, SortedBy(q, key)
      PROVE  SortedBy(r, key)
  <2>1. \A i, j \in DOMAIN r : i < j => i + 1 < j + 1
    BY <1>1, <1>4
  <2> QED
    BY <2>1, <1>5, <1>9 DEF SortedBy
<1>10. ASSUME NEW key \in [S -> Int], SortedBy(q, key), NEW u \in Queued(q)
       PROVE  key[Head(q)] <= key[u]
  <2>1. PICK i \in DOMAIN q : q[i] = u
    BY <1>10, Zenon DEF Queued
  <2>2. CASE i = 1
    <3>1. key[q[1]] \in Int
      BY <1>1, <1>2
    <3> QED
      BY <3>1, <2>1, <2>2, <1>2
  <2>3. CASE i # 1
    <3>1. 1 < i
      BY <2>3, <1>1
    <3> QED
      BY <3>1, <2>1, <1>2, <1>10 DEF SortedBy
  <2> QED
    BY <2>2, <2>3
<1>11. ASSUME NEW a, NEW b, Before(q, a, b), a # Head(q)
       PROVE  Before(r, a, b)
  <2>1. PICK i, j \in DOMAIN q : i < j /\ q[i] = a /\ q[j] = b
    BY <1>11, Zenon DEF Before
  <2>2. i # 1
    BY <2>1, <1>2, <1>11
  <2>3. j # 1 /\ i - 1 < j - 1
    BY <2>1, <1>1
  <2>4. i - 1 \in DOMAIN r /\ j - 1 \in DOMAIN r /\ r[i - 1] = a /\ r[j - 1] = b
    BY <2>1, <2>2, <2>3, <1>6
  <2> QED
    BY <2>3, <2>4, Zenon DEF Before
<1> QED
  BY <1>3, <1>7, <1>8, <1>9, <1>10, <1>11 DEF r

(* list_remove leaves alone a list that t is not on.                        *)
THEOREM ListRemoveAbsent ==
  ASSUME NEW S, NEW q \in Seq(S), NEW t, t \notin Queued(q)
  PROVE  list_remove(q, t) = q
<1>1. DOMAIN q = 1 .. Len(q)
  BY LenProperties
<1>2. ~ \E i \in 1 .. Len(q) : q[i] = t
  BY <1>1, Zenon DEF Queued
<1> QED
  BY <1>2 DEF list_remove, RemoveFirst

(* Only the keys of its elements make a list sorted.                        *)
LEMMA SortedByAgreement ==
  ASSUME NEW q, NEW key, NEW other, SortedBy(q, key),
         \A u \in Queued(q) : other[u] = key[u]
  PROVE  SortedBy(q, other)
<1>1. \A i \in DOMAIN q : other[q[i]] = key[q[i]]
  BY Zenon DEF Queued
<1> QED
  BY <1>1 DEF SortedBy

-------------------------------------------------------------------------------
\* The order of a list without duplicates.

LEMMA OrderOfList ==
  ASSUME NEW S, NEW q \in Seq(S), NoDuplicates(q)
  PROVE  /\ \A a, b : Before(q, a, b) =>
              a \in Queued(q) /\ b \in Queued(q) /\ a # b /\ ~Before(q, b, a)
         /\ \A a, b \in Queued(q) : a # b => Before(q, a, b) \/ Before(q, b, a)
<1>1. /\ Len(q) \in Nat /\ DOMAIN q = 1 .. Len(q)
      /\ \A i, j \in DOMAIN q : q[i] = q[j] => i = j
  BY LenProperties DEF NoDuplicates, IsInjective
<1>2. ASSUME NEW a, NEW b, Before(q, a, b)
      PROVE  a \in Queued(q) /\ b \in Queued(q) /\ a # b /\ ~Before(q, b, a)
  <2>1. PICK i, j \in DOMAIN q : i < j /\ q[i] = a /\ q[j] = b
    BY <1>2, Zenon DEF Before
  <2>2. a \in Queued(q) /\ b \in Queued(q)
    BY <2>1, Zenon DEF Queued
  <2>3. i # j
    BY <1>1, <2>1
  <2>4. ~Before(q, b, a)
    <3> SUFFICES ASSUME NEW k \in DOMAIN q, NEW l \in DOMAIN q, k < l, q[k] = b, q[l] = a
                 PROVE  FALSE
      BY Zenon DEF Before
    <3>1. k = j /\ l = i
      BY <1>1, <2>1
    <3> QED
      BY <1>1, <2>1, <3>1
  <2> QED
    BY <1>1, <2>1, <2>2, <2>3, <2>4
<1>3. ASSUME NEW a \in Queued(q), NEW b \in Queued(q), a # b
      PROVE  Before(q, a, b) \/ Before(q, b, a)
  <2>1. PICK i \in DOMAIN q : q[i] = a
    BY <1>3, Zenon DEF Queued
  <2>2. PICK j \in DOMAIN q : q[j] = b
    BY <1>3, Zenon DEF Queued
  <2>3. i < j \/ j < i
    BY <1>1, <1>3, <2>1, <2>2
  <2> QED
    BY <2>1, <2>2, <2>3, Zenon DEF Before
<1> QED
  BY <1>2, <1>3

(* A pair of equals, one before the other.                                  *)
LEMMA AheadPairs ==
  ASSUME NEW q, NEW key, NEW a, NEW b
  PROVE  <<a, b>> \in Ahead(q, key) <=>
           a \in Queued(q) /\ b \in Queued(q) /\ key[a] = key[b] /\ Before(q, a, b)
BY DEF Ahead

(* An element inserted is behind all its equals, and the others stay as     *)
(* they are.                                                                *)
LEMMA AheadInsert ==
  ASSUME NEW S, NEW q \in Seq(S), NEW key \in [S -> Int], NEW t \in S,
         NoDuplicates(q), SortedBy(q, key), t \notin Queued(q)
  PROVE  Ahead(list_insert(q, key, t), key)
           = Ahead(q, key) \cup ({s \in Queued(q) : key[s] = key[t]} \X {t})
<1> DEFINE r == list_insert(q, key, t)
           new == Ahead(q, key) \cup ({s \in Queued(q) : key[s] = key[t]} \X {t})
<1>1. /\ r \in Seq(S) /\ NoDuplicates(r) /\ Queued(r) = Queued(q) \cup {t}
      /\ \A a, b : Before(q, a, b) => Before(r, a, b)
      /\ \A a \in Queued(q) : key[a] <= key[t] => Before(r, a, t)
  <2>1. /\ r \in Seq(S) /\ Queued(r) = Queued(q) \cup {t}
        /\ NoDuplicates(q) /\ t \notin Queued(q) => NoDuplicates(r)
    BY ListInsertProperties
  <2>2. /\ \A a, b : Before(q, a, b) => Before(r, a, b)
        /\ SortedBy(q, key) =>
             \A a \in Queued(q) : key[a] <= key[t] => Before(r, a, t)
    BY ListInsertOrder
  <2> HIDE DEF r
  <2> QED
    BY <2>1, <2>2
<1>2. \A u \in Queued(q) : key[u] \in Int
  <2>1. \A i \in DOMAIN q : q[i] \in S
    BY LenProperties, ElementOfSeq
  <2> QED
    BY <2>1 DEF Queued
<1> HIDE DEF r
<1>3. ASSUME NEW a, NEW b, <<a, b>> \in Ahead(r, key)
      PROVE  <<a, b>> \in new
  <2>1. /\ a \in Queued(q) \cup {t} /\ b \in Queued(q) \cup {t}
        /\ key[a] = key[b] /\ Before(r, a, b)
    BY <1>1, <1>3, AheadPairs
  <2>2. a # b /\ ~Before(r, b, a)
    BY <1>1, <2>1, OrderOfList
  <2>3. a # t
    <3> SUFFICES ASSUME a = t PROVE FALSE
      OBVIOUS
    <3>1. b \in Queued(q) /\ key[b] <= key[t]
      BY <1>2, <2>1, <2>2
    <3> QED
      BY <1>1, <2>2, <3>1
  <2>4. CASE b = t
    BY <2>1, <2>3, <2>4
  <2>5. CASE b # t
    <3>1. a \in Queued(q) /\ b \in Queued(q)
      BY <2>1, <2>3, <2>5
    <3>2. ~Before(q, b, a)
      BY <1>1, <2>2
    <3>3. Before(q, a, b)
      BY <2>2, <3>1, <3>2, OrderOfList
    <3> QED
      BY <2>1, <3>1, <3>3, AheadPairs
  <2> QED
    BY <2>4, <2>5
<1>4. ASSUME NEW a, NEW b, <<a, b>> \in new
      PROVE  <<a, b>> \in Ahead(r, key)
  <2>1. CASE <<a, b>> \in Ahead(q, key)
    BY <1>1, <2>1, AheadPairs
  <2>2. CASE b = t /\ a \in Queued(q) /\ key[a] = key[t]
    <3>1. key[a] <= key[t]
      BY <1>2, <2>2
    <3> QED
      BY <1>1, <2>2, <3>1, AheadPairs
  <2> QED
    BY <1>4, <2>1, <2>2
<1>5. Ahead(r, key) \subseteq Queued(r) \X Queued(r) /\ new \subseteq Queued(r) \X Queued(r)
  BY <1>1 DEF Ahead
<1> QED
  BY <1>3, <1>4, <1>5 DEF r

(* Nobody is ahead of the head, and with it go the pairs that it is in.     *)
LEMMA AheadTail ==
  ASSUME NEW S, NEW q \in Seq(S), NEW key, q # <<>>, NoDuplicates(q)
  PROVE  /\ \A s : <<s, Head(q)>> \notin Ahead(q, key)
         /\ Ahead(Tail(q), key) = Ahead(q, key) \ ({Head(q)} \X Queued(q))
<1> DEFINE h == Head(q)
           r == Tail(q)
<1>1. /\ h \in Queued(q) /\ r \in Seq(S) /\ NoDuplicates(r)
      /\ Queued(r) = Queued(q) \ {h}
      /\ \A a, b : Before(q, a, b) /\ a # h => Before(r, a, b)
  BY HeadTailOfList
<1>2. \A s : ~Before(q, s, h)
  <2>1. /\ Len(q) \in Nat /\ DOMAIN q = 1 .. Len(q) /\ 1 \in DOMAIN q /\ h = q[1]
        /\ \A i, j \in DOMAIN q : q[i] = q[j] => i = j
    BY LenProperties, EmptySeq DEF NoDuplicates, IsInjective
  <2> SUFFICES ASSUME NEW k \in DOMAIN q, NEW l \in DOMAIN q, k < l, q[l] = h
               PROVE  FALSE
    BY Zenon DEF Before
  <2>2. l = 1
    BY <2>1
  <2> QED
    BY <2>1, <2>2
<1> HIDE DEF h, r
<1>3. \A s : <<s, h>> \notin Ahead(q, key)
  BY <1>2, AheadPairs
<1>4. ASSUME NEW a, NEW b, <<a, b>> \in Ahead(r, key)
      PROVE  <<a, b>> \in Ahead(q, key) \ ({h} \X Queued(q))
  <2>1. /\ a \in Queued(q) \ {h} /\ b \in Queued(q) \ {h}
        /\ key[a] = key[b] /\ Before(r, a, b)
    BY <1>1, <1>4, AheadPairs
  <2>2. a # b /\ ~Before(r, b, a)
    BY <1>1, <2>1, OrderOfList
  <2>3. ~Before(q, b, a)
    BY <1>1, <2>1, <2>2
  <2>4. Before(q, a, b)
    BY <2>1, <2>2, <2>3, OrderOfList
  <2> QED
    BY <2>1, <2>4, AheadPairs
<1>5. ASSUME NEW a, NEW b, <<a, b>> \in Ahead(q, key) \ ({h} \X Queued(q))
      PROVE  <<a, b>> \in Ahead(r, key)
  <2>1. a \in Queued(q) /\ b \in Queued(q) /\ key[a] = key[b] /\ Before(q, a, b)
    BY <1>5, AheadPairs
  <2>2. a # h
    BY <1>5, <2>1
  <2>3. b # h
    BY <1>2, <2>1
  <2> QED
    BY <1>1, <2>1, <2>2, <2>3, AheadPairs
<1>6. /\ Ahead(r, key) \subseteq Queued(q) \X Queued(q)
      /\ Ahead(q, key) \subseteq Queued(q) \X Queued(q)
  BY <1>1 DEF Ahead
<1>7. Ahead(r, key) = Ahead(q, key) \ ({h} \X Queued(q))
  BY <1>4, <1>5, <1>6
<1> QED
  BY <1>3, <1>7 DEF h, r

LEMMA AheadAgreement ==
  ASSUME NEW q, NEW key, NEW other, \A u \in Queued(q) : other[u] = key[u]
  PROVE  Ahead(q, other) = Ahead(q, key)
BY DEF Ahead

===============================================================================
