----------------------------- MODULE VulcanLemmas -----------------------------
(***************************************************************************)
(* Facts that the proofs about several components need: quotients and      *)
(* remainders, with which the indices of rings, the counters that wrap and *)
(* the alignments of the arena are calculated, sequences put together or   *)
(* reversed, and induction on the natural numbers.                         *)
(***************************************************************************)
EXTENDS SequencesExt, Integers, SequenceTheorems,
        WellFoundedInduction, TLAPS

(* Quotient and remainder.                                                   *)
LEMMA Division ==
  ASSUME NEW n \in Int, NEW a \in Nat \ {0}
  PROVE  /\ n \div a \in Int
         /\ n % a \in 0 .. a - 1
         /\ n = a * (n \div a) + (n % a)
OBVIOUS

LEMMA Multiple ==
  ASSUME NEW a \in Nat \ {0}, NEW q \in Int
  PROVE  (a * q) % a = 0
<1> DEFINE r == (a * q) % a
           p == (a * q) \div a
<1>0. a * q \in Int
  OBVIOUS
<1>1. p \in Int /\ r \in 0 .. a - 1 /\ a * q = a * p + r
  BY <1>0, Division
<1> HIDE DEF p, r
<1>2. r = a * (q - p)
  BY <1>1
<1>3. CASE q - p >= 1
  BY <1>1, <1>2, <1>3
<1>4. CASE q - p <= 0
  <2>1. a * (q - p) <= 0
    BY <1>1, <1>4
  <2> QED
    BY <2>1, <1>1, <1>2 DEF r
<1> QED
  BY <1>1, <1>3, <1>4

(* No multiple of a lies between two that follow one another.                *)
LEMMA NextMultiple ==
  ASSUME NEW a \in Nat \ {0}, NEW m \in Int, NEW n \in Int,
         m % a = 0, n % a = 0, m < n
  PROVE  m + a <= n
<1> DEFINE p == m \div a
           q == n \div a
<1>1. p \in Int /\ q \in Int /\ m = a * p /\ n = a * q
  BY Division
<1> HIDE DEF p, q
<1>2. CASE q - p <= 0
  <2>1. a * (q - p) <= 0
    BY <1>1, <1>2
  <2> QED
    BY <1>1, <2>1
<1>3. CASE q - p >= 1
  <2>1. a * (q - p) >= a
    BY <1>1, <1>3
  <2> QED
    BY <1>1, <2>1
<1> QED
  BY <1>1, <1>2, <1>3

(* A number that is at most once out of the range, modulo the range.         *)
LEMMA WrapsOnce ==
  ASSUME NEW m \in Nat \ {0}, NEW x \in Int
  PROVE  /\ 0 <= x /\ x < m => x % m = x
         /\ 0 - m <= x /\ x < 0 => x % m = x + m
         /\ m <= x /\ x < m + m => x % m = x - m
<1> DEFINE q == x \div m
           r == x % m
<1>1. x = m * q + r /\ q \in Int /\ r \in Int /\ 0 <= r /\ r < m
  OBVIOUS
<1> HIDE DEF q, r
<1>2. m * q = 0 \/ (q >= 1 /\ m * q >= m) \/ (q <= 0 - 1 /\ m * q <= 0 - m)
  <2>1. CASE q >= 1
    <3>1. m * (q - 1) >= 0
      BY <1>1, <2>1
    <3> QED
      BY <1>1, <2>1, <3>1
  <2>2. CASE q <= 0 - 1
    <3>1. m * (q + 1) <= 0
      BY <1>1, <2>2
    <3> QED
      BY <1>1, <2>2, <3>1
  <2>3. CASE q = 0
    BY <2>3
  <2> QED
    BY <1>1, <2>1, <2>2, <2>3
<1>3. q >= 1 => m * q = m \/ m * q >= m + m
  <2>1. q >= 2 => m * (q - 2) >= 0
    BY <1>1
  <2>2. q >= 2 => m * q >= m + m
    BY <1>1, <2>1
  <2> QED
    BY <1>1, <2>2
<1>4. q <= 0 - 1 => m * q = 0 - m \/ m * q <= 0 - m - m
  <2>1. q <= 0 - 2 => m * (q + 2) <= 0
    BY <1>1
  <2>2. q <= 0 - 2 => m * q <= 0 - m - m
    BY <1>1, <2>1
  <2> QED
    BY <1>1, <2>2
<1> DEFINE p == m * q
<1>5. p \in Int
  BY <1>1
<1> HIDE DEF p
<1>6. x = p + r /\ (p = 0 \/ p = m \/ p >= m + m \/ p = 0 - m \/ p <= 0 - m - m)
  BY <1>1, <1>2, <1>3, <1>4 DEF p
<1>7. /\ 0 <= x /\ x < m => r = x
      /\ 0 - m <= x /\ x < 0 => r = x + m
      /\ m <= x /\ x < m + m => r = x - m
  <2>1. r \in Int /\ 0 <= r /\ r < m
    BY <1>1
  <2> QED
    BY <1>5, <1>6, <2>1
<1> QED
  BY <1>7 DEF r

-------------------------------------------------------------------------------
\* Two sequences in a row.

LEMMA AppendToSecond ==
  ASSUME NEW S, NEW s \in Seq(S), NEW t \in Seq(S), NEW b \in S
  PROVE  s \o Append(t, b) = Append(s \o t, b)
<1>1. s \o t \in Seq(S) /\ <<b>> \in Seq(S)
  BY ConcatProperties
<1>2. Append(t, b) = t \o <<b>> /\ Append(s \o t, b) = (s \o t) \o <<b>>
  BY <1>1, AppendIsConcat
<1> QED
  BY <1>1, <1>2, ConcatAssociative

(* The first of the one goes to the end of the other.                        *)
LEMMA MoveOver ==
  ASSUME NEW S, NEW s \in Seq(S), NEW t \in Seq(S), t # <<>>
  PROVE  Append(s, Head(t)) \o Tail(t) = s \o t
<1> DEFINE a == Append(s, Head(t))
           u == Tail(t)
<1>1. /\ Head(t) \in S /\ Head(t) = t[1]
      /\ u \in Seq(S) /\ Len(u) = Len(t) - 1
      /\ \A i \in 1 .. Len(u) : u[i] = t[i + 1]
  BY HeadTailProperties
<1>2. /\ a \in Seq(S) /\ Len(a) = Len(s) + 1
      /\ \A i \in 1 .. Len(s) : a[i] = s[i]
      /\ a[Len(s) + 1] = t[1]
  BY <1>1, AppendProperties
<1>3. Len(s) \in Nat /\ Len(t) \in Nat \ {0}
  BY LenProperties, EmptySeq
<1> HIDE DEF a, u
<1>4. /\ a \o u \in Seq(S) /\ Len(a \o u) = Len(a) + Len(u)
      /\ \A i \in 1 .. Len(a) + Len(u) :
           (a \o u)[i] = IF i <= Len(a) THEN a[i] ELSE u[i - Len(a)]
  BY <1>1, <1>2, ConcatProperties
<1>5. /\ s \o t \in Seq(S) /\ Len(s \o t) = Len(s) + Len(t)
      /\ \A i \in 1 .. Len(s) + Len(t) :
           (s \o t)[i] = IF i <= Len(s) THEN s[i] ELSE t[i - Len(s)]
  BY ConcatProperties
<1>6. Len(a) + Len(u) = Len(s) + Len(t)
  BY <1>1, <1>2, <1>3
<1>7. \A i \in 1 .. Len(s) + Len(t) : (a \o u)[i] = (s \o t)[i]
  <2> TAKE i \in 1 .. Len(s) + Len(t)
  <2>1. CASE i <= Len(s)
    BY <1>2, <1>3, <1>4, <1>5, <1>6, <2>1
  <2>2. CASE i = Len(s) + 1
    BY <1>2, <1>3, <1>4, <1>5, <1>6, <2>2
  <2>3. CASE i > Len(s) + 1
    <3>1. i - Len(a) \in 1 .. Len(u) /\ i - Len(a) + 1 = i - Len(s)
      BY <1>1, <1>2, <1>3, <2>3
    <3>2. (a \o u)[i] = u[i - Len(a)] /\ (s \o t)[i] = t[i - Len(s)]
      BY <1>2, <1>3, <1>4, <1>5, <1>6, <2>3
    <3> QED
      BY <1>1, <3>1, <3>2
  <2>4. i <= Len(s) \/ i = Len(s) + 1 \/ i > Len(s) + 1
    BY <1>3
  <2> QED
    BY <2>1, <2>2, <2>3, <2>4, Zenon
<1>8. a \o u = s \o t
  BY <1>4, <1>5, <1>6, <1>7, SeqEqual
<1> QED
  BY <1>8 DEF a, u

LEMMA HeadOfFirst ==
  ASSUME NEW S, NEW s \in Seq(S), NEW t \in Seq(S), s # <<>>
  PROVE  /\ s \o t # <<>>
         /\ Head(s \o t) = Head(s)
         /\ Tail(s \o t) = Tail(s) \o t
<1> DEFINE u == Tail(s)
           c == s \o t
<1>1. /\ u \in Seq(S) /\ Len(u) = Len(s) - 1
      /\ \A i \in 1 .. Len(u) : u[i] = s[i + 1]
  BY HeadTailProperties
<1>2. Len(s) \in Nat \ {0} /\ Len(t) \in Nat
  BY LenProperties, EmptySeq
<1>3. /\ c \in Seq(S) /\ Len(c) = Len(s) + Len(t)
      /\ \A i \in 1 .. Len(s) + Len(t) :
           c[i] = IF i <= Len(s) THEN s[i] ELSE t[i - Len(s)]
  BY ConcatProperties
<1> HIDE DEF u, c
<1>4. c # <<>>
  BY <1>2, <1>3, EmptySeq
<1>5. Head(c) = Head(s)
  BY <1>2, <1>3, <1>4
<1>6. /\ Tail(c) \in Seq(S) /\ Len(Tail(c)) = Len(c) - 1
      /\ \A i \in 1 .. Len(Tail(c)) : Tail(c)[i] = c[i + 1]
  BY <1>3, <1>4, HeadTailProperties
<1>7. /\ u \o t \in Seq(S) /\ Len(u \o t) = Len(u) + Len(t)
      /\ \A i \in 1 .. Len(u) + Len(t) :
           (u \o t)[i] = IF i <= Len(u) THEN u[i] ELSE t[i - Len(u)]
  BY <1>1, ConcatProperties
<1>8. \A i \in 1 .. Len(Tail(c)) : Tail(c)[i] = (u \o t)[i]
  <2> TAKE i \in 1 .. Len(Tail(c))
  <2>1. i + 1 \in 1 .. Len(s) + Len(t) /\ i \in 1 .. Len(u) + Len(t)
    BY <1>1, <1>2, <1>3, <1>6
  <2>2. Tail(c)[i] = c[i + 1]
    BY <1>6
  <2>3. CASE i <= Len(u)
    <3>1. c[i + 1] = s[i + 1] /\ (u \o t)[i] = u[i]
      BY <1>1, <1>2, <1>3, <1>7, <2>1, <2>3
    <3> QED
      BY <1>1, <1>2, <2>1, <2>2, <2>3, <3>1
  <2>4. CASE i > Len(u)
    <3>1. i + 1 - Len(s) = i - Len(u)
      BY <1>1, <1>2, <2>1
    <3>2. c[i + 1] = t[i + 1 - Len(s)] /\ (u \o t)[i] = t[i - Len(u)]
      BY <1>1, <1>2, <1>3, <1>7, <2>1, <2>4
    <3> QED
      BY <2>2, <3>1, <3>2
  <2> QED
    BY <1>1, <1>2, <2>1, <2>3, <2>4
<1>9. Tail(c) = u \o t
  <2>1. Len(Tail(c)) = Len(u \o t)
    BY <1>1, <1>2, <1>3, <1>6, <1>7
  <2> QED
    BY <1>6, <1>7, <1>8, <2>1, SeqEqual
<1> QED
  BY <1>4, <1>5, <1>9 DEF u, c

(* What is lost behind the first sequence is the first of the second.        *)
LEMMA RemoveSecond ==
  ASSUME NEW S, NEW s \in Seq(S), NEW t \in Seq(S), t # <<>>
  PROVE  RemoveAt(s \o t, Len(s) + 1) = s \o Tail(t)
<1> DEFINE c == s \o t
           m == Len(s)
           n == Len(s) + Len(t)
           before == SubSeq(c, 1, m)
           after == SubSeq(c, m + 2, n)
<1>1. m \in Nat /\ Len(t) \in Nat \ {0}
  BY LenProperties, EmptySeq
<1>2. /\ c \in Seq(S) /\ Len(c) = n
      /\ \A i \in 1 .. n : c[i] = IF i <= m THEN s[i] ELSE t[i - m]
  BY ConcatProperties
<1>3. n \in Nat /\ n = m + Len(t) /\ \A i \in 1 .. n : c[i] \in S
  BY <1>1, <1>2, ElementOfSeq
<1> HIDE DEF c, n
<1>4. /\ before \in Seq(S) /\ Len(before) = m
      /\ \A i \in 1 .. m : before[i] = c[i]
  BY <1>1, <1>3, SubSeqProperties, Z3
<1> HIDE DEF before, after
<1>5. /\ after \in Seq(S) /\ Len(after) = n - m - 1
      /\ \A i \in 1 .. n - m - 1 : after[i] = c[m + 1 + i]
  <2>1. m + 2 \in Int /\ n \in Int /\ \A i \in m + 2 .. n : c[i] \in S
    BY <1>1, <1>3
  <2>2. /\ after \in Seq(S)
        /\ Len(after) = IF m + 2 <= n THEN n - (m + 2) + 1 ELSE 0
        /\ \A i \in 1 .. n - (m + 2) + 1 : after[i] = c[(m + 2) + i - 1]
    BY <2>1, SubSeqProperties, Z3 DEF after
  <2>3. Len(after) = n - m - 1
    <3>1. CASE m + 2 <= n
      <4>1. Len(after) = n - (m + 2) + 1
        BY <2>2, <3>1
      <4>2. n - (m + 2) + 1 = n - m - 1
        BY <1>1, <1>3
      <4> QED
        BY <4>1, <4>2
    <3>2. CASE ~(m + 2 <= n)
      <4>1. Len(after) = 0
        BY <2>2, <3>2
      <4>2. n - m - 1 = 0
        BY <1>1, <1>3, <3>2
      <4> QED
        BY <4>1, <4>2
    <3> QED
      BY <3>1, <3>2
  <2>4. ASSUME NEW i \in 1 .. n - m - 1 PROVE after[i] = c[m + 1 + i]
    <3>1. i \in 1 .. n - (m + 2) + 1 /\ (m + 2) + i - 1 = m + 1 + i
      BY <1>1, <1>3
    <3> QED
      BY <2>2, <3>1
  <2> QED
    BY <2>2, <2>3, <2>4
<1>6. before = s
  BY <1>1, <1>2, <1>3, <1>4, SeqEqual
<1>7. /\ Tail(t) \in Seq(S) /\ Len(Tail(t)) = Len(t) - 1
      /\ \A i \in 1 .. Len(Tail(t)) : Tail(t)[i] = t[i + 1]
  BY HeadTailProperties
<1>8. \A i \in 1 .. Len(after) : after[i] = Tail(t)[i]
  <2> TAKE i \in 1 .. Len(after)
  <2>1. m + 1 + i \in 1 .. n /\ m + 1 + i > m /\ m + 1 + i - m = i + 1
    BY <1>1, <1>3, <1>5
  <2>2. after[i] = t[m + 1 + i - m]
    BY <1>1, <1>2, <1>5, <2>1
  <2>3. i \in 1 .. Len(Tail(t))
    BY <1>1, <1>3, <1>5, <1>7
  <2> QED
    BY <1>7, <2>1, <2>2, <2>3
<1>9. after = Tail(t)
  <2>1. Len(after) = Len(Tail(t))
    BY <1>1, <1>3, <1>5, <1>7
  <2> QED
    BY <1>5, <1>7, <1>8, <2>1, SeqEqual
<1>10. RemoveAt(c, m + 1) = SubSeq(c, 1, (m + 1) - 1) \o SubSeq(c, m + 1 + 1, n)
  <2>1. RemoveAt(c, m + 1) = SubSeq(c, 1, (m + 1) - 1) \o SubSeq(c, m + 1 + 1, Len(c))
    BY DEF RemoveAt
  <2> QED
    BY <1>2, <2>1
<1>11. (m + 1) - 1 = m /\ m + 1 + 1 = m + 2
  BY <1>1
<1> QED
  BY <1>6, <1>9, <1>10, <1>11 DEF before, after, c

-------------------------------------------------------------------------------
(* A sequence read from its end. *)
LEMMA ReverseType ==
  ASSUME NEW S, NEW t \in Seq(S)
  PROVE  /\ Reverse(t) \in Seq(S)
         /\ Len(Reverse(t)) = Len(t)
         /\ \A i \in 1 .. Len(t) : Reverse(t)[i] = t[Len(t) - i + 1]
<1>1. Len(t) \in Nat /\ \A i \in 1 .. Len(t) : t[i] \in S
  BY LenProperties, ElementOfSeq
<1>2. \A i \in 1 .. Len(t) : Len(t) - i + 1 \in 1 .. Len(t)
  BY <1>1
<1>3. Reverse(t) \in [1 .. Len(t) -> S]
  BY <1>1, <1>2 DEF Reverse
<1>4. Reverse(t) \in Seq(S) /\ Len(Reverse(t)) = Len(t)
  BY <1>1, <1>3, IsASeq
<1> QED
  BY <1>4 DEF Reverse

LEMMA ReverseEmpty == Reverse(<<>>) = <<>>
<1>1. Reverse(<<>>) \in Seq({}) /\ Len(Reverse(<<>>)) = 0
  BY ReverseType, EmptySeq
<1> QED
  BY <1>1, EmptySeq

(* What was appended comes first.                                            *)
LEMMA ReverseAppend ==
  ASSUME NEW S, NEW t \in Seq(S), NEW c \in S
  PROVE  /\ Reverse(Append(t, c)) # <<>>
         /\ Head(Reverse(Append(t, c))) = c
         /\ Tail(Reverse(Append(t, c))) = Reverse(t)
<1> DEFINE a == Append(t, c)
           r == Reverse(a)
           n == Len(t)
<1>1. /\ a \in Seq(S) /\ Len(a) = n + 1 /\ a[n + 1] = c
      /\ \A i \in 1 .. n : a[i] = t[i]
  BY AppendProperties
<1>2. n \in Nat
  BY LenProperties
<1> HIDE DEF a
<1>3. r \in Seq(S) /\ Len(r) = n + 1 /\ \A i \in 1 .. n + 1 : r[i] = a[n + 1 - i + 1]
  BY <1>1, ReverseType
<1>4. /\ Reverse(t) \in Seq(S) /\ Len(Reverse(t)) = n
      /\ \A i \in 1 .. n : Reverse(t)[i] = t[n - i + 1]
  BY ReverseType
<1> HIDE DEF r, n
<1>5. r # <<>>
  BY <1>2, <1>3, EmptySeq
<1>6. Head(r) = c
  <2>1. Head(r) = r[1]
    BY <1>3, <1>5
  <2>2. r[1] = a[n + 1]
    BY <1>2, <1>3
  <2> QED
    BY <1>1, <2>1, <2>2
<1>7. Tail(r) = Reverse(t)
  <2>1. /\ Tail(r) \in Seq(S) /\ Len(Tail(r)) = n
        /\ \A i \in 1 .. n : Tail(r)[i] = r[i + 1]
    BY <1>2, <1>3, <1>5, HeadTailProperties
  <2>2. ASSUME NEW i \in 1 .. n PROVE Tail(r)[i] = Reverse(t)[i]
    <3>1. i + 1 \in 1 .. n + 1 /\ n + 1 - (i + 1) + 1 = n - i + 1 /\ n - i + 1 \in 1 .. n
      BY <1>2
    <3>2. r[i + 1] = a[n - i + 1]
      BY <1>3, <3>1
    <3> QED
      BY <1>1, <1>4, <2>1, <3>1, <3>2
  <2> QED
    BY <1>4, <2>1, <2>2, SeqEqual
<1> QED
  BY <1>5, <1>6, <1>7 DEF r, a

(* The last of the reversed goes to the end of what is before it.            *)
LEMMA MoveLast ==
  ASSUME NEW S, NEW s \in Seq(S), NEW t \in Seq(S), NEW c \in S
  PROVE  s \o Reverse(Append(t, c)) = Append(s, c) \o Reverse(t)
<1>1. Append(t, c) \in Seq(S)
  BY AppendProperties
<1>2. Reverse(Append(t, c)) \in Seq(S)
  BY <1>1, ReverseType
<1> QED
  BY <1>2, ReverseAppend, MoveOver

(* A sequence is what is before its last element, and that.                  *)
LEMMA FrontAndLast ==
  ASSUME NEW S, NEW t \in Seq(S), t # <<>>
  PROVE  /\ Front(t) \in Seq(S) /\ Last(t) \in S
         /\ t = Append(Front(t), Last(t))
<1> DEFINE f == Front(t)
           n == Len(t)
<1>1. n \in Nat \ {0} /\ \A i \in 1 .. n : t[i] \in S
  BY LenProperties, EmptySeq, ElementOfSeq
<1>2. Last(t) = t[n] /\ f = SubSeq(t, 1, n - 1)
  BY DEF Last, Front
<1> HIDE DEF n, f
<1>3. /\ f \in Seq(S) /\ Len(f) = n - 1
      /\ \A i \in 1 .. n - 1 : f[i] = t[i]
  <2>1. 1 \in Int /\ n - 1 \in Int /\ \A i \in 1 .. n - 1 : t[i] \in S
    BY <1>1
  <2> DEFINE p == SubSeq(t, 1, n - 1)
  <2>2. /\ p \in Seq(S) /\ Len(p) = IF 1 <= n - 1 THEN n - 1 - 1 + 1 ELSE 0
        /\ \A i \in 1 .. n - 1 - 1 + 1 : p[i] = t[1 + i - 1]
    BY <2>1, SubSeqProperties
  <2> HIDE DEF p
  <2> QED
    BY <1>1, <1>2, <2>2 DEF p
<1>4. Last(t) \in S
  BY <1>1, <1>2
<1> DEFINE a == Append(f, Last(t))
<1>5. /\ a \in Seq(S) /\ Len(a) = n
      /\ \A i \in 1 .. n - 1 : a[i] = f[i]
      /\ a[n] = t[n]
  <2>1. /\ Append(f, Last(t)) \in Seq(S) /\ Len(Append(f, Last(t))) = Len(f) + 1
        /\ \A i \in 1 .. Len(f) : Append(f, Last(t))[i] = f[i]
        /\ Append(f, Last(t))[Len(f) + 1] = Last(t)
    BY <1>3, <1>4, AppendProperties
  <2> QED
    BY <1>1, <1>2, <1>3, <2>1
<1> HIDE DEF a
<1>6. a = t
  <2>1. \A i \in 1 .. n : a[i] = t[i]
    BY <1>1, <1>3, <1>5
  <2> QED
    BY <1>5, <2>1, SeqEqual DEF n
<1> QED
  BY <1>3, <1>4, <1>6 DEF a, f

-------------------------------------------------------------------------------
(* Of natural numbers there is a least one, *)
LEMMA Least ==
  ASSUME NEW T \in SUBSET Nat, T # {}
  PROVE  \E n \in T : \A m \in T : n <= m
<1>1. PICK n \in T : \A m \in T : ~ (<<m, n>> \in OpToRel(<, Nat))
  BY NatLessThanWellFounded, WFMin
<1>2. \A m \in T : ~(m < n)
  <2> SUFFICES ASSUME NEW m \in T, m < n PROVE FALSE
    OBVIOUS
  <2>1. <<m, n>> \in Nat \X Nat
    OBVIOUS
  <2>2. <<m, n>> \in OpToRel(<, Nat)
    BY <2>1 DEF OpToRel
  <2> QED
    BY <1>1, <2>2
<1> QED
  BY <1>2

(* so that what holds of 0, and of n + 1 if of n, holds of all.              *)
LEMMA Induction ==
  ASSUME NEW T \in SUBSET Nat, 0 \in T, \A n \in T : n + 1 \in T
  PROVE  T = Nat
<1> SUFFICES ASSUME Nat \ T # {} PROVE FALSE
  OBVIOUS
<1>1. PICK n \in Nat \ T : \A m \in Nat \ T : n <= m
  <2>1. Nat \ T \in SUBSET Nat
    OBVIOUS
  <2> QED
    BY <2>1, Least
<1>2. n - 1 \in T
  BY <1>1
<1> QED
  BY <1>1, <1>2

===============================================================================
