--------------------------- MODULE CommonLemmas ---------------------------
(***************************************************************************)
(* What a loop that stops at the first fitting index finds, what a loop    *)
(* that carries a value from one index to the next computes, and what      *)
(* list_add and list_del do to a list that names nothing twice.            *)
(***************************************************************************)
EXTENDS Naturals, SequencesExt, FiniteSetTheorems, SequenceTheorems, TLAPS

(* A set of natural numbers that is not empty has a least element: the order *)
(* a search of the free lists ends at, the area a walk of the list ends at.   *)
LEMMA LeastNat ==
  ASSUME NEW S \in SUBSET Nat, S # {}
  PROVE  \E k \in S : \A j \in S : k <= j
<1>1. PICK m \in S : TRUE
  OBVIOUS
<1> DEFINE U == 0 .. m
           T == {0 .. k : k \in {j \in S : j <= m}}
<1>2. IsFiniteSet(U)
  BY FS_Interval
<1>3. IsWellFoundedOn(StrictSubsetOrdering(U), SUBSET U)
  <2> HIDE DEF U
  <2> QED
    BY <1>2, FS_StrictSubsetOrderingWellFounded, FS_FiniteSubsetsOfFinite
<1>4. T \subseteq SUBSET U /\ T # {}
  BY <1>1
<1>5. PICK x \in T : \A y \in T : <<y, x>> \notin StrictSubsetOrdering(U)
  <2> HIDE DEF T
  <2> QED
    BY <1>3, <1>4, WFMin
<1>6. PICK k \in S : k <= m /\ x = 0 .. k
  BY <1>5
<1>7. ASSUME NEW j \in S, j < k
      PROVE  FALSE
  <2>1. 0 .. j \in T /\ 0 .. j \subseteq x /\ 0 .. j # x
    BY <1>1, <1>6, <1>7
  <2>2. <<0 .. j, x>> \in StrictSubsetOrdering(U)
    BY <2>1, <1>4, <1>5 DEF StrictSubsetOrdering
  <2> QED
    BY <1>5, <2>1, <2>2
<1> QED
  BY <1>1, <1>6, <1>7

(* A property of numbers up to n that holds at the first and is handed on     *)
(* from each to the next holds at all of them.                                *)
LEMMA Steps ==
  ASSUME NEW n \in Nat, NEW m \in Nat, NEW Good \in SUBSET (m .. n),
         m <= n => m \in Good,
         \A i \in m .. n : i \in Good /\ i < n => i + 1 \in Good
  PROVE  Good = m .. n
<1> SUFFICES ASSUME (m .. n) \ Good # {}
             PROVE  FALSE
  OBVIOUS
<1> DEFINE Bad == (m .. n) \ Good
<1>1. PICK k \in Bad : \A j \in Bad : k <= j
  <2>1. Bad \in SUBSET Nat /\ Bad # {}
    OBVIOUS
  <2> HIDE DEF Bad
  <2> QED
    BY <2>1, LeastNat
<1>2. k # m /\ k - 1 \in Good
  BY <1>1
<1> QED
  BY <1>1, <1>2

(* f holds what a loop has at each index: first, then what step makes of it.  *)
Iterates(f, n, first, step) ==
  \A i \in 1 .. n : f[i] = IF i = 1 THEN first ELSE step[i][f[i - 1]]

(* The function that a loop over 1 .. n builds exists, so that a recursive    *)
(* definition of it means what it says.                                       *)
LEMMA IterationExists ==
  ASSUME NEW V, NEW n \in Nat, NEW first \in V, NEW step \in [Nat -> [V -> V]]
  PROVE  \E f \in [1 .. n -> V] : Iterates(f, n, first, step)
<1> USE DEF Iterates
<1> DEFINE Is(f, k) == Iterates(f, k, first, step)
           Good == {k \in 0 .. n : \E f \in [1 .. k -> V] : Is(f, k)}
<1>1. 0 \in Good
  <2> DEFINE f == [i \in 1 .. 0 |-> first]
  <2>1. f \in [1 .. 0 -> V]
    OBVIOUS
  <2>2. Is(f, 0)
    OBVIOUS
  <2>3. \E h \in [1 .. 0 -> V] : Is(h, 0)
    BY <2>1, <2>2
  <2>4. 0 \in 0 .. n
    OBVIOUS
  <2> HIDE DEF Is, f
  <2> QED
    BY <2>3, <2>4, Zenon
<1>2. ASSUME NEW k \in 0 .. n, k \in Good, k < n
      PROVE  k + 1 \in Good
  <2>1. PICK f \in [1 .. k -> V] : Is(f, k)
    BY <1>2
  <2> DEFINE last == IF k + 1 = 1 THEN first ELSE step[k + 1][f[k]]
             g == [i \in 1 .. k + 1 |-> IF i = k + 1 THEN last ELSE f[i]]
  <2>2. last \in V
    BY <2>1
  <2>3. g \in [1 .. k + 1 -> V]
    BY <2>1, <2>2
  <2>4. ASSUME NEW i \in 1 .. k + 1
        PROVE  g[i] = IF i = 1 THEN first ELSE step[i][g[i - 1]]
    <3>1. CASE i = k + 1
      BY <3>1
    <3>2. CASE i # k + 1
      <4>1. f[i] = IF i = 1 THEN first ELSE step[i][f[i - 1]]
        BY <2>1, <3>2
      <4> QED
        BY <3>2, <4>1
    <3> QED
      BY <3>1, <3>2
  <2>5. Is(g, k + 1)
    BY <2>3, <2>4
  <2> HIDE DEF Is, g
  <2> QED
    BY <1>2, <2>3, <2>5
<1>3. Good = 0 .. n
  <2> HIDE DEF Good
  <2>1. Good \in SUBSET (0 .. n)
    BY DEF Good
  <2> QED
    BY <1>1, <1>2, <2>1, Steps
<1>4. n \in Good
  BY <1>3
<1> QED
  BY <1>4

-----------------------------------------------------------------------------
(* Lists that name nothing twice.                                            *)
Distinct(s) == \A i, j \in 1 .. Len(s) : s[i] = s[j] => i = j

(* list_add at the head.                                                      *)
LEMMA PutFirst ==
  ASSUME NEW S, NEW s \in Seq(S), Distinct(s), NEW e \in S, e \notin Range(s)
  PROVE  /\ <<e>> \o s \in Seq(S) /\ Distinct(<<e>> \o s) /\ <<e>> \o s # <<>>
         /\ Range(<<e>> \o s) = Range(s) \cup {e}
         /\ Len(<<e>> \o s) = Len(s) + 1 /\ (<<e>> \o s)[1] = e
         /\ \A i \in 1 .. Len(s) : (<<e>> \o s)[i + 1] = s[i]
<1> DEFINE r == <<e>> \o s
<1>1. /\ r \in Seq(S) /\ Len(r) = Len(s) + 1 /\ r[1] = e /\ Len(s) \in Nat
      /\ \A i \in 1 .. Len(s) : r[i + 1] = s[i]
  OBVIOUS
<1> HIDE DEF r
<1>2. \A i \in 2 .. Len(r) : i - 1 \in 1 .. Len(s) /\ r[i] = s[i - 1]
  BY <1>1
<1>3. \A i \in 1 .. Len(s) : s[i] # e
  BY DEF Range
<1>4. ASSUME NEW i \in 1 .. Len(r), NEW j \in 1 .. Len(r), r[i] = r[j]
      PROVE  i = j
  <2>1. CASE i = 1 \/ j = 1
    BY <1>1, <1>2, <1>3, <1>4, <2>1
  <2>2. CASE i # 1 /\ j # 1
    <3>1. i - 1 \in 1 .. Len(s) /\ j - 1 \in 1 .. Len(s) /\ s[i - 1] = s[j - 1]
      BY <1>1, <1>2, <1>4, <2>2
    <3>2. i - 1 = j - 1
      BY <3>1 DEF Distinct
    <3> QED
      BY <1>1, <3>2
  <2> QED
    BY <2>1, <2>2
<1>5. Range(r) = Range(s) \cup {e}
  <2>1. DOMAIN r = 1 .. Len(r) /\ DOMAIN s = 1 .. Len(s)
    BY <1>1
  <2>2. ASSUME NEW x \in Range(r)
        PROVE  x \in Range(s) \cup {e}
    <3>1. PICK i \in 1 .. Len(r) : r[i] = x
      BY <2>1 DEF Range
    <3>2. CASE i = 1
      BY <1>1, <3>1, <3>2
    <3>3. CASE i # 1
      <4>1. i - 1 \in 1 .. Len(s) /\ s[i - 1] = x
        BY <1>1, <1>2, <3>1, <3>3
      <4> QED
        BY <2>1, <4>1 DEF Range
    <3> QED
      BY <3>2, <3>3
  <2>3. ASSUME NEW x \in Range(s) \cup {e}
        PROVE  x \in Range(r)
    BY <1>1, <2>1 DEF Range
  <2> QED
    BY <2>2, <2>3
<1>6. r # <<>>
  BY <1>1
<1> QED
  BY <1>1, <1>4, <1>5, <1>6 DEF Distinct, r

(* list_del of the entry at k.                                                *)
LEMMA TakenOut ==
  ASSUME NEW S, NEW s \in Seq(S), Distinct(s), NEW k \in 1 .. Len(s)
  PROVE  /\ RemoveAt(s, k) \in Seq(S) /\ Distinct(RemoveAt(s, k))
         /\ Len(RemoveAt(s, k)) = Len(s) - 1
         /\ \A i \in 1 .. Len(s) - 1 :
              RemoveAt(s, k)[i] = IF i < k THEN s[i] ELSE s[i + 1]
         /\ Range(RemoveAt(s, k)) = Range(s) \ {s[k]}
<1> DEFINE r == RemoveAt(s, k)
<1>1. Len(s) \in Nat /\ k \in Nat /\ k > 0 /\ k <= Len(s)
  OBVIOUS
<1>2. /\ SubSeq(s, 1, k - 1) \in Seq(S) /\ Len(SubSeq(s, 1, k - 1)) = k - 1
      /\ \A i \in 1 .. k - 1 : SubSeq(s, 1, k - 1)[i] = s[i]
  BY <1>1
<1>3. /\ SubSeq(s, k + 1, Len(s)) \in Seq(S)
      /\ Len(SubSeq(s, k + 1, Len(s))) = Len(s) - k
      /\ \A i \in 1 .. Len(s) - k : SubSeq(s, k + 1, Len(s))[i] = s[k + i]
  BY <1>1
<1>4. /\ r \in Seq(S) /\ Len(r) = (k - 1) + (Len(s) - k)
      /\ \A i \in 1 .. (k - 1) + (Len(s) - k) :
           r[i] = IF i <= k - 1 THEN SubSeq(s, 1, k - 1)[i]
                  ELSE SubSeq(s, k + 1, Len(s))[i - (k - 1)]
  BY <1>2, <1>3, ConcatProperties DEF RemoveAt
<1> HIDE DEF r
<1>5. ASSUME NEW i \in 1 .. Len(s) - 1
      PROVE  r[i] = IF i < k THEN s[i] ELSE s[i + 1]
  <2>1. CASE i < k
    BY <1>1, <1>2, <1>4, <2>1
  <2>2. CASE i >= k
    <3>1. /\ i \in 1 .. (k - 1) + (Len(s) - k)
          /\ i - (k - 1) \in 1 .. Len(s) - k /\ k + (i - (k - 1)) = i + 1
      BY <1>1, <2>2
    <3>2. r[i] = SubSeq(s, k + 1, Len(s))[i - (k - 1)]
      BY <1>1, <1>4, <2>2, <3>1
    <3> QED
      BY <1>1, <1>3, <2>2, <3>1, <3>2
  <2> QED
    BY <1>1, <2>1, <2>2
<1>6. Len(r) = Len(s) - 1
  BY <1>1, <1>4
<1>7. ASSUME NEW i \in 1 .. Len(r), NEW j \in 1 .. Len(r), r[i] = r[j]
      PROVE  i = j
  BY <1>1, <1>5, <1>6, <1>7 DEF Distinct
<1>8. Range(r) = Range(s) \ {s[k]}
  <2>1. DOMAIN r = 1 .. Len(r) /\ DOMAIN s = 1 .. Len(s)
    BY <1>4
  <2>2. ASSUME NEW x \in Range(r)
        PROVE  x \in Range(s) /\ x # s[k]
    <3>1. PICK i \in 1 .. Len(r) : r[i] = x
      BY <2>1 DEF Range
    <3> QED
      BY <1>1, <1>5, <1>6, <2>1, <3>1 DEF Range, Distinct
  <2>3. ASSUME NEW x \in Range(s), x # s[k]
        PROVE  x \in Range(r)
    <3>1. PICK j \in 1 .. Len(s) : s[j] = x
      BY <2>1 DEF Range
    <3>2. CASE j < k
      <4>1. j \in 1 .. Len(s) - 1 /\ r[j] = x
        BY <1>1, <1>5, <3>1, <3>2
      <4> QED
        BY <1>6, <2>1, <4>1 DEF Range
    <3>3. CASE j > k
      <4>1. j - 1 \in 1 .. Len(s) - 1 /\ ~(j - 1 < k) /\ (j - 1) + 1 = j
        BY <1>1, <3>3
      <4>2. r[j - 1] = x
        BY <1>5, <3>1, <4>1
      <4> QED
        BY <1>6, <2>1, <4>1, <4>2 DEF Range
    <3> QED
      BY <1>1, <2>3, <3>1, <3>2, <3>3
  <2> QED
    BY <2>2, <2>3
<1> QED
  BY <1>4, <1>5, <1>6, <1>7, <1>8 DEF Distinct, r

(* list_del of an entry, which the list may not hold.                         *)
LEMMA Removed ==
  ASSUME NEW S, NEW s \in Seq(S), Distinct(s), NEW e
  PROVE  /\ RemoveFirst(s, e) \in Seq(S) /\ Distinct(RemoveFirst(s, e))
         /\ Range(RemoveFirst(s, e)) = Range(s) \ {e}
         /\ \/ e \notin Range(s) /\ RemoveFirst(s, e) = s
            \/ \E k \in 1 .. Len(s) : s[k] = e /\ RemoveFirst(s, e) = RemoveAt(s, k)
<1>1. Len(s) \in Nat /\ DOMAIN s = 1 .. Len(s)
  OBVIOUS
<1>2. CASE \A i \in 1 .. Len(s) : s[i] # e
  <2>1. RemoveFirst(s, e) = s
    BY <1>2 DEF RemoveFirst
  <2>2. e \notin Range(s)
    BY <1>1, <1>2 DEF Range
  <2> QED
    BY <2>1, <2>2
<1>3. CASE \E i \in 1 .. Len(s) : s[i] = e
  <2> DEFINE I == {i \in 1 .. Len(s) : s[i] = e}
             k == Min(I)
  <2>1. k \in 1 .. Len(s) /\ s[k] = e
    <3>1. \E i \in I : \A j \in I : i =< j
      <4>1. I \in SUBSET Nat /\ I # {}
        BY <1>3
      <4> HIDE DEF I
      <4> QED
        BY <4>1, LeastNat
    <3>2. k \in I
      <4> HIDE DEF I
      <4> QED
        BY <3>1 DEF Min
    <3> QED
      BY <3>2
  <2>2. RemoveFirst(s, e) = RemoveAt(s, k)
    <3>1. SelectInSeq(s, LAMBDA v : v = e) = k
      BY <1>3 DEF SelectInSeq
    <3> QED
      BY <1>3, <3>1 DEF RemoveFirst
  <2> HIDE DEF k, I
  <2> QED
    BY <2>1, <2>2, TakenOut
<1> QED
  BY <1>2, <1>3

(* Taking the first entry, as list_del of the head's next does.               *)
LEMMA TakeFirst ==
  ASSUME NEW S, NEW s \in Seq(S), Distinct(s), s # <<>>
  PROVE  /\ Tail(s) \in Seq(S) /\ Distinct(Tail(s)) /\ Len(Tail(s)) = Len(s) - 1
         /\ \A i \in 1 .. Len(Tail(s)) : Tail(s)[i] = s[i + 1]
         /\ Range(Tail(s)) = Range(s) \ {Head(s)} /\ Head(s) \in Range(s)
         /\ Head(s) = s[1]
<1> DEFINE r == Tail(s)
<1>1. /\ r \in Seq(S) /\ Len(r) = Len(s) - 1 /\ Len(s) \in Nat /\ Len(s) > 0
      /\ \A i \in 1 .. Len(r) : r[i] = s[i + 1]
      /\ Head(s) = s[1]
  OBVIOUS
<1> HIDE DEF r
<1>2. Distinct(r)
  <2> SUFFICES ASSUME NEW i \in 1 .. Len(r), NEW j \in 1 .. Len(r), r[i] = r[j]
               PROVE  i = j
    BY DEF Distinct
  <2> QED
    BY <1>1 DEF Distinct
<1>3. Range(r) = Range(s) \ {s[1]} /\ s[1] \in Range(s)
  <2>1. DOMAIN r = 1 .. Len(r) /\ DOMAIN s = 1 .. Len(s)
    BY <1>1
  <2>2. ASSUME NEW x \in Range(r)
        PROVE  x \in Range(s) /\ x # s[1]
    <3>1. PICK i \in 1 .. Len(r) : r[i] = x
      BY <2>1 DEF Range
    <3> QED
      BY <1>1, <2>1, <3>1 DEF Range, Distinct
  <2>3. ASSUME NEW x \in Range(s), x # s[1]
        PROVE  x \in Range(r)
    <3>1. PICK j \in 1 .. Len(s) : s[j] = x
      BY <2>1 DEF Range
    <3>2. j - 1 \in 1 .. Len(r) /\ r[j - 1] = x
      BY <1>1, <2>3, <3>1
    <3> QED
      BY <2>1, <3>2 DEF Range
  <2>4. s[1] \in Range(s)
    BY <1>1, <2>1 DEF Range
  <2> QED
    BY <2>2, <2>3, <2>4
<1> QED
  BY <1>1, <1>2, <1>3 DEF r

(* list_add after or before an entry: the new one at place k.                 *)
LEMMA PutAt ==
  ASSUME NEW S, NEW s \in Seq(S), Distinct(s), NEW e \in S, e \notin Range(s),
         NEW k \in 1 .. Len(s) + 1
  PROVE  /\ InsertAt(s, k, e) \in Seq(S) /\ Distinct(InsertAt(s, k, e))
         /\ Len(InsertAt(s, k, e)) = Len(s) + 1
         /\ \A i \in 1 .. Len(s) + 1 :
              InsertAt(s, k, e)[i] = IF i < k THEN s[i] ELSE IF i = k THEN e ELSE s[i - 1]
         /\ Range(InsertAt(s, k, e)) = Range(s) \cup {e}
<1> DEFINE r == InsertAt(s, k, e)
           a == SubSeq(s, 1, k - 1)
           b == SubSeq(s, k, Len(s))
           ae == a \o <<e>>
<1>1. Len(s) \in Nat /\ k \in Nat /\ k > 0 /\ k <= Len(s) + 1 /\ DOMAIN s = 1 .. Len(s)
  OBVIOUS
<1>2. a \in Seq(S) /\ Len(a) = k - 1 /\ \A i \in 1 .. k - 1 : a[i] = s[i]
  BY <1>1
<1>3. /\ b \in Seq(S) /\ Len(b) = Len(s) + 1 - k
      /\ \A i \in 1 .. Len(s) + 1 - k : b[i] = s[k + i - 1]
  <2>1. CASE k <= Len(s)
    BY <1>1, <2>1
  <2>2. CASE k = Len(s) + 1
    BY <1>1, <2>2
  <2> QED
    BY <1>1, <2>1, <2>2
<1> HIDE DEF a, b
<1>4. /\ ae \in Seq(S) /\ Len(ae) = k /\ ae[k] = e
      /\ \A i \in 1 .. k - 1 : ae[i] = s[i]
  BY <1>1, <1>2
<1> HIDE DEF ae
<1>5. /\ r \in Seq(S) /\ Len(r) = k + (Len(s) + 1 - k)
      /\ \A i \in 1 .. k + (Len(s) + 1 - k) : r[i] = IF i <= k THEN ae[i] ELSE b[i - k]
  <2>1. r = ae \o b
    BY DEF InsertAt, a, b, ae
  <2>2. PICK c : c = ae \o b
    OBVIOUS
  <2>3. /\ c \in Seq(S) /\ Len(c) = Len(ae) + Len(b)
        /\ \A i \in 1 .. Len(ae) + Len(b) :
             c[i] = IF i <= Len(ae) THEN ae[i] ELSE b[i - Len(ae)]
    BY <1>3, <1>4, <2>2, ConcatProperties
  <2> HIDE DEF r
  <2> QED
    BY <1>3, <1>4, <2>1, <2>2, <2>3
<1> HIDE DEF r
<1>6. Len(r) = Len(s) + 1 /\ DOMAIN r = 1 .. Len(s) + 1
  BY <1>1, <1>5
<1>7. ASSUME NEW i \in 1 .. Len(s) + 1
      PROVE  r[i] = IF i < k THEN s[i] ELSE IF i = k THEN e ELSE s[i - 1]
  <2>1. r[i] = IF i <= k THEN ae[i] ELSE b[i - k]
    BY <1>1, <1>5
  <2>2. CASE i <= k
    BY <1>1, <1>4, <2>1, <2>2
  <2>3. CASE i > k
    <3>1. i - k \in 1 .. Len(s) + 1 - k /\ k + (i - k) - 1 = i - 1
      BY <1>1, <2>3
    <3>2. b[i - k] = s[i - 1]
      BY <1>3, <3>1
    <3> QED
      BY <1>1, <2>1, <2>3, <3>2
  <2> QED
    BY <1>1, <2>2, <2>3
<1>8. \A i \in 1 .. Len(s) : s[i] # e
  BY <1>1 DEF Range
<1>9. ASSUME NEW i \in 1 .. Len(s) + 1, NEW j \in 1 .. Len(s) + 1, r[i] = r[j]
      PROVE  i = j
  <2>1. \A n \in 1 .. Len(s) + 1 : n # k =>
          /\ (IF n < k THEN n ELSE n - 1) \in 1 .. Len(s)
          /\ r[n] = s[IF n < k THEN n ELSE n - 1]
    BY <1>1, <1>7
  <2>2. r[k] = e
    BY <1>1, <1>7
  <2>3. CASE i = k \/ j = k
    BY <1>8, <1>9, <2>1, <2>2, <2>3
  <2>4. CASE i # k /\ j # k
    <3>1. (IF i < k THEN i ELSE i - 1) = (IF j < k THEN j ELSE j - 1)
      BY <1>9, <2>1, <2>4 DEF Distinct
    <3> QED
      BY <1>1, <2>4, <3>1
  <2> QED
    BY <2>3, <2>4
<1>10. Range(r) = Range(s) \cup {e}
  <2>1. ASSUME NEW x \in Range(r)
        PROVE  x \in Range(s) \cup {e}
    <3>1. PICK i \in 1 .. Len(s) + 1 : r[i] = x
      BY <1>6 DEF Range
    <3>2. CASE i < k
      <4>1. i \in 1 .. Len(s) /\ s[i] = x
        BY <1>1, <1>7, <3>1, <3>2
      <4> QED
        BY <1>1, <4>1 DEF Range
    <3>3. CASE i = k
      BY <1>7, <3>1, <3>3
    <3>4. CASE i > k
      <4>1. i - 1 \in 1 .. Len(s) /\ s[i - 1] = x
        BY <1>1, <1>7, <3>1, <3>4
      <4> QED
        BY <1>1, <4>1 DEF Range
    <3> QED
      BY <1>1, <3>2, <3>3, <3>4
  <2>2. ASSUME NEW x \in Range(s)
        PROVE  x \in Range(r)
    <3>1. PICK i \in 1 .. Len(s) : s[i] = x
      BY <1>1 DEF Range
    <3>2. CASE i < k
      <4>1. i \in 1 .. Len(s) + 1 /\ r[i] = x
        BY <1>1, <1>7, <3>1, <3>2
      <4> QED
        BY <1>6, <4>1 DEF Range
    <3>3. CASE i >= k
      <4>1. i + 1 \in 1 .. Len(s) + 1 /\ ~(i + 1 < k) /\ i + 1 # k /\ (i + 1) - 1 = i
        BY <1>1, <3>3
      <4>2. r[i + 1] = x
        BY <1>7, <3>1, <4>1
      <4> QED
        BY <1>6, <4>1, <4>2 DEF Range
    <3> QED
      BY <1>1, <3>2, <3>3
  <2>3. e \in Range(r)
    BY <1>1, <1>6, <1>7 DEF Range
  <2> QED
    BY <2>1, <2>2, <2>3
<1> QED
  BY <1>5, <1>6, <1>7, <1>9, <1>10 DEF Distinct, r

-----------------------------------------------------------------------------
(* Sums over finite sets, as FoldSet and FoldSeq take them. *)
Sums(f, S, size) ==
  f = [s \in SUBSET S |->
         IF s = {} THEN 0
         ELSE f[s \ {CHOOSE y \in s : TRUE}] + size[CHOOSE y \in s : TRUE]]

(* The fold's function exists, is the only one, and ends with n. *)
SumIs(S, size, n) ==
  \E F : F[S] = n /\ \A f : Sums(f, S, size) <=> f = F

Together(S, part) == UNION {part[x] : x \in S}

(* Finite sets that lie apart, and their sizes. *)
Sized(S, part, size) ==
  /\ \A x \in S : IsFiniteSet(part[x]) /\ size[x] = Cardinality(part[x])
  /\ \A x, y \in S : x # y => part[x] \cap part[y] = {}

(* The sum of the sizes of finite sets that lie apart is the size of their    *)
(* union, in whatever order a fold takes them.                                *)
LEMMA SumCounts ==
  ASSUME NEW S, IsFiniteSet(S), NEW part, NEW size, Sized(S, part, size)
  PROVE  /\ IsFiniteSet(Together(S, part))
         /\ SumIs(S, size, Cardinality(Together(S, part)))
<1> USE DEF Sized
<1> DEFINE U(s) == UNION {part[x] : x \in s}
           pick(s) == CHOOSE y \in s : TRUE
<1>1. \A s \in SUBSET S : IsFiniteSet(s) /\ IsFiniteSet(U(s)) /\ Cardinality(U(s)) \in Nat
  <2> SUFFICES ASSUME NEW s \in SUBSET S
               PROVE  IsFiniteSet(s) /\ IsFiniteSet(U(s)) /\ Cardinality(U(s)) \in Nat
    OBVIOUS
  <2>1. IsFiniteSet(s)
    BY FS_Subset
  <2>2. IsFiniteSet({part[x] : x \in s})
    <3>1. PICK T : T = {part[x] : x \in s}
      OBVIOUS
    <3>2. [x \in s |-> part[x]] \in Surjection(s, T)
      BY <3>1 DEF Surjection
    <3> QED
      BY <2>1, <3>1, <3>2, FS_Surjection
  <2>3. \A T \in {part[x] : x \in s} : IsFiniteSet(T)
    OBVIOUS
  <2> QED
    BY <2>1, <2>2, <2>3, FS_UNION, FS_CardinalityType
<1>2. ASSUME NEW s \in SUBSET S, NEW x \in s
      PROVE  Cardinality(U(s)) = Cardinality(U(s \ {x})) + size[x]
  <2>1. U(s) = U(s \ {x}) \cup part[x]
    OBVIOUS
  <2>2. U(s \ {x}) \cap part[x] = {}
    OBVIOUS
  <2>3. /\ IsFiniteSet(U(s \ {x})) /\ IsFiniteSet(part[x]) /\ size[x] = Cardinality(part[x])
        /\ s \ {x} \in SUBSET S
    BY <1>1
  <2>4. Cardinality(U(s \ {x})) \in Nat /\ Cardinality(part[x]) \in Nat
    BY <2>3, FS_CardinalityType
  <2>5. Cardinality(U(s \ {x}) \cup part[x])
          = Cardinality(U(s \ {x})) + Cardinality(part[x]) - Cardinality(U(s \ {x}) \cap part[x])
    <3> HIDE DEF U
    <3> QED
      BY <2>3, FS_Union
  <2>6. Cardinality(U(s \ {x}) \cap part[x]) = 0
    BY <2>2, FS_EmptySet
  <2> HIDE DEF U
  <2> QED
    BY <2>1, <2>3, <2>4, <2>5, <2>6
<1>3. PICK F : F = [s \in SUBSET S |-> Cardinality(U(s))]
  OBVIOUS
<1> DEFINE next(f, s) == IF s = {} THEN 0 ELSE f[s \ {pick(s)}] + size[pick(s)]
<1>4. \A s \in SUBSET S : s # {} => pick(s) \in s /\ s \ {pick(s)} \in SUBSET S
  OBVIOUS
<1>5. \A s \in SUBSET S : F[s] = next(F, s)
  <2> SUFFICES ASSUME NEW s \in SUBSET S
               PROVE  F[s] = next(F, s)
    OBVIOUS
  <2>1. CASE s = {}
    <3>1. U(s) = {}
      BY <2>1
    <3> QED
      BY <1>3, <2>1, <3>1, FS_EmptySet
  <2>2. CASE s # {}
    <3>1. PICK x \in s : x = pick(s)
      BY <1>4, <2>2
    <3>2. F[s] = Cardinality(U(s)) /\ F[s \ {x}] = Cardinality(U(s \ {x}))
      BY <1>3
    <3>3. F[s] = F[s \ {x}] + size[x]
      BY <1>2, <3>2
    <3> QED
      BY <2>2, <3>1, <3>3
  <2> QED
    BY <2>1, <2>2
<1>6. Sums(F, S, size)
  <2>1. F = [s \in SUBSET S |-> F[s]]
    BY <1>3
  <2>2. F = [s \in SUBSET S |-> next(F, s)]
    <3> HIDE DEF next
    <3> QED
      BY <1>5, <2>1
  <2> QED
    BY <2>2 DEF Sums
<1>7. ASSUME NEW f, Sums(f, S, size)
      PROVE  f = F
  <2>1. f = [s \in SUBSET S |-> next(f, s)]
    BY <1>7 DEF Sums
  <2>2. /\ \A s \in SUBSET S : f[s] = next(f, s)
        /\ f = [s \in SUBSET S |-> f[s]]
    <3> HIDE DEF next
    <3>1. PICK h : h = [s \in SUBSET S |-> next(f, s)]
      OBVIOUS
    <3> QED
      BY <2>1, <3>1
  <2> DEFINE bad == {s \in SUBSET S : f[s] # F[s]}
  <2>3. SUFFICES ASSUME bad # {}
                 PROVE  FALSE
    BY <1>3, <2>2
  <2>4. IsWellFoundedOn(StrictSubsetOrdering(S), SUBSET S)
    BY FS_StrictSubsetOrderingWellFounded, FS_FiniteSubsetsOfFinite
  <2>5. PICK s \in bad : \A t \in bad : <<t, s>> \notin StrictSubsetOrdering(S)
    <3>1. bad \subseteq SUBSET S
      OBVIOUS
    <3> HIDE DEF bad
    <3> QED
      BY <2>3, <2>4, <3>1, WFMin
  <2>6. CASE s = {}
    BY <1>5, <2>2, <2>5, <2>6
  <2>7. CASE s # {}
    <3>1. PICK x \in s : x = pick(s)
      BY <1>4, <2>7
    <3>2. s \ {x} \in SUBSET S /\ s \ {x} # s
      OBVIOUS
    <3>3. <<s \ {x}, s>> \in StrictSubsetOrdering(S)
      BY <3>2 DEF StrictSubsetOrdering
    <3>4. f[s \ {x}] = F[s \ {x}]
      BY <2>5, <3>2, <3>3
    <3>5. f[s] = f[s \ {x}] + size[x] /\ F[s] = F[s \ {x}] + size[x]
      BY <1>5, <2>2, <2>7, <3>1
    <3> QED
      BY <2>5, <3>4, <3>5
  <2> QED
    BY <2>6, <2>7
<1>8. F[S] = Cardinality(U(S))
  BY <1>3
<1> QED
  BY <1>1, <1>6, <1>7, <1>8 DEF Together, SumIs

-----------------------------------------------------------------------------
(* FoldLeft, which goes through the elements of a sequence in their order.   *)
LEMMA MaxIs ==
  ASSUME NEW s \in SUBSET Nat, NEW n \in Nat, \A i \in s : i <= n, s # {}
  PROVE  Max(s) \in s /\ \A i \in s : i <= Max(s)
<1> DEFINE gaps == {n - i : i \in s}
<1>1. gaps \in SUBSET Nat /\ gaps # {}
  <2>1. \A i \in s : n - i \in Nat
    OBVIOUS
  <2>2. \E i \in s : n - i \in gaps
    OBVIOUS
  <2> QED
    BY <2>1, <2>2
<1>2. PICK d \in gaps : \A e \in gaps : d <= e
  <2> HIDE DEF gaps
  <2> QED
    BY <1>1, LeastNat
<1>3. PICK m \in s : \A i \in s : m >= i
  <2>1. PICK m \in s : d = n - m
    BY <1>2
  <2>2. \A i \in s : n - m <= n - i
    BY <1>2, <2>1
  <2> QED
    BY <2>2
<1>4. Max(s) \in s /\ \A i \in s : Max(s) >= i
  BY <1>3 DEF Max
<1> QED
  BY <1>4

(* Two functions on the sets of indices that agree wherever they agree one    *)
(* element before are one: the fold of a sequence is unique.                  *)
Congruent(f, g, n) ==
  /\ f = [s \in SUBSET (1 .. n) |-> f[s]] /\ g = [s \in SUBSET (1 .. n) |-> g[s]]
  /\ f[{}] = g[{}]
  /\ \A s \in SUBSET (1 .. n) :
       s # {} /\ f[s \ {Max(s)}] = g[s \ {Max(s)}] => f[s] = g[s]

LEMMA FoldUnique ==
  ASSUME NEW n \in Nat, NEW f, NEW g, Congruent(f, g, n)
  PROVE  f = g
<1> USE DEF Congruent
<1> DEFINE bad == {s \in SUBSET (1 .. n) : f[s] # g[s]}
<1>1. SUFFICES ASSUME bad # {}
               PROVE  FALSE
  OBVIOUS
<1>2. IsFiniteSet(1 .. n)
  BY FS_Interval
<1>3. IsWellFoundedOn(StrictSubsetOrdering(1 .. n), SUBSET (1 .. n))
  BY <1>2, FS_StrictSubsetOrderingWellFounded, FS_FiniteSubsetsOfFinite
<1>4. PICK s \in bad : \A t \in bad : <<t, s>> \notin StrictSubsetOrdering(1 .. n)
  <2>1. bad \subseteq SUBSET (1 .. n)
    OBVIOUS
  <2> HIDE DEF bad
  <2> QED
    BY <1>1, <1>3, <2>1, WFMin
<1>5. s # {}
  BY <1>4
<1>6. PICK m \in s : m = Max(s)
  <2>1. s \in SUBSET Nat /\ \A i \in s : i <= n
    OBVIOUS
  <2> QED
    BY <1>5, <2>1, MaxIs
<1>7. s \ {m} \in SUBSET (1 .. n) /\ s \ {m} # s
  OBVIOUS
<1>8. <<s \ {m}, s>> \in StrictSubsetOrdering(1 .. n)
  BY <1>7 DEF StrictSubsetOrdering
<1>9. f[s \ {m}] = g[s \ {m}]
  BY <1>4, <1>7, <1>8
<1> QED
  BY <1>4, <1>5, <1>6, <1>9

(* The function that a fold over n elements builds, on their sets. *)
FoldsTo(F, n, base, step) ==
  /\ F[{}] = base
  /\ \A s \in SUBSET (1 .. n) : s # {} => F[s] = step[Max(s)][F[s \ {Max(s)}]]

LEMMA FoldExists ==
  ASSUME NEW V, NEW n \in Nat, NEW base \in V, NEW step \in [1 .. n -> [V -> V]]
  PROVE  \E F \in [SUBSET (1 .. n) -> V] : FoldsTo(F, n, base, step)
<1> DEFINE Good == {k \in 0 .. n : \E F \in [SUBSET (1 .. k) -> V] : FoldsTo(F, k, base, step)}
<1>1. 0 \in Good
  <2> DEFINE F == [s \in SUBSET (1 .. 0) |-> base]
  <2>1. F \in [SUBSET (1 .. 0) -> V]
    OBVIOUS
  <2>2. \A s \in SUBSET (1 .. 0) : s = {}
    OBVIOUS
  <2>3. FoldsTo(F, 0, base, step)
    BY <2>2 DEF FoldsTo
  <2>4. 0 \in 0 .. n
    OBVIOUS
  <2> HIDE DEF F
  <2> QED
    BY <2>1, <2>3, <2>4
<1>2. ASSUME NEW k \in 0 .. n, k \in Good, k < n
      PROVE  k + 1 \in Good
  <2>1. PICK F \in [SUBSET (1 .. k) -> V] : FoldsTo(F, k, base, step)
    BY <1>2
  <2> DEFINE G == [s \in SUBSET (1 .. k + 1) |->
                     IF k + 1 \in s THEN step[k + 1][F[s \ {k + 1}]] ELSE F[s]]
  <2>2. \A s \in SUBSET (1 .. k + 1) : s \ {k + 1} \in SUBSET (1 .. k)
    OBVIOUS
  <2>3. \A s \in SUBSET (1 .. k + 1) : k + 1 \notin s => s \in SUBSET (1 .. k)
    OBVIOUS
  <2>4. G \in [SUBSET (1 .. k + 1) -> V]
    <3> SUFFICES ASSUME NEW s \in SUBSET (1 .. k + 1)
                 PROVE  (IF k + 1 \in s THEN step[k + 1][F[s \ {k + 1}]] ELSE F[s]) \in V
      OBVIOUS
    <3>1. k + 1 \in 1 .. n
      BY <1>2
    <3>2. step[k + 1] \in [V -> V] /\ F[s \ {k + 1}] \in V
      BY <2>2, <3>1
    <3> QED
      BY <2>3, <3>2
  <2>5. ASSUME NEW s \in SUBSET (1 .. k + 1), s # {}
        PROVE  G[s] = step[Max(s)][G[s \ {Max(s)}]]
    <3>1. PICK m \in s : m = Max(s) /\ \A i \in s : i <= m
      <4>1. s \in SUBSET Nat /\ (\A i \in s : i <= k + 1) /\ k + 1 \in Nat
        BY <1>2
      <4> QED
        BY <2>5, <4>1, MaxIs
    <3>2. CASE k + 1 \in s
      <4>1. m = k + 1
        BY <3>1, <3>2
      <4>2. G[s \ {m}] = F[s \ {m}] /\ G[s] = step[m][F[s \ {m}]]
        BY <2>2, <3>2, <4>1
      <4> QED
        BY <3>1, <4>2
    <3>3. CASE k + 1 \notin s
      <4>1. s \in SUBSET (1 .. k) /\ s \ {m} \in SUBSET (1 .. k + 1) /\ k + 1 \notin s \ {m}
        BY <2>3, <3>3
      <4>2. G[s] = F[s] /\ G[s \ {m}] = F[s \ {m}]
        BY <3>3, <4>1
      <4> QED
        BY <2>1, <2>5, <3>1, <4>1, <4>2 DEF FoldsTo
    <3> QED
      BY <3>2, <3>3
  <2>6. G[{}] = base
    <3>1. {} \in SUBSET (1 .. k + 1) /\ k + 1 \notin {}
      OBVIOUS
    <3> QED
      BY <2>1, <3>1 DEF FoldsTo
  <2>7. FoldsTo(G, k + 1, base, step)
    <3> HIDE DEF G
    <3> QED
      BY <2>5, <2>6 DEF FoldsTo
  <2>8. k + 1 \in 0 .. n
    BY <1>2
  <2> HIDE DEF G
  <2> QED
    BY <2>4, <2>7, <2>8
<1>3. Good = 0 .. n
  <2> HIDE DEF Good
  <2>1. Good \in SUBSET (0 .. n)
    BY DEF Good
  <2> QED
    BY <1>1, <1>2, <2>1, Steps
<1>4. n \in Good
  <2>1. n \in 0 .. n
    OBVIOUS
  <2> HIDE DEF Good
  <2> QED
    BY <1>3, <2>1
<1> QED
  BY <1>4

(* What a loop carries from element to element: its value before the first,   *)
(* after each, and after the last, which is the fold's.                       *)
Passes(g, n, base, step, end) ==
  /\ g[0] = base /\ g[n] = end
  /\ \A i \in 1 .. n : g[i] = step[i][g[i - 1]]

LEMMA FoldTrace ==
  ASSUME NEW n \in Nat, NEW V, NEW base, NEW step, NEW F \in [SUBSET (1 .. n) -> V],
         FoldsTo(F, n, base, step)
  PROVE  \E g \in [0 .. n -> V] : Passes(g, n, base, step, F[1 .. n])
<1> DEFINE g == [i \in 0 .. n |-> F[1 .. i]]
<1>1. \A i \in 0 .. n : 1 .. i \in SUBSET (1 .. n)
  OBVIOUS
<1>2. g \in [0 .. n -> V]
  BY <1>1
<1>3. g[0] = base
  <2>1. 1 .. 0 = {} /\ 0 \in 0 .. n
    OBVIOUS
  <2> QED
    BY <2>1 DEF FoldsTo
<1>4. ASSUME NEW i \in 1 .. n
      PROVE  g[i] = step[i][g[i - 1]]
  <2>1. /\ 1 .. i # {} /\ 1 .. i \in SUBSET Nat /\ i \in Nat /\ i \in 1 .. i
        /\ \A j \in 1 .. i : j <= i
    OBVIOUS
  <2>2. Max(1 .. i) = i
    <3>1. Max(1 .. i) \in 1 .. i /\ \A j \in 1 .. i : j <= Max(1 .. i)
      BY <2>1, MaxIs
    <3> QED
      BY <2>1, <3>1
  <2>3. (1 .. i) \ {i} = 1 .. i - 1
    OBVIOUS
  <2>4. F[1 .. i] = step[i][F[1 .. i - 1]]
    <3>1. PICK s \in SUBSET (1 .. n) : s = 1 .. i
      BY <1>1
    <3>2. s # {} /\ Max(s) = i /\ s \ {i} = 1 .. i - 1
      BY <2>1, <2>2, <2>3, <3>1
    <3>3. F[s] = step[Max(s)][F[s \ {Max(s)}]]
      BY <3>2 DEF FoldsTo
    <3> QED
      BY <3>1, <3>2, <3>3
  <2>5. i \in 0 .. n /\ i - 1 \in 0 .. n
    OBVIOUS
  <2> QED
    BY <2>4, <2>5
<1>5. g[n] = F[1 .. n]
  OBVIOUS
<1> HIDE DEF g
<1> QED
  BY <1>2, <1>3, <1>4, <1>5 DEF Passes
=============================================================================
