----------------------------- MODULE ListProofs -----------------------------
(* What lists do that are filtered, joined and inserted into: the lemmas the proofs about the *)
(* pages have in common.                                                                      *)
EXTENDS Lists, SequenceTheorems, FiniteSetTheorems, TLAPS

Distinct(s) == \A i, j \in DOMAIN s : s[i] = s[j] => i = j

LEMMA Counted == ASSUME NEW n \in Nat PROVE IsFiniteSet(1..n) /\ Cardinality(1..n) = n
<1>1. IsFiniteSet(1..n) /\ Cardinality(1..n) = IF 1 > n THEN 0 ELSE n - 1 + 1
  BY FS_Interval
<1> QED
  BY <1>1

\* The n-th of some places, by the number of places up to it.
UpTo(at, i) == {j \in at : j <= i}
Nth(at, n)  == CHOOSE i \in at : Cardinality(UpTo(at, i)) = n

LEMMA UpToGrows ==
  ASSUME NEW at, IsFiniteSet(at), at \subseteq Int, NEW k \in at
  PROVE  /\ Cardinality(UpTo(at, k)) \in 1..Cardinality(at)
         /\ \A i \in at : i < k => Cardinality(UpTo(at, i)) < Cardinality(UpTo(at, k))
<1>1. \A i \in at : IsFiniteSet(UpTo(at, i)) /\ Cardinality(UpTo(at, i)) \in Nat
                    /\ Cardinality(UpTo(at, i)) <= Cardinality(at)
  <2> TAKE i \in at
  <2>1. UpTo(at, i) \in SUBSET at
    BY DEF UpTo
  <2> QED
    BY <2>1, FS_Subset, FS_CardinalityType
<1>2. k \in UpTo(at, k)
  BY DEF UpTo
<1>3. Cardinality(UpTo(at, k)) # 0
  BY <1>1, <1>2, FS_EmptySet
<1>4. ASSUME NEW i \in at, i < k PROVE Cardinality(UpTo(at, i)) < Cardinality(UpTo(at, k))
  <2>1. UpTo(at, i) \in SUBSET (UpTo(at, k) \ {k})
    <3>1. i \in Int /\ k \in Int /\ \A j \in at : j \in Int
      OBVIOUS
    <3>2. \A j \in at : j <= i => j <= k /\ j # k
      BY <1>4, <3>1
    <3> QED
      BY <3>2 DEF UpTo
  <2>2. /\ IsFiniteSet(UpTo(at, k) \ {k})
        /\ Cardinality(UpTo(at, k) \ {k}) = Cardinality(UpTo(at, k)) - 1
    BY <1>1, <1>2, FS_RemoveElement
  <2>3. Cardinality(UpTo(at, i)) <= Cardinality(UpTo(at, k) \ {k})
    BY <2>1, <2>2, FS_Subset
  <2> QED
    BY <1>1, <2>2, <2>3
<1>5. Cardinality(at) \in Nat
  BY FS_CardinalityType
<1> QED
  BY <1>1, <1>3, <1>4, <1>5

LEMMA NthIsThere ==
  ASSUME NEW at, IsFiniteSet(at), at \subseteq Int
  PROVE  /\ Cardinality(at) \in Nat
         /\ \A n \in 1..Cardinality(at) : Nth(at, n) \in at /\ Cardinality(UpTo(at, Nth(at, n))) = n
         /\ \A i \in at : /\ Cardinality(UpTo(at, i)) \in 1..Cardinality(at)
                          /\ Nth(at, Cardinality(UpTo(at, i))) = i
<1> DEFINE m == Cardinality(at)
           rank == [i \in at |-> Cardinality(UpTo(at, i))]
<1>1. m \in Nat /\ IsFiniteSet(1..m) /\ Cardinality(1..m) = m
  <2>1. m \in Nat
    BY FS_CardinalityType
  <2> QED
    BY <2>1, Counted
<1>2. \A i \in at : Cardinality(UpTo(at, i)) \in 1..m
  BY UpToGrows
<1>3. \A i, k \in at : Cardinality(UpTo(at, i)) = Cardinality(UpTo(at, k)) => i = k
  <2> SUFFICES ASSUME NEW i \in at, NEW k \in at, i # k
               PROVE  Cardinality(UpTo(at, i)) # Cardinality(UpTo(at, k))
    OBVIOUS
  <2>1. i < k \/ k < i
    OBVIOUS
  <2>2. Cardinality(UpTo(at, i)) \in Int /\ Cardinality(UpTo(at, k)) \in Int
    BY <1>2
  <2>3. i < k => Cardinality(UpTo(at, i)) < Cardinality(UpTo(at, k))
    BY UpToGrows
  <2>4. k < i => Cardinality(UpTo(at, k)) < Cardinality(UpTo(at, i))
    BY UpToGrows
  <2> QED
    BY <2>1, <2>2, <2>3, <2>4
<1>4. rank \in Injection(at, 1..m)
  BY <1>2, <1>3 DEF Injection, IsInjective
<1>5. rank \in Surjection(at, 1..m)
  <2> HIDE DEF rank
  <2> QED
    BY <1>1, <1>4, FS_Injection
<1>6. \A n \in 1..m : \E i \in at : Cardinality(UpTo(at, i)) = n
  BY <1>5 DEF Surjection
<1>7. \A n \in 1..m : Nth(at, n) \in at /\ Cardinality(UpTo(at, Nth(at, n))) = n
  BY <1>6 DEF Nth
<1> QED
  BY <1>1, <1>2, <1>3, <1>7

\* A filtered list has the elements asked for, none twice, and all in their order.
LEMMA OnlyProperties ==
  ASSUME NEW T, NEW s \in Seq(T), NEW S
  PROVE  /\ Only(s, S) \in Seq(T)
         /\ Range(Only(s, S)) = Range(s) \cap S
         /\ Distinct(s) => Distinct(Only(s, S))
         /\ Range(s) \subseteq S => Only(s, S) = s
<1> DEFINE at == {i \in DOMAIN s : s[i] \in S}
           m == Cardinality(at)
<1>1. /\ Len(s) \in Nat /\ DOMAIN s = 1..Len(s) /\ s = [i \in 1..Len(s) |-> s[i]]
      /\ \A i \in DOMAIN s : s[i] \in T
  BY LenProperties, ElementOfSeq
<1>2. at \in SUBSET (1..Len(s)) /\ at \subseteq Int /\ \A i \in at : i \in DOMAIN s /\ s[i] \in S
  BY <1>1
<1>3. Only(s, S) = [n \in 1..m |-> s[Nth(at, n)]]
  BY DEF Only, Nth, UpTo
<1>4. \A i \in DOMAIN s : s[i] \in S => i \in at
  OBVIOUS
<1> HIDE DEF at
<1>5. IsFiniteSet(1..Len(s)) /\ Cardinality(1..Len(s)) = Len(s)
  BY <1>1, Counted
<1>6. IsFiniteSet(at)
  BY <1>2, <1>5, FS_Subset
<1>7. /\ m \in Nat
      /\ \A n \in 1..m : Nth(at, n) \in at /\ Cardinality(UpTo(at, Nth(at, n))) = n
      /\ \A i \in at : Cardinality(UpTo(at, i)) \in 1..m /\ Nth(at, Cardinality(UpTo(at, i))) = i
  BY <1>2, <1>6, NthIsThere
<1> HIDE DEF m
<1>8. Only(s, S) \in Seq(T)
  <2>1. \A n \in 1..m : s[Nth(at, n)] \in T
    BY <1>1, <1>2, <1>7
  <2> QED
    BY <1>3, <1>7, <2>1, IsASeq
<1>9. Range(Only(s, S)) = Range(s) \cap S
  <2>1. ASSUME NEW v \in Range(Only(s, S)) PROVE v \in Range(s) \cap S
    <3>1. PICK n \in 1..m : v = s[Nth(at, n)]
      BY <1>3 DEF Range
    <3> QED
      BY <1>2, <1>7, <3>1 DEF Range
  <2>2. ASSUME NEW v \in Range(s) \cap S PROVE v \in Range(Only(s, S))
    <3>1. PICK i \in at : s[i] = v
      BY <1>4 DEF Range
    <3>2. Only(s, S)[Cardinality(UpTo(at, i))] = v
          /\ Cardinality(UpTo(at, i)) \in DOMAIN Only(s, S)
      BY <1>3, <1>7, <3>1
    <3> QED
      BY <3>2 DEF Range
  <2> QED
    BY <2>1, <2>2
<1>10. Distinct(s) => Distinct(Only(s, S))
  <2> SUFFICES ASSUME Distinct(s), NEW i \in 1..m, NEW k \in 1..m,
                      s[Nth(at, i)] = s[Nth(at, k)]
               PROVE  i = k
    BY <1>3 DEF Distinct
  <2>1. Nth(at, i) = Nth(at, k)
    BY <1>2, <1>7 DEF Distinct
  <2> QED
    BY <1>7, <2>1
<1>11. Range(s) \subseteq S => Only(s, S) = s
  <2> SUFFICES ASSUME Range(s) \subseteq S PROVE Only(s, S) = s
    OBVIOUS
  <2>1. at = 1..Len(s)
    BY <1>1, <1>2, <1>4 DEF Range
  <2>2. m = Len(s)
    BY <1>5, <2>1 DEF m
  <2>3. ASSUME NEW i \in 1..Len(s) PROVE Nth(at, i) = i
    <3>1. UpTo(at, i) = 1..i
      BY <1>1, <2>1 DEF UpTo
    <3>2. Cardinality(UpTo(at, i)) = i
      BY <1>1, <3>1, Counted
    <3> QED
      BY <1>7, <2>1, <3>2
  <2> QED
    BY <1>1, <1>3, <2>2, <2>3
<1> QED
  BY <1>8, <1>9, <1>10, <1>11

LEMMA JoinedLists ==
  ASSUME NEW T, NEW s \in Seq(T), NEW t \in Seq(T), Distinct(s), Distinct(t),
         Range(s) \cap Range(t) = {}
  PROVE  /\ s \o t \in Seq(T) /\ Distinct(s \o t)
         /\ Range(s \o t) = Range(s) \cup Range(t)
<1>1. /\ Len(s) \in Nat /\ DOMAIN s = 1..Len(s) /\ Len(t) \in Nat /\ DOMAIN t = 1..Len(t)
  BY LenProperties
<1>2. /\ s \o t \in Seq(T) /\ Len(s \o t) = Len(s) + Len(t)
      /\ DOMAIN (s \o t) = 1..(Len(s) + Len(t))
      /\ \A i \in 1..(Len(s) + Len(t)) :
           (s \o t)[i] = IF i <= Len(s) THEN s[i] ELSE t[i - Len(s)]
  BY <1>1, ConcatProperties, LenProperties
<1> DEFINE j == s \o t
<1> HIDE DEF j
<1>3. \A i \in DOMAIN j : \/ i \in DOMAIN s /\ j[i] = s[i]
                          \/ i - Len(s) \in DOMAIN t /\ j[i] = t[i - Len(s)] /\ i > Len(s)
  BY <1>1, <1>2 DEF j
<1>4. \A i \in DOMAIN s : i \in DOMAIN j /\ j[i] = s[i]
  BY <1>1, <1>2 DEF j
<1>5. \A i \in DOMAIN t : i + Len(s) \in DOMAIN j /\ j[i + Len(s)] = t[i]
  BY <1>1, <1>2 DEF j
<1>6. \A i \in DOMAIN s, k \in DOMAIN t : s[i] # t[k]
  BY DEF Range
<1>7. Distinct(j)
  <2> SUFFICES ASSUME NEW i \in DOMAIN j, NEW k \in DOMAIN j, j[i] = j[k] PROVE i = k
    BY DEF Distinct
  <2>1. CASE i \in DOMAIN s /\ j[i] = s[i]
    <3>1. k \in DOMAIN s /\ j[k] = s[k]
      BY <1>3, <1>6, <2>1
    <3> QED
      BY <2>1, <3>1 DEF Distinct
  <2>2. CASE i - Len(s) \in DOMAIN t /\ j[i] = t[i - Len(s)] /\ i > Len(s)
    <3>1. k - Len(s) \in DOMAIN t /\ j[k] = t[k - Len(s)]
      BY <1>3, <1>6, <2>2
    <3>2. i - Len(s) = k - Len(s)
      BY <2>2, <3>1 DEF Distinct
    <3>3. i \in Int /\ k \in Int
      BY <1>1, <1>2 DEF j
    <3> QED
      BY <1>1, <3>2, <3>3
  <2> QED
    BY <1>3, <2>1, <2>2
<1>8. Range(j) = Range(s) \cup Range(t)
  <2>1. ASSUME NEW v \in Range(j) PROVE v \in Range(s) \cup Range(t)
    BY <1>3 DEF Range
  <2>2. ASSUME NEW v \in Range(s) PROVE v \in Range(j)
    BY <1>4 DEF Range
  <2>3. ASSUME NEW v \in Range(t) PROVE v \in Range(j)
    BY <1>5 DEF Range
  <2> QED
    BY <2>1, <2>2, <2>3
<1> QED
  BY <1>2, <1>7, <1>8 DEF j

\* Nth from the other end.
LEMMA NthFromAbove ==
  ASSUME NEW at, IsFiniteSet(at), at \subseteq Int, NEW n \in 1..Cardinality(at)
  PROVE  \E i \in at : Cardinality({j \in at : j >= i}) = n
<1> DEFINE m == Cardinality(at)
<1>1. m \in Nat /\ m + 1 - n \in 1..m
  BY FS_CardinalityType
<1>2. PICK i \in at : Cardinality(UpTo(at, i)) = m + 1 - n
  BY <1>1, NthIsThere
<1> DEFINE low == UpTo(at, i) \ {i}
           up == {j \in at : j >= i}
<1>3. i \in Int /\ \A j \in at : j \in Int
  OBVIOUS
<1>4. UpTo(at, i) \in SUBSET at /\ i \in UpTo(at, i)
  BY <1>3 DEF UpTo
<1>5. IsFiniteSet(UpTo(at, i))
  BY <1>4, FS_Subset
<1>6. IsFiniteSet(low) /\ Cardinality(low) = m - n
  BY <1>1, <1>2, <1>4, <1>5, FS_RemoveElement
<1>7. up = at \ low /\ at \cap low = low
  <2>1. \A j \in at : j >= i <=> ~(j <= i /\ j # i)
    BY <1>3
  <2> QED
    BY <2>1 DEF UpTo
<1>8. Cardinality(at \ low) = m - Cardinality(at \cap low)
  BY FS_Difference
<1> HIDE DEF m, low, up
<1>9. Cardinality(up) = n
  BY <1>1, <1>6, <1>7, <1>8
<1> QED
  BY <1>2, <1>9 DEF up

\* An element put in at some place is there once, with all the others.
LEMMA InsertProperties ==
  ASSUME NEW T, NEW s \in Seq(T), Distinct(s), NEW x \in T, x \notin Range(s), NEW cut \in 0..Len(s)
  PROVE  LET r == SubSeq(s, 1, cut) \o <<x>> \o SubSeq(s, cut + 1, Len(s))
         IN  r \in Seq(T) /\ Distinct(r) /\ Range(r) = Range(s) \cup {x}
<1> DEFINE front == SubSeq(s, 1, cut)
           back == SubSeq(s, cut + 1, Len(s))
           mid == <<x>>
<1>1. Len(s) \in Nat /\ DOMAIN s = 1..Len(s)
  BY LenProperties
<1>2. /\ front \in Seq(T) /\ DOMAIN front = 1..cut /\ \A i \in 1..cut : front[i] = s[i]
  BY <1>1
<1>3. /\ back \in Seq(T) /\ DOMAIN back = 1..(Len(s) - cut)
      /\ \A i \in 1..(Len(s) - cut) : back[i] = s[cut + i]
  BY <1>1
<1>4. mid \in Seq(T) /\ Range(mid) = {x} /\ Distinct(mid)
  BY DEF Range, Distinct
<1> HIDE DEF front, back, mid
<1>5. Distinct(front) /\ Distinct(back)
  <2>1. \A i, k \in DOMAIN front : front[i] = front[k] => i = k
    BY <1>1, <1>2 DEF Distinct
  <2>2. ASSUME NEW i \in DOMAIN back, NEW k \in DOMAIN back, back[i] = back[k] PROVE i = k
    <3>1. cut + i \in DOMAIN s /\ cut + k \in DOMAIN s /\ s[cut + i] = s[cut + k]
      BY <1>1, <1>3, <2>2
    <3>2. cut + i = cut + k
      BY <3>1 DEF Distinct
    <3> QED
      BY <1>3, <3>2
  <2> QED
    BY <2>1, <2>2 DEF Distinct
<1>6. Range(front) \cup Range(back) = Range(s)
  <2>1. \A v \in Range(front) : v \in Range(s)
    BY <1>1, <1>2 DEF Range
  <2>2. \A v \in Range(back) : v \in Range(s)
    BY <1>1, <1>3 DEF Range
  <2>3. ASSUME NEW i \in 1..Len(s) PROVE s[i] \in Range(front) \cup Range(back)
    <3>1. CASE i <= cut
      BY <1>1, <1>2, <3>1 DEF Range
    <3>2. CASE i > cut
      <4>1. i - cut \in 1..(Len(s) - cut) /\ back[i - cut] = s[i]
        BY <1>1, <1>3, <3>2
      <4> QED
        BY <1>3, <4>1 DEF Range
    <3> QED
      BY <1>1, <3>1, <3>2
  <2> QED
    BY <1>1, <2>1, <2>2, <2>3 DEF Range
<1>7. Range(front) \cap Range(back) = {}
  <2> SUFFICES ASSUME NEW i \in 1..cut, NEW k \in 1..(Len(s) - cut), front[i] = back[k] PROVE FALSE
    BY <1>2, <1>3 DEF Range
  <2>1. i \in DOMAIN s /\ cut + k \in DOMAIN s /\ s[i] = s[cut + k] /\ i # cut + k
    BY <1>1, <1>2, <1>3
  <2> QED
    BY <2>1 DEF Distinct
<1>8. Range(front) \cap Range(mid) = {} /\ (Range(front) \cup Range(mid)) \cap Range(back) = {}
  BY <1>4, <1>6, <1>7
<1>9. /\ front \o mid \in Seq(T) /\ Distinct(front \o mid)
      /\ Range(front \o mid) = Range(front) \cup Range(mid)
  BY <1>2, <1>4, <1>5, <1>8, JoinedLists
<1> DEFINE half == front \o mid
<1>10. half \in Seq(T) /\ Distinct(half) /\ Range(half) \cap Range(back) = {}
  BY <1>8, <1>9
<1> HIDE DEF half
<1>11. /\ half \o back \in Seq(T) /\ Distinct(half \o back)
       /\ Range(half \o back) = Range(half) \cup Range(back)
  BY <1>3, <1>5, <1>10, JoinedLists
<1>12. Range(half \o back) = Range(s) \cup {x}
  BY <1>4, <1>6, <1>9, <1>11 DEF half
<1> QED
  BY <1>11, <1>12 DEF half, front, back, mid

=============================================================================
