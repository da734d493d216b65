------------------------- MODULE RateLimiterProofs -------------------------
(***************************************************************************)
(* Proofs about the rate limiter, for any callers, limit, window and       *)
(* bounds.                                                                 *)
(***************************************************************************)
EXTENDS RateLimiter, FiniteSetTheorems, SequenceTheorems, TLAPS

-----------------------------------------------------------------------------
(* Ascending sequences of stamps, and how many of a sequence's are late. *)

Above(s, e) == {i \in DOMAIN s : s[i] > e}

LEMMA LeastNatural ==
  ASSUME NEW S \in SUBSET Nat, S # {}
  PROVE  \E m \in S : \A k \in S : m <= k
  <1>1. IsWellFoundedOn(OpToRel(<, Nat), Nat)
    BY NatLessThanWellFounded
  <1>2. PICK m \in S : \A k \in S : ~ (<<k, m>> \in OpToRel(<, Nat))
    BY <1>1, WFMin
  <1>3. \A k \in S : ~ (k < m)
    BY <1>2 DEF OpToRel
  <1> QED
    BY <1>3

LEMMA AboveFinite ==
  ASSUME NEW S, NEW s \in Seq(S), NEW e \in Int
  PROVE  IsFiniteSet(Above(s, e)) /\ Cardinality(Above(s, e)) \in Nat
         /\ Cardinality(Above(s, e)) <= Len(s)
  <1>1. DOMAIN s = 1 .. Len(s) /\ Len(s) \in Nat
    BY LenProperties
  <1>2. IsFiniteSet(1 .. Len(s)) /\ Cardinality(1 .. Len(s)) = Len(s)
    BY <1>1, FS_Interval
  <1>3. Above(s, e) \in SUBSET (1 .. Len(s))
    BY <1>1 DEF Above
  <1> QED
    BY <1>2, <1>3, FS_Subset, FS_CardinalityType

\* Neighbours in order are a sequence in order.
LEMMA AscendingAll ==
  ASSUME NEW s \in Seq(Nat), Ascending(s), NEW i \in 1 .. Len(s), NEW j \in i .. Len(s)
  PROVE  s[i] <= s[j]
  <1>0. Len(s) \in Nat /\ \A k \in 1 .. Len(s) : s[k] \in Nat
    BY LenProperties, ElementOfSeq
  <1> DEFINE B == {k \in Nat : i <= k /\ k <= Len(s) /\ s[k] < s[i]}
  <1>1. CASE B = {}
    <2>1. j \in Nat /\ i <= j /\ j <= Len(s)
      BY <1>0
    <2>2. ~ (s[j] < s[i])
      BY <1>1, <2>1
    <2> QED
      BY <1>0, <2>1, <2>2
  <1>2. CASE B # {}
    <2>1. PICK m \in B : \A k \in B : m <= k
      BY <1>2, LeastNatural
    <2>2. m # i /\ m - 1 \in 1 .. Len(s) - 1 /\ i <= m - 1 /\ m - 1 <= Len(s)
      BY <1>0, <2>1
    <2>3. m - 1 \notin B
      BY <1>0, <2>1, <2>2
    <2>4. ~ (s[m - 1] < s[i])
      BY <1>0, <2>2, <2>3
    <2>5. s[m - 1] <= s[(m - 1) + 1]
      BY <2>2 DEF Ascending
    <2>6. (m - 1) + 1 = m
      BY <2>1
    <2> QED
      BY <1>0, <2>1, <2>2, <2>4, <2>5, <2>6
  <1> QED
    BY <1>1, <1>2


\* In an ascending sequence the stamps earlier than x are a prefix.
LEMMA EarlierFirst ==
  ASSUME NEW s \in Seq(Nat), Ascending(s), NEW x \in Nat
  PROVE  \E k \in 1 .. Len(s) + 1 :
           /\ k = 1 + Cardinality({i \in DOMAIN s : s[i] < x})
           /\ \A i \in 1 .. Len(s) : s[i] < x <=> i < k
  <1>0. Len(s) \in Nat /\ (\A k \in 1 .. Len(s) : s[k] \in Nat) /\ DOMAIN s = 1 .. Len(s)
    BY LenProperties, ElementOfSeq
  <1> DEFINE B == {k \in 1 .. Len(s) : ~ (s[k] < x)} \cup {Len(s) + 1}
  <1>1. B \in SUBSET Nat /\ B # {}
    BY <1>0
  <1>2. PICK m \in B : \A k \in B : m <= k
    BY <1>1, LeastNatural
  <1>3. m \in 1 .. Len(s) + 1
    BY <1>0, <1>2
  <1>4. ASSUME NEW i \in 1 .. Len(s) PROVE s[i] < x <=> i < m
    <2>1. CASE i < m
      BY <1>0, <1>2, <2>1
    <2>2. CASE ~ (i < m)
      <3>1. m \in 1 .. Len(s) /\ i \in m .. Len(s)
        BY <1>0, <1>3, <2>2
      <3>2. s[m] <= s[i] /\ ~ (s[m] < x)
        BY <1>0, <1>2, <3>1, AscendingAll
      <3> QED
        BY <1>0, <2>2, <3>1, <3>2
    <2> QED
      BY <2>1, <2>2
  <1>5. {i \in DOMAIN s : s[i] < x} = 1 .. m - 1
    BY <1>0, <1>3, <1>4
  <1>6. 1 + Cardinality(1 .. m - 1) = m
    <2>1. m \in Int /\ m - 1 \in Int /\ ~ (1 > m)
      BY <1>0, <1>3
    <2>2. Cardinality(1 .. m - 1) = IF 1 > m - 1 THEN 0 ELSE m - 1 - 1 + 1
      BY <2>1, FS_Interval
    <2> QED
      BY <2>1, <2>2
  <1>7. m = 1 + Cardinality({i \in DOMAIN s : s[i] < x})
    BY <1>5, <1>6
  <1> HIDE DEF B
  <1> QED
    BY <1>3, <1>4, <1>7

\* AddRecord's insertion: the stamp takes place k, the later ones move up.
LEMMA InsertedAt ==
  ASSUME NEW s \in Seq(Nat), NEW x \in Nat, NEW k \in 1 .. Len(s) + 1
  PROVE  /\ InsertAt(s, k, x) \in Seq(Nat)
         /\ Len(InsertAt(s, k, x)) = Len(s) + 1
         /\ \A i \in 1 .. Len(s) + 1 :
              InsertAt(s, k, x)[i] = IF i < k THEN s[i] ELSE IF i = k THEN x ELSE s[i - 1]
  <1>0. Len(s) \in Nat /\ \A i \in 1 .. Len(s) : s[i] \in Nat
    BY LenProperties, ElementOfSeq
  <1> DEFINE a == SubSeq(s, 1, k - 1)
             b == SubSeq(s, k, Len(s))
             ax == a \o <<x>>
  <1>1. /\ a \in Seq(Nat)
        /\ Len(a) = k - 1
        /\ \A i \in 1 .. k - 1 : a[i] = s[i]
    <2>1. \A i \in 1 .. k - 1 : s[i] \in Nat
      BY <1>0
    <2> QED
      BY <1>0, <2>1, SubSeqProperties
  <1>2. /\ b \in Seq(Nat)
        /\ Len(b) = Len(s) - k + 1
        /\ \A i \in 1 .. Len(s) - k + 1 : b[i] = s[k + i - 1]
    <2>1. \A i \in k .. Len(s) : s[i] \in Nat
      BY <1>0
    <2> QED
      BY <1>0, <2>1, SubSeqProperties
  <1>3. <<x>> \in Seq(Nat) /\ Len(<<x>>) = 1 /\ <<x>>[1] = x
    OBVIOUS
  <1> HIDE DEF a, b
  <1>4. /\ ax \in Seq(Nat)
        /\ Len(ax) = k
        /\ \A i \in 1 .. k : ax[i] = IF i < k THEN s[i] ELSE x
    <2>1. /\ ax \in Seq(Nat)
          /\ Len(ax) = Len(a) + Len(<<x>>)
          /\ \A i \in 1 .. Len(a) + Len(<<x>>) :
               ax[i] = IF i <= Len(a) THEN a[i] ELSE <<x>>[i - Len(a)]
      BY <1>1, <1>3, ConcatProperties
    <2>2. k \in Nat /\ Len(a) + Len(<<x>>) = k
      BY <1>0, <1>1, <1>3
    <2> HIDE DEF ax
    <2>3. ASSUME NEW i \in 1 .. k PROVE ax[i] = IF i < k THEN s[i] ELSE x
      <3>1. ax[i] = IF i <= k - 1 THEN a[i] ELSE <<x>>[i - (k - 1)]
        BY <1>1, <2>1, <2>2
      <3>2. CASE i < k
        BY <1>1, <2>2, <3>1, <3>2
      <3>3. CASE i = k
        BY <1>3, <2>2, <3>1, <3>3
      <3> QED
        BY <2>2, <3>2, <3>3
    <2> QED
      BY <2>1, <2>2, <2>3
  <1> HIDE DEF ax
  <1>5. InsertAt(s, k, x) = ax \o b
    BY DEF InsertAt, a, b, ax
  <1>6. /\ ax \o b \in Seq(Nat)
        /\ Len(ax \o b) = Len(s) + 1
        /\ \A i \in 1 .. Len(s) + 1 : (ax \o b)[i] = IF i <= k THEN ax[i] ELSE b[i - k]
    <2>1. Len(ax) + Len(b) = Len(s) + 1
      BY <1>0, <1>2, <1>4
    <2>2. /\ ax \o b \in Seq(Nat)
          /\ Len(ax \o b) = Len(ax) + Len(b)
          /\ \A i \in 1 .. Len(ax) + Len(b) :
               (ax \o b)[i] = IF i <= Len(ax) THEN ax[i] ELSE b[i - Len(ax)]
      BY <1>2, <1>4, ConcatProperties
    <2> QED
      BY <1>4, <2>1, <2>2
  <1>7. ASSUME NEW i \in 1 .. Len(s) + 1
        PROVE  (ax \o b)[i] = IF i < k THEN s[i] ELSE IF i = k THEN x ELSE s[i - 1]
    <2>1. CASE i <= k
      BY <1>0, <1>4, <1>6, <2>1
    <2>2. CASE i > k
      <3>1. i - k \in 1 .. Len(s) - k + 1 /\ k + (i - k) - 1 = i - 1
        BY <1>0, <2>2
      <3>2. b[i - k] = s[i - 1]
        BY <1>2, <3>1
      <3> QED
        BY <1>0, <1>6, <2>2, <3>2
    <2>3. i <= k \/ i > k
      BY <1>0
    <2> QED
      BY <2>1, <2>2, <2>3, Zenon
  <1> QED
    BY <1>5, <1>6, <1>7

\* The inserted stamp is the only one more.
LEMMA InsertAtCount ==
  ASSUME NEW s \in Seq(Nat), NEW x \in Nat, NEW k \in 1 .. Len(s) + 1, NEW e \in Int
  PROVE  Cardinality(Above(InsertAt(s, k, x), e))
           = Cardinality(Above(s, e)) + (IF x > e THEN 1 ELSE 0)
  <1> DEFINE r == InsertAt(s, k, x)
  <1>0. Len(s) \in Nat /\ DOMAIN s = 1 .. Len(s)
    BY LenProperties
  <1>1. /\ r \in Seq(Nat)
        /\ Len(r) = Len(s) + 1
        /\ \A i \in 1 .. Len(s) + 1 : r[i] = IF i < k THEN s[i] ELSE IF i = k THEN x ELSE s[i - 1]
    BY InsertedAt
  <1> HIDE DEF r
  <1>2. DOMAIN r = 1 .. Len(s) + 1
    BY <1>1, LenProperties
  <1> DEFINE S == Above(s, e)
             R == Above(r, e) \ {k}
             f == [i \in S |-> IF i < k THEN i ELSE i + 1]
  <1>3. S \subseteq 1 .. Len(s) /\ \A i \in 1 .. Len(s) : i \in S <=> s[i] > e
    BY <1>0 DEF Above
  <1>4. /\ R \subseteq 1 .. Len(s) + 1
        /\ \A i \in 1 .. Len(s) + 1 : i \in R <=> i # k /\ r[i] > e
        /\ k \in Above(r, e) <=> x > e
    BY <1>0, <1>1, <1>2 DEF Above
  <1> HIDE DEF S, R
  <1>5. f \in [S -> R]
    <2>1. ASSUME NEW i \in S PROVE f[i] \in R
      <3>1. i \in 1 .. Len(s) /\ s[i] > e
        BY <1>3
      <3>2. CASE i < k
        <4>1. r[i] = s[i] /\ i \in 1 .. Len(s) + 1 /\ i # k
          BY <1>0, <1>1, <3>1, <3>2
        <4>2. i \in R
          BY <1>4, <3>1, <4>1
        <4> QED
          BY <3>2, <4>2
      <3>3. CASE ~ (i < k)
        <4>1. i + 1 \in 1 .. Len(s) + 1 /\ i + 1 > k /\ (i + 1) - 1 = i
          BY <1>0, <3>1, <3>3
        <4>2. r[i + 1] = s[i]
          BY <1>0, <1>1, <4>1
        <4> QED
          BY <1>0, <1>4, <3>1, <3>3, <4>1, <4>2
      <3> QED
        BY <3>2, <3>3
    <2> QED
      BY <2>1
  <1>6. f \in Injection(S, R)
    <2>1. ASSUME NEW i \in S, NEW j \in S, f[i] = f[j] PROVE i = j
      BY <1>0, <1>3, <2>1
    <2> QED
      BY <1>5, <2>1 DEF Injection, IsInjective
  <1>7. f \in Surjection(S, R)
    <2>1. ASSUME NEW j \in R PROVE \E i \in S : f[i] = j
      <3>1. j \in 1 .. Len(s) + 1 /\ j # k /\ r[j] > e
        BY <1>4
      <3>2. CASE j < k
        <4>1. j \in S
          BY <1>0, <1>1, <1>3, <3>1, <3>2
        <4> QED
          BY <3>2, <4>1
      <3>3. CASE j > k
        <4>1. j - 1 \in 1 .. Len(s) /\ ~ (j - 1 < k) /\ (j - 1) + 1 = j
          BY <1>0, <3>1, <3>3
        <4>2. j - 1 \in S
          BY <1>0, <1>1, <1>3, <3>1, <3>3, <4>1
        <4> QED
          BY <4>1, <4>2
      <3> QED
        BY <1>0, <3>1, <3>2, <3>3
    <2> QED
      BY <1>5, <2>1 DEF Surjection
  <1>8. IsFiniteSet(S) /\ IsFiniteSet(Above(r, e)) /\ Cardinality(Above(r, e)) \in Nat
    BY <1>1, AboveFinite DEF S
  <1>9. Cardinality(R) = Cardinality(S)
    <2>1. ExistsBijection(S, R)
      BY <1>6, <1>7 DEF ExistsBijection, Bijection
    <2> QED
      BY <1>8, <2>1, FS_Bijection
  <1>10. Cardinality(R) = IF x > e THEN Cardinality(Above(r, e)) - 1 ELSE Cardinality(Above(r, e))
    BY <1>4, <1>8, FS_RemoveElement DEF R
  <1>11. Cardinality(S) \in Nat
    BY <1>8, FS_CardinalityType
  <1> QED
    BY <1>8, <1>9, <1>10, <1>11 DEF r, S

\* AddRecord keeps the records in order, whatever the order of arrival.
LEMMA InsertedRight ==
  ASSUME NEW s \in Seq(Nat), Ascending(s), NEW x \in Nat
  PROVE  /\ Inserted(s, x) \in Seq(Nat)
         /\ Len(Inserted(s, x)) = Len(s) + 1
         /\ Ascending(Inserted(s, x))
         /\ \A j \in 1 .. Len(s) + 1 :
              Inserted(s, x)[j] = x \/ \E i \in 1 .. Len(s) : Inserted(s, x)[j] = s[i]
         /\ \A e \in Int : Cardinality(Above(Inserted(s, x), e))
                             = Cardinality(Above(s, e)) + (IF x > e THEN 1 ELSE 0)
  <1>0. Len(s) \in Nat /\ \A i \in 1 .. Len(s) : s[i] \in Nat
    BY LenProperties, ElementOfSeq
  <1>1. PICK k \in 1 .. Len(s) + 1 :
          /\ k = 1 + Cardinality({i \in DOMAIN s : s[i] < x})
          /\ \A i \in 1 .. Len(s) : s[i] < x <=> i < k
    BY EarlierFirst
  <1> DEFINE r == InsertAt(s, k, x)
  <1>2. Inserted(s, x) = r
    BY <1>1 DEF Inserted
  <1>3. /\ r \in Seq(Nat)
        /\ Len(r) = Len(s) + 1
        /\ \A i \in 1 .. Len(s) + 1 : r[i] = IF i < k THEN s[i] ELSE IF i = k THEN x ELSE s[i - 1]
    BY InsertedAt
  <1>4. \A e \in Int : Cardinality(Above(r, e)) = Cardinality(Above(s, e)) + (IF x > e THEN 1 ELSE 0)
    BY InsertAtCount
  <1> HIDE DEF r
  <1>5. ASSUME NEW i \in 1 .. Len(s) PROVE r[i] <= r[i + 1]
    <2>1. i \in Int /\ k \in Int /\ i \in 1 .. Len(s) + 1 /\ i + 1 \in 1 .. Len(s) + 1 /\ (i + 1) - 1 = i
      BY <1>0
    <2>6. r[i] = IF i < k THEN s[i] ELSE IF i = k THEN x ELSE s[i - 1]
      BY <1>3, <2>1
    <2>7. r[i + 1] = IF i + 1 < k THEN s[i + 1] ELSE IF i + 1 = k THEN x ELSE s[i]
      BY <1>3, <2>1
    <2>2. CASE i + 1 < k
      <3>1. r[i] = s[i] /\ r[i + 1] = s[i + 1] /\ i \in 1 .. Len(s) - 1
        BY <1>0, <2>1, <2>2, <2>6, <2>7
      <3> QED
        BY <3>1 DEF Ascending
    <2>3. CASE i + 1 = k
      <3>1. r[i] = s[i] /\ r[i + 1] = x /\ s[i] < x
        BY <1>0, <1>1, <2>1, <2>3, <2>6, <2>7
      <3> QED
        BY <1>0, <3>1
    <2>4. CASE i = k
      <3>1. r[i] = x /\ r[i + 1] = s[i] /\ ~ (s[i] < x)
        BY <1>0, <1>1, <2>1, <2>4, <2>6, <2>7
      <3> QED
        BY <1>0, <3>1
    <2>5. CASE i > k
      <3>1. r[i] = s[i - 1] /\ r[i + 1] = s[i] /\ i - 1 \in 1 .. Len(s) - 1 /\ (i - 1) + 1 = i
        BY <1>0, <2>1, <2>5, <2>6, <2>7
      <3>2. s[i - 1] <= s[(i - 1) + 1]
        BY <3>1 DEF Ascending
      <3> QED
        BY <3>1, <3>2
    <2> QED
      BY <2>1, <2>2, <2>3, <2>4, <2>5
  <1>6. Ascending(r)
    <2>1. Len(r) - 1 = Len(s)
      BY <1>0, <1>3
    <2> QED
      BY <1>5, <2>1 DEF Ascending
  <1>7. ASSUME NEW j \in 1 .. Len(s) + 1 PROVE r[j] = x \/ \E i \in 1 .. Len(s) : r[j] = s[i]
    <2>1. CASE j < k
      <3>1. j \in 1 .. Len(s) /\ r[j] = s[j]
        BY <1>0, <1>3, <2>1
      <3> QED
        BY <3>1
    <2>2. CASE j = k
      BY <1>0, <1>3, <2>2
    <2>3. CASE j > k
      <3>1. j - 1 \in 1 .. Len(s) /\ r[j] = s[j - 1]
        BY <1>0, <1>3, <2>3
      <3> QED
        BY <3>1
    <2>4. j < k \/ j = k \/ j > k
      BY <1>0
    <2> QED
      BY <2>1, <2>2, <2>3, <2>4
  <1> QED
    BY <1>2, <1>3, <1>4, <1>6, <1>7

\* RemoveOldRecords drops a prefix, and what it drops is not after the edge.
LEMMA YoungerShape ==
  ASSUME NEW s \in Seq(Nat), Ascending(s), NEW edge \in Int
  PROVE  \E k \in 0 .. Len(s) :
           /\ Younger(s, edge) \in Seq(Nat)
           /\ Len(Younger(s, edge)) = Len(s) - k
           /\ \A i \in 1 .. Len(s) - k : Younger(s, edge)[i] = s[k + i]
           /\ \A i \in 1 .. Len(s) : s[i] > edge <=> i > k
  <1>0. Len(s) \in Nat /\ (\A i \in 1 .. Len(s) : s[i] \in Nat) /\ DOMAIN s = 1 .. Len(s)
    BY LenProperties, ElementOfSeq
  <1> DEFINE after == {i \in DOMAIN s : s[i] > edge}
             least == CHOOSE i \in after : \A j \in after : i <= j
  <1>1. CASE after = {}
    <2>1. Younger(s, edge) = << >>
      BY <1>1 DEF Younger
    <2>2. << >> \in Seq(Nat) /\ Len(<< >>) = 0 /\ Len(s) - Len(s) = 0 /\ Len(s) \in 0 .. Len(s)
      BY <1>0
    <2>3. \A i \in 1 .. Len(s) : ~ (s[i] > edge) /\ ~ (i > Len(s))
      BY <1>0, <1>1
    <2>4. 1 .. Len(s) - Len(s) = {}
      BY <1>0
    <2> HIDE DEF after
    <2> QED
      BY <2>1, <2>2, <2>3, <2>4
  <1>2. CASE after # {}
    <2>1. after \in SUBSET Nat
      BY <1>0
    <2>2. \E i \in after : \A j \in after : i <= j
      BY <1>2, <2>1, LeastNatural
    <2>3. least \in after /\ \A j \in after : least <= j
      BY <2>2
    <2>4. Younger(s, edge) = SubSeq(s, least, Len(s))
      BY <1>2 DEF Younger
    <2>5. least \in 1 .. Len(s) /\ s[least] > edge
      BY <1>0, <2>3
    <2>6. \A j \in 1 .. Len(s) : s[j] > edge => least <= j
      BY <1>0, <2>3
    <2> HIDE DEF after, least
    <2>7. PICK m \in 1 .. Len(s) : m = least
      BY <2>5
    <2>8. \A i \in m .. Len(s) : s[i] \in Nat
      BY <1>0
    <2>9. m \in Int /\ Len(s) \in Int
      BY <1>0
    <2>10. /\ SubSeq(s, m, Len(s)) \in Seq(Nat)
           /\ Len(SubSeq(s, m, Len(s))) = IF m <= Len(s) THEN Len(s) - m + 1 ELSE 0
           /\ \A i \in 1 .. Len(s) - m + 1 : SubSeq(s, m, Len(s))[i] = s[m + i - 1]
      BY <2>8, <2>9, SubSeqProperties
    <2>11. m - 1 \in 0 .. Len(s) /\ Len(s) - (m - 1) = Len(s) - m + 1 /\ m <= Len(s)
      BY <1>0
    <2>12. \A i \in 1 .. Len(s) - (m - 1) : m + i - 1 = (m - 1) + i
      BY <1>0
    <2>13. ASSUME NEW i \in 1 .. Len(s) PROVE s[i] > edge <=> i > m - 1
      <3>1. CASE i >= m
        <4>1. i \in m .. Len(s) /\ s[m] > edge
          BY <1>0, <2>5, <2>7, <3>1
        <4>2. s[m] <= s[i]
          BY <4>1, AscendingAll
        <4> QED
          BY <1>0, <3>1, <4>1, <4>2
      <3>2. CASE i < m
        BY <1>0, <2>6, <2>7, <3>2
      <3> QED
        BY <1>0, <3>1, <3>2
    <2>14. /\ Younger(s, edge) \in Seq(Nat)
           /\ Len(Younger(s, edge)) = Len(s) - (m - 1)
           /\ \A i \in 1 .. Len(s) - (m - 1) : Younger(s, edge)[i] = s[(m - 1) + i]
      BY <2>4, <2>7, <2>10, <2>11, <2>12
    <2> QED
      BY <2>11, <2>13, <2>14
  <1> QED
    BY <1>1, <1>2

LEMMA YoungerRight ==
  ASSUME NEW s \in Seq(Nat), Ascending(s), NEW edge \in Int
  PROVE  /\ Younger(s, edge) \in Seq(Nat)
         /\ Ascending(Younger(s, edge))
         /\ Len(Younger(s, edge)) <= Len(s)
         /\ \A j \in 1 .. Len(Younger(s, edge)) :
              Younger(s, edge)[j] > edge /\ \E i \in 1 .. Len(s) : Younger(s, edge)[j] = s[i]
         /\ \A e \in Int :
              /\ Cardinality(Above(Younger(s, edge), e)) <= Cardinality(Above(s, e))
              /\ e >= edge => Cardinality(Above(Younger(s, edge), e)) = Cardinality(Above(s, e))
         /\ Len(Younger(s, edge)) = Cardinality(Above(s, edge))
  <1>0. Len(s) \in Nat /\ (\A i \in 1 .. Len(s) : s[i] \in Nat) /\ DOMAIN s = 1 .. Len(s)
    BY LenProperties, ElementOfSeq
  <1> DEFINE r == Younger(s, edge)
  <1>1. PICK k \in 0 .. Len(s) :
          /\ r \in Seq(Nat)
          /\ Len(r) = Len(s) - k
          /\ \A i \in 1 .. Len(s) - k : r[i] = s[k + i]
          /\ \A i \in 1 .. Len(s) : s[i] > edge <=> i > k
    BY YoungerShape
  <1> HIDE DEF r
  <1>2. DOMAIN r = 1 .. Len(s) - k
    BY <1>1, LenProperties
  <1>3. Ascending(r)
    <2>1. ASSUME NEW i \in 1 .. Len(r) - 1 PROVE r[i] <= r[i + 1]
      <3>1. k + i \in 1 .. Len(s) - 1 /\ (k + i) + 1 = k + (i + 1)
        BY <1>0, <1>1
      <3>2. i \in 1 .. Len(s) - k /\ i + 1 \in 1 .. Len(s) - k
        BY <1>0, <1>1
      <3>3. s[k + i] <= s[(k + i) + 1]
        BY <3>1 DEF Ascending
      <3>4. r[i] = s[k + i] /\ r[i + 1] = s[k + (i + 1)]
        BY <1>1, <3>2
      <3> QED
        BY <3>1, <3>3, <3>4
    <2> QED
      BY <2>1 DEF Ascending
  <1>4. ASSUME NEW j \in 1 .. Len(r)
        PROVE  r[j] > edge /\ \E i \in 1 .. Len(s) : r[j] = s[i]
    <2>1. j \in 1 .. Len(s) - k /\ k + j \in 1 .. Len(s) /\ k + j > k
      BY <1>0, <1>1
    <2> QED
      BY <1>1, <2>1
  <1>5. ASSUME NEW e \in Int
        PROVE  /\ Cardinality(Above(r, e)) <= Cardinality(Above(s, e))
               /\ e >= edge => Cardinality(Above(r, e)) = Cardinality(Above(s, e))
    <2> DEFINE R == Above(r, e)
               S == Above(s, e)
               f == [i \in R |-> k + i]
    <2>1. R \subseteq 1 .. Len(s) - k /\ \A i \in 1 .. Len(s) - k : i \in R <=> s[k + i] > e
      BY <1>1, <1>2 DEF Above
    <2>2. S \subseteq 1 .. Len(s) /\ \A i \in 1 .. Len(s) : i \in S <=> s[i] > e
      BY <1>0 DEF Above
    <2>3. IsFiniteSet(S)
      BY AboveFinite
    <2> HIDE DEF R, S
    <2>4. f \in Injection(R, S)
      <3>1. ASSUME NEW i \in R PROVE f[i] \in S
        <4>1. k + i \in 1 .. Len(s) /\ s[k + i] > e
          BY <1>0, <2>1
        <4> QED
          BY <2>2, <4>1
      <3>2. ASSUME NEW i \in R, NEW j \in R, f[i] = f[j] PROVE i = j
        <4>1. i \in Int /\ j \in Int /\ k \in Int
          BY <1>0, <2>1
        <4> QED
          BY <3>2, <4>1
      <3>3. f \in [R -> S]
        BY <3>1
      <3> QED
        BY <3>2, <3>3 DEF Injection, IsInjective
    <2>5. /\ IsFiniteSet(R)
          /\ Cardinality(R) <= Cardinality(S)
          /\ Cardinality(R) = Cardinality(S) <=> f \in Surjection(R, S)
      BY <2>3, <2>4, FS_Injection
    <2>6. ASSUME e >= edge PROVE f \in Surjection(R, S)
      <3>1. ASSUME NEW j \in S PROVE \E i \in R : f[i] = j
        <4>1. j \in 1 .. Len(s) /\ s[j] > e /\ s[j] \in Int
          BY <1>0, <2>2
        <4>2. s[j] > edge
          BY <2>6, <4>1
        <4>3. j > k
          BY <1>1, <4>1, <4>2
        <4>4. j - k \in 1 .. Len(s) - k /\ k + (j - k) = j
          BY <1>0, <4>1, <4>3
        <4>5. j - k \in R
          BY <2>1, <4>1, <4>4
        <4> QED
          BY <4>4, <4>5
      <3>2. f \in [R -> S]
        BY <2>4 DEF Injection
      <3> QED
        BY <3>1, <3>2 DEF Surjection
    <2> QED
      BY <2>5, <2>6 DEF R, S
  <1>6. Len(r) = Cardinality(Above(s, edge))
    <2>1. Above(r, edge) = 1 .. Len(r)
      BY <1>1, <1>2, <1>4 DEF Above
    <2>2. Len(r) \in Nat
      BY <1>1, LenProperties
    <2>3. Cardinality(1 .. Len(r)) = Len(r)
      <3>1. PICK n \in Nat : n = Len(r)
        BY <2>2
      <3>2. Cardinality(1 .. n) = IF 1 > n THEN 0 ELSE n - 1 + 1
        BY FS_Interval
      <3> QED
        BY <3>1, <3>2
    <2>4. edge >= edge
      OBVIOUS
    <2> QED
      BY <1>5, <2>1, <2>3, <2>4
  <1>7. Len(r) <= Len(s)
    BY <1>0, <1>1
  <1> QED
    BY <1>1, <1>3, <1>4, <1>5, <1>6, <1>7 DEF r

-----------------------------------------------------------------------------
(* The requests let through, the callers, and what a step does to them. *)

Entries == [arrival : Nat, added : Nat]
Later(p, e) == {i \in DOMAIN p : p[i].arrival > e}
Landed(p, e) == {i \in DOMAIN p : p[i].added > e}

LEMMA EntriesFinite ==
  ASSUME NEW p \in Seq(Entries), NEW e \in Int
  PROVE  /\ IsFiniteSet(DOMAIN p)
         /\ IsFiniteSet(Later(p, e)) /\ Cardinality(Later(p, e)) \in Nat
         /\ IsFiniteSet(Landed(p, e)) /\ Cardinality(Landed(p, e)) \in Nat
  <1>1. DOMAIN p = 1 .. Len(p) /\ Len(p) \in Nat
    BY LenProperties
  <1>2. IsFiniteSet(DOMAIN p)
    BY <1>1, FS_Interval
  <1>3. Later(p, e) \in SUBSET DOMAIN p /\ Landed(p, e) \in SUBSET DOMAIN p
    BY DEF Later, Landed
  <1> QED
    BY <1>2, <1>3, FS_Subset, FS_CardinalityType

LEMMA AppendCount ==
  ASSUME NEW p \in Seq(Entries), NEW a \in Nat, NEW b \in Nat, NEW e \in Int
  PROVE  LET q == Append(p, [arrival |-> a, added |-> b])
         IN  /\ Cardinality(Later(q, e)) = Cardinality(Later(p, e)) + (IF a > e THEN 1 ELSE 0)
             /\ Cardinality(Landed(q, e)) = Cardinality(Landed(p, e)) + (IF b > e THEN 1 ELSE 0)
  <1> DEFINE r == [arrival |-> a, added |-> b]
             q == Append(p, r)
  <1>1. r \in Entries /\ r.arrival = a /\ r.added = b
    BY DEF Entries
  <1> HIDE DEF r
  <1>2. /\ q \in Seq(Entries)
        /\ Len(q) = Len(p) + 1
        /\ \A i \in 1 .. Len(p) : q[i] = p[i]
        /\ q[Len(p) + 1] = r
    BY <1>1, AppendProperties
  <1> HIDE DEF q
  <1>3. Len(p) \in Nat /\ DOMAIN p = 1 .. Len(p) /\ DOMAIN q = 1 .. Len(p) + 1
    BY <1>2, LenProperties
  <1>4. PICK n \in Nat : n = Len(p) + 1
    BY <1>3
  <1>5. n \notin Later(p, e) /\ n \notin Landed(p, e)
    BY <1>3, <1>4 DEF Later, Landed
  <1>6. Later(q, e) = IF a > e THEN Later(p, e) \cup {n} ELSE Later(p, e)
    BY <1>1, <1>2, <1>3, <1>4 DEF Later
  <1>7. Landed(q, e) = IF b > e THEN Landed(p, e) \cup {n} ELSE Landed(p, e)
    BY <1>1, <1>2, <1>3, <1>4 DEF Landed
  <1>8. /\ Cardinality(Later(p, e) \cup {n}) = Cardinality(Later(p, e)) + 1
        /\ Cardinality(Landed(p, e) \cup {n}) = Cardinality(Landed(p, e)) + 1
    BY <1>5, EntriesFinite, FS_AddElement
  <1>9. Cardinality(Later(p, e)) \in Nat /\ Cardinality(Landed(p, e)) \in Nat
    BY EntriesFinite
  <1>10. /\ Cardinality(Later(q, e)) = Cardinality(Later(p, e)) + (IF a > e THEN 1 ELSE 0)
         /\ Cardinality(Landed(q, e)) = Cardinality(Landed(p, e)) + (IF b > e THEN 1 ELSE 0)
    BY <1>6, <1>7, <1>8, <1>9
  <1> QED
    BY <1>10 DEF q, r

LEMMA Numbers ==
  /\ MaxHits \in Nat /\ MaxHits >= 1 /\ Window \in Nat /\ Window >= 1 /\ MaxTime \in Nat
  /\ IsFiniteSet(Callers) /\ Cardinality(Callers) \in Nat /\ Others \in Nat
  /\ Edges \subseteq Int
  /\ Never \notin Int
  <1>1. Cardinality(Callers) \in Nat /\ Cardinality(Callers) # 0
    BY RateLimiterAssumption, FS_CardinalityType, FS_EmptySet
  <1> QED
    BY <1>1, RateLimiterAssumption DEF Others, Edges

LEMMA Some ==
  ASSUME NEW S \in SUBSET Callers
  PROVE  /\ IsFiniteSet(S) /\ Cardinality(S) \in Nat /\ Cardinality(S) <= Others + 1
         /\ \A c \in Callers :
              /\ c \notin S => Cardinality(S) <= Others
              /\ Cardinality(S \cup {c}) = IF c \in S THEN Cardinality(S) ELSE Cardinality(S) + 1
              /\ Cardinality(S \ {c}) = IF c \in S THEN Cardinality(S) - 1 ELSE Cardinality(S)
  <1>1. IsFiniteSet(S) /\ Cardinality(S) \in Nat /\ Cardinality(S) <= Cardinality(Callers)
    BY Numbers, FS_Subset, FS_CardinalityType
  <1>2. ASSUME NEW c \in Callers
        PROVE  /\ c \notin S => Cardinality(S) <= Others
               /\ Cardinality(S \cup {c}) = IF c \in S THEN Cardinality(S) ELSE Cardinality(S) + 1
               /\ Cardinality(S \ {c}) = IF c \in S THEN Cardinality(S) - 1 ELSE Cardinality(S)
    <2>1. Cardinality(S \cup {c}) = IF c \in S THEN Cardinality(S) ELSE Cardinality(S) + 1
      BY <1>1, FS_AddElement
    <2>2. Cardinality(S \ {c}) = IF c \in S THEN Cardinality(S) - 1 ELSE Cardinality(S)
      BY <1>1, FS_RemoveElement
    <2>3. S \cup {c} \in SUBSET Callers
      OBVIOUS
    <2>4. Cardinality(S \cup {c}) <= Cardinality(Callers)
      BY <2>3, Numbers, FS_Subset
    <2>5. c \notin S => Cardinality(S) <= Others
      BY <1>1, <2>1, <2>4, Numbers DEF Others
    <2> QED
      BY <2>1, <2>2, <2>5
  <1>3. Cardinality(S) <= Others + 1
    BY <1>1, Numbers DEF Others
  <1> QED
    BY <1>1, <1>2, <1>3

LEMMA CountsTyped ==
  ASSUME TypeOK, NEW e \in Int
  PROVE  /\ IsFiniteSet(Passed(e)) /\ Cardinality(Passed(e)) \in Nat
         /\ IsFiniteSet(Added(e)) /\ Cardinality(Added(e)) \in Nat
         /\ IsFiniteSet(Kept(e)) /\ Cardinality(Kept(e)) \in Nat
         /\ Cardinality(Kept(e)) <= Len(data)
         /\ Len(data) \in Nat
  <1>1. passed \in Seq(Entries) /\ data \in Seq(Nat)
    BY DEF TypeOK, Entries
  <1>2. Passed(e) = Later(passed, e) /\ Added(e) = Landed(passed, e) /\ Kept(e) = Above(data, e)
    BY DEF Passed, Added, Kept, Later, Landed, Above
  <1>3. /\ IsFiniteSet(Later(passed, e)) /\ Cardinality(Later(passed, e)) \in Nat
        /\ IsFiniteSet(Landed(passed, e)) /\ Cardinality(Landed(passed, e)) \in Nat
    BY <1>1, EntriesFinite
  <1>4. /\ IsFiniteSet(Above(data, e)) /\ Cardinality(Above(data, e)) \in Nat
        /\ Cardinality(Above(data, e)) <= Len(data)
    BY <1>1, AboveFinite
  <1>5. Len(data) \in Nat
    BY <1>1, LenProperties
  <1> QED
    BY <1>2, <1>3, <1>4, <1>5

Places == {"idle", "remove", "count", "add", "expire"}
Calls == [Callers -> [at : Places, now : Nat]]
Shape == TypeOK /\ InThePast

LEMMA ShapeFacts ==
  ASSUME Shape
  PROVE  /\ clock \in Nat /\ clock <= MaxTime /\ disturbed \in Int /\ disturbed <= clock
         /\ data \in Seq(Nat) /\ Ascending(data) /\ Len(data) \in Nat /\ DOMAIN data = 1 .. Len(data)
         /\ expires = Never \/ expires \in Nat
         /\ call \in Calls /\ up \in BOOLEAN /\ asked \in Nat
         /\ passed \in Seq(Entries) /\ DOMAIN passed = 1 .. Len(passed) /\ Len(passed) \in Nat
         /\ \A c \in Callers : call[c].now \in Nat /\ call[c].now <= clock /\ call[c].at \in Places
         /\ \A i \in DOMAIN passed :
              /\ passed[i] \in Entries /\ passed[i].arrival \in Nat /\ passed[i].added \in Nat
              /\ passed[i].arrival <= passed[i].added /\ passed[i].added <= clock
              /\ passed[i].arrival <= clock
         /\ \A j \in DOMAIN data : data[j] \in Nat /\ data[j] <= clock
  <1>1. /\ clock \in Nat /\ disturbed \in Int /\ data \in Seq(Nat) /\ Ascending(data)
        /\ expires = Never \/ expires \in Nat
        /\ call \in Calls /\ up \in BOOLEAN /\ asked \in Nat /\ passed \in Seq(Entries)
    BY DEF Shape, TypeOK, Calls, Places, Entries
  <1>2. /\ Len(data) \in Nat /\ DOMAIN data = 1 .. Len(data)
        /\ Len(passed) \in Nat /\ DOMAIN passed = 1 .. Len(passed)
    BY <1>1, LenProperties
  <1>3. /\ clock <= MaxTime /\ disturbed <= clock
        /\ \A c \in Callers : call[c].now <= clock
        /\ \A i \in DOMAIN passed : passed[i].arrival <= passed[i].added /\ passed[i].added <= clock
        /\ \A j \in DOMAIN data : data[j] <= clock
    BY DEF Shape, InThePast
  <1>4. \A c \in Callers : call[c].now \in Nat /\ call[c].at \in Places
    BY <1>1 DEF Calls
  <1>5. ASSUME NEW i \in DOMAIN passed
        PROVE  /\ passed[i] \in Entries /\ passed[i].arrival \in Nat /\ passed[i].added \in Nat
               /\ passed[i].arrival <= clock
    <2>1. passed[i] \in Entries
      BY <1>1, <1>2, ElementOfSeq
    <2>2. passed[i].arrival \in Nat /\ passed[i].added \in Nat
      BY <2>1 DEF Entries
    <2>3. passed[i].arrival <= passed[i].added /\ passed[i].added <= clock
      BY <1>3
    <2> QED
      BY <1>1, <2>1, <2>2, <2>3
  <1>6. \A j \in DOMAIN data : data[j] \in Nat
    BY <1>1, <1>2, ElementOfSeq
  <1> QED
    BY <1>1, <1>2, <1>3, <1>4, <1>5, <1>6

LEMMA GoesMoves ==
  ASSUME Shape, NEW c \in Callers, NEW from \in Places \ {"idle"}, NEW to \in Places \ {"idle"},
         call[c].at = from, Goes(c, to), from # to
  PROVE  /\ call' \in Calls
         /\ \A d \in Callers : call'[d].now = call[d].now /\ (d # c => call'[d].at = call[d].at)
         /\ call'[c].at = to
         /\ InProgress' = InProgress /\ c \in InProgress
         /\ Stage(to)' = Stage(to) \cup {c} /\ c \notin Stage(to)
         /\ Stage(from)' = Stage(from) \ {c} /\ c \in Stage(from)
         /\ \A x \in Places \ {from, to} : Stage(x)' = Stage(x) /\ c \notin Stage(x)
  <1>1. call \in Calls
    BY ShapeFacts
  <1>2. call' = [call EXCEPT ![c].at = to]
    BY DEF Goes
  <1>3. call[c] \in [at : Places, now : Nat] /\ [call[c] EXCEPT !.at = to] \in [at : Places, now : Nat]
    BY <1>1 DEF Calls
  <1>4. call' \in Calls
    BY <1>1, <1>2, <1>3 DEF Calls
  <1>5. call'[c].at = to /\ call'[c].now = call[c].now
    BY <1>1, <1>2 DEF Calls
  <1>6. \A d \in Callers : d # c => call'[d] = call[d]
    BY <1>1, <1>2 DEF Calls
  <1>7. InProgress' = InProgress /\ c \in InProgress
    BY <1>5, <1>6 DEF InProgress
  <1>8. Stage(to)' = Stage(to) \cup {c} /\ c \notin Stage(to)
    BY <1>5, <1>6 DEF Stage
  <1>9. Stage(from)' = Stage(from) \ {c} /\ c \in Stage(from)
    BY <1>5, <1>6 DEF Stage
  <1>10. ASSUME NEW x \in Places \ {from, to}
         PROVE  Stage(x)' = Stage(x) /\ c \notin Stage(x)
    BY <1>5, <1>6 DEF Stage
  <1> QED
    BY <1>4, <1>5, <1>6, <1>7, <1>8, <1>9, <1>10

LEMMA EndsMoves ==
  ASSUME Shape, NEW c \in Callers, NEW from \in Places \ {"idle"}, call[c].at = from, Ends(c)
  PROVE  /\ call' \in Calls
         /\ \A d \in Callers : d # c => call'[d] = call[d]
         /\ call'[c].at = "idle" /\ call'[c].now = 0
         /\ InProgress' = InProgress \ {c} /\ c \in InProgress
         /\ disturbed' = IF Cardinality(InProgress) > 1 THEN clock ELSE disturbed
         /\ disturbed' \in Int /\ disturbed' <= clock
         /\ Stage(from)' = Stage(from) \ {c} /\ c \in Stage(from)
         /\ \A x \in Places \ {from, "idle"} : Stage(x)' = Stage(x) /\ c \notin Stage(x)
  <1>1. call \in Calls /\ clock \in Nat /\ disturbed \in Int /\ disturbed <= clock
    BY ShapeFacts
  <1>2. /\ call' = [call EXCEPT ![c] = NoCall]
        /\ disturbed' = IF Cardinality(InProgress) > 1 THEN clock ELSE disturbed
    BY DEF Ends
  <1>3. NoCall \in [at : Places, now : Nat] /\ NoCall.at = "idle" /\ NoCall.now = 0
    BY DEF NoCall, Places
  <1>4. call' \in Calls
    BY <1>1, <1>2, <1>3 DEF Calls
  <1>5. call'[c] = NoCall
    BY <1>1, <1>2 DEF Calls
  <1>6. \A d \in Callers : d # c => call'[d] = call[d]
    BY <1>1, <1>2 DEF Calls
  <1>7. InProgress' = InProgress \ {c} /\ c \in InProgress
    BY <1>3, <1>5, <1>6 DEF InProgress
  <1>8. Stage(from)' = Stage(from) \ {c} /\ c \in Stage(from)
    BY <1>3, <1>5, <1>6 DEF Stage
  <1>9. ASSUME NEW x \in Places \ {from, "idle"}
        PROVE  Stage(x)' = Stage(x) /\ c \notin Stage(x)
    BY <1>3, <1>5, <1>6 DEF Stage
  <1>10. disturbed' \in Int /\ disturbed' <= clock
    BY <1>1, <1>2
  <1> QED
    BY <1>2, <1>3, <1>4, <1>5, <1>6, <1>7, <1>8, <1>9, <1>10

LEMMA ArriveMoves ==
  ASSUME Shape, NEW c \in Callers, Arrive(c)
  PROVE  /\ call' \in Calls
         /\ \A d \in Callers : d # c => call'[d] = call[d]
         /\ call'[c].at = "remove" /\ call'[c].now = clock
         /\ InProgress' = InProgress \cup {c} /\ c \notin InProgress
         /\ \A x \in Places \ {"idle", "remove"} : Stage(x)' = Stage(x) /\ c \notin Stage(x)
         /\ asked' \in Nat
  <1>1. call \in Calls /\ clock \in Nat /\ asked \in Nat
    BY ShapeFacts
  <1>2. call' = [call EXCEPT ![c] = [at |-> "remove", now |-> clock]] /\ call[c].at = "idle"
        /\ asked' = asked + 1
    BY DEF Arrive, At
  <1>3. [at |-> "remove", now |-> clock] \in [at : Places, now : Nat]
    BY <1>1 DEF Places
  <1>4. call' \in Calls
    BY <1>1, <1>2, <1>3 DEF Calls
  <1>5. call'[c].at = "remove" /\ call'[c].now = clock
    BY <1>1, <1>2 DEF Calls
  <1>6. \A d \in Callers : d # c => call'[d] = call[d]
    BY <1>1, <1>2 DEF Calls
  <1>7. InProgress' = InProgress \cup {c} /\ c \notin InProgress
    BY <1>2, <1>5, <1>6 DEF InProgress
  <1>8. ASSUME NEW x \in Places \ {"idle", "remove"}
        PROVE  Stage(x)' = Stage(x) /\ c \notin Stage(x)
    BY <1>2, <1>5, <1>6 DEF Stage
  <1>9. asked' \in Nat
    BY <1>1, <1>2
  <1> QED
    BY <1>4, <1>5, <1>6, <1>7, <1>8, <1>9

\* What the records are after a step, and how many of them are late.
Records ==
  /\ data' \in Seq(Nat) /\ Ascending(data)' /\ Len(data') \in Nat /\ DOMAIN data' = 1 .. Len(data')
  /\ \A j \in DOMAIN data' : data'[j] \in Nat /\ data'[j] <= clock

LEMMA SameRecords ==
  ASSUME Shape, data' = data
  PROVE  Records /\ Len(data') = Len(data) /\ \A e \in Int : Kept(e)' = Kept(e)
  BY ShapeFacts DEF Records, Kept, Ascending

LEMMA Forgotten ==
  ASSUME Shape, Forget
  PROVE  /\ Records /\ Len(data') = 0 /\ expires' = Never
         /\ \A e \in Int : Cardinality(Kept(e)') = 0
  <1>1. data' = << >> /\ expires' = Never
    BY DEF Forget
  <1>2. << >> \in Seq(Nat) /\ Len(<< >>) = 0 /\ DOMAIN << >> = {} /\ 1 .. 0 = {} /\ 1 .. 0 - 1 = {}
    OBVIOUS
  <1>3. Records
    BY <1>1, <1>2 DEF Records, Ascending
  <1>4. \A e \in Int : Kept(e)' = {}
    BY <1>1, <1>2 DEF Kept
  <1> QED
    BY <1>1, <1>2, <1>3, <1>4, FS_EmptySet

LEMMA PurgedRecords ==
  ASSUME Shape, NEW c \in Callers, data' = Younger(data, call[c].now - Window)
  PROVE  /\ Records /\ Len(data') <= Len(data)
         /\ Len(data') = Cardinality(Kept(call[c].now - Window))
         /\ \A e \in Int : Cardinality(Kept(e)') <= Cardinality(Kept(e))
         /\ \A e \in Int : e >= call[c].now - Window => Cardinality(Kept(e)') = Cardinality(Kept(e))
  <1>1. call[c].now - Window \in Int
    BY ShapeFacts, Numbers
  <1>2. PICK s \in Seq(Nat), edge \in Int : s = data /\ edge = call[c].now - Window
    BY <1>1, ShapeFacts
  <1>3. PICK r : r = Younger(s, edge)
    OBVIOUS
  <1>4. Ascending(s)
    BY <1>2, ShapeFacts
  <1>5. /\ r \in Seq(Nat)
        /\ Ascending(r)
        /\ Len(r) <= Len(s)
        /\ \A j \in 1 .. Len(r) : \E i \in 1 .. Len(s) : r[j] = s[i]
        /\ \A e \in Int :
              /\ Cardinality(Above(r, e)) <= Cardinality(Above(s, e))
              /\ e >= edge => Cardinality(Above(r, e)) = Cardinality(Above(s, e))
        /\ Len(r) = Cardinality(Above(s, edge))
    BY <1>3, <1>4, YoungerRight
  <1>6. data' = r
    BY <1>2, <1>3
  <1>7. Len(r) \in Nat /\ DOMAIN r = 1 .. Len(r)
    BY <1>5, LenProperties
  <1>8. \A e \in Int : Kept(e) = Above(s, e) /\ Kept(e)' = Above(r, e)
    BY <1>2, <1>6 DEF Kept, Above
  <1>9. \A i \in 1 .. Len(s) : s[i] \in Nat /\ s[i] <= clock
    BY <1>2, ShapeFacts
  <1>10. \A j \in 1 .. Len(r) : r[j] \in Nat /\ r[j] <= clock
    BY <1>5, <1>9
  <1>11. Records
    BY <1>5, <1>6, <1>7, <1>10 DEF Records, Ascending
  <1> QED
    BY <1>2, <1>5, <1>6, <1>8, <1>11

LEMMA InsertedRecords ==
  ASSUME Shape, NEW c \in Callers, data' = Inserted(data, call[c].now)
  PROVE  /\ Records /\ Len(data') = Len(data) + 1
         /\ \A e \in Int : Cardinality(Kept(e)')
                             = Cardinality(Kept(e)) + (IF call[c].now > e THEN 1 ELSE 0)
  <1>1. PICK s \in Seq(Nat), x \in Nat : s = data /\ x = call[c].now /\ x <= clock
    BY ShapeFacts
  <1>2. PICK r : r = Inserted(s, x)
    OBVIOUS
  <1>3. Ascending(s)
    BY <1>1, ShapeFacts
  <1>4. /\ r \in Seq(Nat)
        /\ Len(r) = Len(s) + 1
        /\ Ascending(r)
        /\ \A j \in 1 .. Len(s) + 1 : r[j] = x \/ \E i \in 1 .. Len(s) : r[j] = s[i]
        /\ \A e \in Int : Cardinality(Above(r, e)) = Cardinality(Above(s, e)) + (IF x > e THEN 1 ELSE 0)
    BY <1>2, <1>3, InsertedRight
  <1>5. data' = r
    BY <1>1, <1>2
  <1>6. Len(r) \in Nat /\ DOMAIN r = 1 .. Len(r)
    BY <1>4, LenProperties
  <1>7. \A e \in Int : Kept(e) = Above(s, e) /\ Kept(e)' = Above(r, e)
    BY <1>1, <1>5 DEF Kept, Above
  <1>8. \A i \in 1 .. Len(s) : s[i] \in Nat /\ s[i] <= clock
    BY <1>1, ShapeFacts
  <1>9. \A j \in 1 .. Len(r) : r[j] \in Nat /\ r[j] <= clock
    BY <1>1, <1>4, <1>8
  <1>10. Records
    BY <1>4, <1>5, <1>6, <1>9 DEF Records, Ascending
  <1> QED
    BY <1>1, <1>4, <1>5, <1>7, <1>10

LEMMA FirstRecord ==
  ASSUME Shape, NEW c \in Callers, data' = <<call[c].now>>
  PROVE  /\ Records /\ Len(data') = 1
         /\ \A e \in Int : Cardinality(Kept(e)') = IF call[c].now > e THEN 1 ELSE 0
  <1>1. PICK x \in Nat : x = call[c].now /\ x <= clock
    BY ShapeFacts
  <1>2. PICK r : r = <<x>>
    OBVIOUS
  <1>3. r \in Seq(Nat) /\ Len(r) = 1 /\ r[1] = x /\ DOMAIN r = 1 .. 1
    BY <1>2
  <1>4. data' = r
    BY <1>1, <1>2
  <1>5. Records
    BY <1>1, <1>3, <1>4 DEF Records, Ascending
  <1>6. \A e \in Int : Kept(e)' = IF x > e THEN {1} ELSE {}
    BY <1>1, <1>3, <1>4 DEF Kept
  <1>7. Cardinality({1}) = 1 /\ Cardinality({}) = 0
    BY FS_Singleton, FS_EmptySet
  <1> QED
    BY <1>1, <1>3, <1>4, <1>5, <1>6, <1>7

LEMMA SamePassed ==
  ASSUME passed' = passed, NEW e \in Int
  PROVE  Passed(e)' = Passed(e) /\ Added(e)' = Added(e)
  BY DEF Passed, Added

LEMMA OneMorePassed ==
  ASSUME Shape, NEW c \in Callers,
         passed' = Append(passed, [arrival |-> call[c].now, added |-> clock])
  PROVE  /\ passed' \in Seq(Entries) /\ DOMAIN passed' = 1 .. Len(passed) + 1
         /\ \A i \in DOMAIN passed : passed'[i] = passed[i]
         /\ passed'[Len(passed) + 1].arrival = call[c].now /\ passed'[Len(passed) + 1].added = clock
         /\ \A e \in Int :
              /\ Cardinality(Passed(e)') = Cardinality(Passed(e)) + (IF call[c].now > e THEN 1 ELSE 0)
              /\ Cardinality(Added(e)') = Cardinality(Added(e)) + (IF clock > e THEN 1 ELSE 0)
  <1>1. PICK p \in Seq(Entries), a \in Nat, b \in Nat : p = passed /\ a = call[c].now /\ b = clock
    BY ShapeFacts
  <1>2. PICK r : r = [arrival |-> a, added |-> b]
    OBVIOUS
  <1>3. r \in Entries /\ r.arrival = a /\ r.added = b
    BY <1>2 DEF Entries
  <1>4. PICK q : q = Append(p, r)
    OBVIOUS
  <1>5. /\ q \in Seq(Entries)
        /\ Len(q) = Len(p) + 1
        /\ \A i \in 1 .. Len(p) : q[i] = p[i]
        /\ q[Len(p) + 1] = r
    BY <1>3, <1>4, AppendProperties
  <1>6. DOMAIN q = 1 .. Len(p) + 1 /\ DOMAIN p = 1 .. Len(p)
    BY <1>5, LenProperties
  <1>7. \A e \in Int :
          /\ Cardinality(Later(q, e)) = Cardinality(Later(p, e)) + (IF a > e THEN 1 ELSE 0)
          /\ Cardinality(Landed(q, e)) = Cardinality(Landed(p, e)) + (IF b > e THEN 1 ELSE 0)
    BY <1>2, <1>4, AppendCount
  <1>8. passed' = q
    BY <1>1, <1>2, <1>4
  <1>9. \A e \in Int : /\ Passed(e) = Later(p, e) /\ Passed(e)' = Later(q, e)
                       /\ Added(e) = Landed(p, e) /\ Added(e)' = Landed(q, e)
    BY <1>1, <1>8 DEF Passed, Later, Added, Landed
  <1> QED
    BY <1>1, <1>3, <1>5, <1>6, <1>7, <1>8, <1>9

-----------------------------------------------------------------------------
(* The inductive invariant, action by action. *)

LEMMA NewShape ==
  ASSUME Shape, Records, clock' \in Nat, clock <= clock', clock' <= MaxTime,
         expires' = Never \/ expires' \in Nat,
         call' \in Calls, \A d \in Callers : call'[d].now <= clock',
         up' \in BOOLEAN, asked' \in Nat,
         passed' \in Seq(Entries),
         \A i \in DOMAIN passed' : passed'[i].arrival <= passed'[i].added /\ passed'[i].added <= clock',
         disturbed' \in Int, disturbed' <= clock'
  PROVE  Shape'
  <1>1. TypeOK'
    BY DEF Records, TypeOK, Calls, Places, Entries
  <1>2. clock \in Nat
    BY ShapeFacts
  <1>3. \A j \in DOMAIN data' : data'[j] <= clock'
    BY <1>2 DEF Records
  <1>4. InThePast'
    BY <1>3 DEF InThePast
  <1> QED
    BY <1>1, <1>4 DEF Shape

LEMMA SamePassedShape ==
  ASSUME Shape, passed' = passed, clock' = clock
  PROVE  /\ passed' \in Seq(Entries)
         /\ \A i \in DOMAIN passed' : passed'[i].arrival <= passed'[i].added /\ passed'[i].added <= clock'
         /\ clock' \in Nat /\ clock <= clock' /\ clock' <= MaxTime
  BY ShapeFacts

LEMMA SameOvershoot ==
  ASSUME OvershootBounded, passed' = passed, clock' = clock
  PROVE  OvershootBounded'
  BY DEF OvershootBounded

LEMMA ArriveKeeps ==
  ASSUME IInv, NEW c \in Callers, Arrive(c)
  PROVE  IInv'
  <1> USE DEF IInv
  <1>0. Shape
    BY DEF Shape
  <1>1. /\ call' \in Calls
        /\ \A d \in Callers : d # c => call'[d] = call[d]
        /\ call'[c].at = "remove" /\ call'[c].now = clock
        /\ InProgress' = InProgress \cup {c} /\ c \notin InProgress
        /\ \A x \in Places \ {"idle", "remove"} : Stage(x)' = Stage(x) /\ c \notin Stage(x)
        /\ asked' \in Nat
    BY <1>0, ArriveMoves
  <1>2. /\ clock' = clock /\ data' = data /\ expires' = expires /\ up' = up
        /\ passed' = passed /\ disturbed' = disturbed
    BY DEF Arrive
  <1>3. Stage("add")' = Stage("add") /\ Stage("expire")' = Stage("expire")
    BY <1>1 DEF Places
  <1>4. \A e \in Int : Kept(e)' = Kept(e) /\ Passed(e)' = Passed(e) /\ Added(e)' = Added(e)
    BY <1>0, <1>2, SameRecords, SamePassed
  <1>5. Edges \subseteq Int
    BY Numbers
  <1>6. \A d \in Callers : call'[d].now <= clock'
    BY <1>0, <1>1, <1>2, ShapeFacts
  <1>7. Shape'
    BY <1>0, <1>1, <1>2, <1>6, SameRecords, SamePassedShape, ShapeFacts, NewShape
  <1>8. ExpiryIsLate'
    BY <1>2, <1>3, <1>4, <1>5 DEF ExpiryIsLate
  <1>9. NoneInvented'
    BY <1>4, <1>5 DEF NoneInvented
  <1>10. FewForgotten'
    BY <1>2, <1>4, <1>5 DEF FewForgotten
  <1>11. NoneForgotten'
    <2>1. Cardinality(InProgress') <= 1 => Cardinality(InProgress) <= 1
      <3>1. InProgress \in SUBSET Callers
        BY DEF InProgress
      <3>2. Cardinality(InProgress') = Cardinality(InProgress) + 1 /\ Cardinality(InProgress) \in Nat
        BY <1>1, <3>1, Some
      <3> QED
        BY <3>2
    <2> QED
      BY <1>2, <1>4, <1>5, <2>1 DEF NoneForgotten
  <1>12. FewAhead'
    <2>1. PICK e \in Int : e = clock - Window
      BY <1>0, ShapeFacts, Numbers
    <2>2. Passed(e)' = Passed(e)
      BY <1>4
    <2> QED
      BY <1>2, <1>3, <2>1, <2>2 DEF FewAhead, Passed
  <1>13. CountedRight'
    <2>1. ASSUME NEW d \in Callers, At(d, "count")'
          PROVE  Len(data)' <= Cardinality(Added(call[d].now - Window))'
      <3>1. d # c /\ call'[d] = call[d] /\ At(d, "count")
        BY <1>1, <1>2, <2>1 DEF At
      <3>2. PICK e \in Int : e = call[d].now - Window
        BY <1>0, ShapeFacts, Numbers
      <3>3. Len(data) <= Cardinality(Added(e))
        BY <3>1, <3>2 DEF CountedRight
      <3> QED
        BY <1>2, <3>1, <3>2, <3>3 DEF Added
    <2> QED
      BY <2>1 DEF CountedRight
  <1>14. PromisesKept'
    <2>1. ASSUME NEW d \in Callers, Undisturbed(d)'
          PROVE  /\ \A i \in DOMAIN passed' : passed'[i].arrival <= call'[d].now
                 /\ ~ At(d, "count")' /\ ~ At(d, "add")'
      <3>1. d = c
        BY <1>1, <2>1 DEF Undisturbed
      <3> QED
        BY <1>0, <1>1, <1>2, <3>1, ShapeFacts DEF At
    <2> QED
      BY <2>1 DEF PromisesKept
  <1>15. OvershootBounded'
    BY <1>2, SameOvershoot
  <1> QED
    BY <1>7, <1>8, <1>9, <1>10, <1>11, <1>12, <1>13, <1>14, <1>15 DEF Shape

LEMMA NoneAfterNow ==
  ASSUME Shape, NEW e \in Int, e >= clock
  PROVE  Cardinality(Passed(e)) = 0
  <1>1. Passed(e) = {}
    BY ShapeFacts DEF Passed
  <1> QED
    BY <1>1, FS_EmptySet

\* A request that ends leaves nobody a promise: either it was alone, or the
\* overlap has just ended.
LEMMA EndsPromisesNothing ==
  ASSUME Shape, NEW c \in Callers, NEW from \in Places \ {"idle"}, call[c].at = from, Ends(c)
  PROVE  PromisesKept'
  <1>1. /\ \A d \in Callers : d # c => call'[d] = call[d]
        /\ InProgress' = InProgress \ {c} /\ c \in InProgress
        /\ disturbed' = IF Cardinality(InProgress) > 1 THEN clock ELSE disturbed
    BY EndsMoves
  <1>2. ASSUME NEW d \in Callers, Undisturbed(d)' PROVE FALSE
    <2>1. InProgress \ {c} = {d} /\ d # c /\ call'[d].now >= disturbed' + Window
      BY <1>1, <1>2 DEF Undisturbed
    <2>2. InProgress \in SUBSET Callers
      BY DEF InProgress
    <2>3. Cardinality(InProgress) - 1 = 1 /\ Cardinality(InProgress) \in Nat
      <3>1. Cardinality(InProgress) \in Nat /\ Cardinality(InProgress \ {c}) = Cardinality(InProgress) - 1
        BY <1>1, <2>2, Some
      <3>2. Cardinality({d}) = 1
        BY FS_Singleton
      <3> QED
        BY <2>1, <3>1, <3>2
    <2>4. disturbed' = clock
      BY <1>1, <2>3
    <2>5. call'[d].now \in Nat /\ call'[d].now <= clock /\ clock \in Nat
      BY <1>1, <2>1, ShapeFacts
    <2> QED
      BY <2>1, <2>4, <2>5, Numbers
  <1> QED
    BY <1>2 DEF PromisesKept

LEMMA EndsForgetsNone ==
  ASSUME IInv, NEW c \in Callers, NEW from \in Places \ {"idle"}, call[c].at = from, Ends(c),
         clock' = clock, data' = data, passed' = passed, up' = up
  PROVE  NoneForgotten'
  <1>0. Shape
    BY DEF IInv, Shape
  <1>1. disturbed' = IF Cardinality(InProgress) > 1 THEN clock ELSE disturbed
    BY <1>0, EndsMoves
  <1>2. \A e \in Int : Kept(e)' = Kept(e) /\ Passed(e)' = Passed(e)
    BY <1>0, SameRecords, SamePassed
  <1>3. ASSUME up, NEW e \in Edges, e >= clock - Window, e >= disturbed'
        PROVE  Cardinality(Passed(e)) <= Cardinality(Kept(e))
    <2>1. e \in Int /\ InProgress \in SUBSET Callers
      BY Numbers DEF InProgress
    <2>2. Cardinality(Passed(e)) \in Nat /\ Cardinality(Kept(e)) \in Nat /\ Cardinality(InProgress) \in Nat
      BY <2>1, CountsTyped, Some DEF IInv
    <2>3. CASE Cardinality(InProgress) > 1
      <3>1. e >= clock
        BY <1>1, <1>3, <2>3
      <3> QED
        BY <1>0, <2>1, <2>2, <3>1, NoneAfterNow
    <2>4. CASE ~ (Cardinality(InProgress) > 1)
      <3>1. e >= disturbed /\ Cardinality(InProgress) <= 1
        BY <1>1, <1>3, <2>2, <2>4
      <3> QED
        BY <1>3, <3>1 DEF IInv, NoneForgotten
    <2> QED
      BY <2>3, <2>4
  <1>4. Edges \subseteq Int
    BY Numbers
  <1> QED
    BY <1>2, <1>3, <1>4 DEF NoneForgotten

\* Whoever is counting counts the same, and the same requests.
LEMMA SameCounted ==
  ASSUME IInv, passed' = passed, data' = data, up' = up,
         \A d \in Callers : call'[d].at = "count" => call'[d] = call[d]
  PROVE  CountedRight'
  <1>1. ASSUME NEW d \in Callers, At(d, "count")'
        PROVE  Len(data)' <= Cardinality(Added(call[d].now - Window))'
    <2>1. call'[d] = call[d] /\ At(d, "count")
      BY <1>1 DEF At
    <2>2. PICK e : e = call[d].now - Window
      OBVIOUS
    <2>3. Len(data) <= Cardinality(Added(e))
      BY <2>1, <2>2 DEF IInv, CountedRight
    <2> QED
      BY <2>1, <2>2, <2>3 DEF Added
  <1> QED
    BY <1>1 DEF CountedRight

LEMMA ExpireKeeps ==
  ASSUME IInv, NEW c \in Callers, ExpireKey(c)
  PROVE  IInv'
  <1> USE DEF IInv
  <1>0. Shape
    BY DEF Shape
  <1>1. call[c].at = "expire" /\ Ends(c) /\ "expire" \in Places \ {"idle"}
    BY DEF ExpireKey, At, Places
  <1>2. /\ call' \in Calls
        /\ \A d \in Callers : d # c => call'[d] = call[d]
        /\ call'[c].at = "idle" /\ call'[c].now = 0
        /\ disturbed' \in Int /\ disturbed' <= clock
        /\ \A x \in Places \ {"expire", "idle"} : Stage(x)' = Stage(x) /\ c \notin Stage(x)
    BY <1>0, <1>1, EndsMoves
  <1>3. /\ clock' = clock /\ data' = data /\ expires' = clock + Window /\ up' = up
        /\ passed' = passed /\ asked' = asked
    BY DEF ExpireKey, Expiry
  <1>4. Stage("add")' = Stage("add")
    BY <1>2 DEF Places
  <1>5. \A e \in Int : Kept(e)' = Kept(e) /\ Passed(e)' = Passed(e) /\ Added(e)' = Added(e)
    BY <1>0, <1>3, SameRecords, SamePassed
  <1>6. Edges \subseteq Int /\ clock \in Nat /\ Window \in Nat
    BY <1>0, Numbers, ShapeFacts
  <1>7. \A d \in Callers : call'[d].now <= clock'
    <2>1. \A d \in Callers : d # c => call'[d].now <= clock
      BY <1>0, <1>2, ShapeFacts
    <2> QED
      BY <1>2, <1>3, <1>6, <2>1
  <1>8. Shape'
    <2>1. expires' \in Nat /\ asked' \in Nat /\ up' \in BOOLEAN
      BY <1>0, <1>3, <1>6, ShapeFacts
    <2>2. disturbed' <= clock'
      BY <1>2, <1>3
    <2> QED
      BY <1>0, <1>2, <1>3, <1>7, <2>1, <2>2, SameRecords, SamePassedShape, NewShape
  <1>9. ExpiryIsLate'
    <2>1. ASSUME NEW e \in Edges, e >= expires' - Window
          PROVE  Cardinality(Passed(e)') <= Cardinality(Stage("expire")')
      <3>1. e \in Int /\ e >= clock
        BY <1>3, <1>6, <2>1
      <3>2. Cardinality(Passed(e)') = 0
        BY <1>0, <1>5, <3>1, NoneAfterNow
      <3>3. Stage("expire")' \in SUBSET Callers
        BY DEF Stage
      <3>4. Cardinality(Stage("expire")') \in Nat
        BY <3>3, Some
      <3> QED
        BY <3>2, <3>4
    <2> QED
      BY <2>1 DEF ExpiryIsLate
  <1>10. NoneInvented'
    BY <1>5, <1>6 DEF NoneInvented
  <1>11. FewForgotten'
    BY <1>3, <1>5, <1>6 DEF FewForgotten
  <1>12. NoneForgotten'
    BY <1>1, <1>3, EndsForgetsNone
  <1>13. FewAhead'
    <2>1. PICK e \in Int : e = clock - Window
      BY <1>6
    <2>2. Passed(e)' = Passed(e)
      BY <1>5
    <2> QED
      BY <1>3, <1>4, <2>1, <2>2 DEF FewAhead, Passed
  <1>14. CountedRight'
    BY <1>2, <1>3, SameCounted
  <1>15. PromisesKept'
    BY <1>0, <1>1, EndsPromisesNothing
  <1>16. OvershootBounded'
    BY <1>3, SameOvershoot
  <1> QED
    BY <1>8, <1>9, <1>10, <1>11, <1>12, <1>13, <1>14, <1>15, <1>16 DEF Shape

\* What arrived in the Window before t and was added by t arrived after its edge.
LEMMA OvershootNow ==
  ASSUME NEW p \in Seq(Entries), NEW t \in Nat,
         Cardinality(Later(p, t - Window)) <= MaxHits + 2 * Others
  PROVE  Cardinality({i \in DOMAIN p : t - Window < p[i].arrival /\ p[i].added <= t})
           <= MaxHits + 2 * Others
  <1> DEFINE S == {i \in DOMAIN p : t - Window < p[i].arrival /\ p[i].added <= t}
             L == Later(p, t - Window)
  <1>1. t - Window \in Int
    BY Numbers
  <1>2. IsFiniteSet(L) /\ Cardinality(L) \in Nat
    BY <1>1, EntriesFinite
  <1>3. \A i \in DOMAIN p : p[i].arrival \in Nat
    <2>1. \A i \in DOMAIN p : p[i] \in Entries
      BY LenProperties, ElementOfSeq
    <2> QED
      BY <2>1 DEF Entries
  <1>4. S \in SUBSET L
    BY <1>1, <1>3 DEF Later
  <1> HIDE DEF S, L
  <1>5. IsFiniteSet(S) /\ Cardinality(S) <= Cardinality(L)
    BY <1>2, <1>4, FS_Subset
  <1>6. Cardinality(S) \in Nat
    BY <1>5, FS_CardinalityType
  <1>7. Cardinality(L) <= MaxHits + 2 * Others
    BY DEF L
  <1>8. Cardinality(S) <= MaxHits + 2 * Others
    BY <1>2, <1>5, <1>6, <1>7, Numbers
  <1> QED
    BY <1>8 DEF S

LEMMA TickKeeps ==
  ASSUME IInv, Tick
  PROVE  IInv'
  <1> USE DEF IInv
  <1>0. Shape
    BY DEF Shape
  <1>1. /\ clock' = clock + 1 /\ clock < MaxTime /\ data' = data /\ expires' = expires
        /\ call' = call /\ up' = up
        /\ passed' = passed /\ asked' = asked /\ disturbed' = disturbed
    BY DEF Tick
  <1>2. Stage("add")' = Stage("add") /\ Stage("expire")' = Stage("expire") /\ InProgress' = InProgress
    BY <1>1 DEF Stage, InProgress
  <1>3. \A e \in Int : Kept(e)' = Kept(e) /\ Passed(e)' = Passed(e) /\ Added(e)' = Added(e)
    BY <1>0, <1>1, SameRecords, SamePassed
  <1>4. /\ Edges \subseteq Int /\ clock \in Nat /\ Window \in Nat /\ MaxTime \in Nat
        /\ Others \in Nat /\ MaxHits \in Nat
    BY <1>0, Numbers, ShapeFacts
  <1>5. Shape'
    <2>1. /\ clock' \in Nat /\ clock <= clock' /\ clock' <= MaxTime
          /\ disturbed' \in Int /\ disturbed' <= clock'
          /\ \A d \in Callers : call'[d].now <= clock'
          /\ expires' = Never \/ expires' \in Nat
      BY <1>0, <1>1, <1>4, ShapeFacts
    <2>2. call' \in Calls /\ up' \in BOOLEAN /\ asked' \in Nat /\ passed' \in Seq(Entries)
      BY <1>0, <1>1, ShapeFacts
    <2>3. ASSUME NEW i \in DOMAIN passed'
          PROVE  passed'[i].arrival <= passed'[i].added /\ passed'[i].added <= clock'
      BY <1>0, <1>1, <1>4, ShapeFacts
    <2> QED
      BY <1>0, <1>1, <2>1, <2>2, <2>3, SameRecords, NewShape
  <1>6. ExpiryIsLate'
    BY <1>1, <1>2, <1>3, <1>4 DEF ExpiryIsLate
  <1>7. NoneInvented'
    BY <1>3, <1>4 DEF NoneInvented
  <1>8. FewForgotten'
    BY <1>1, <1>3, <1>4 DEF FewForgotten
  <1>9. NoneForgotten'
    BY <1>1, <1>2, <1>3, <1>4 DEF NoneForgotten
  <1>10. Cardinality(Later(passed, clock + 1 - Window)) + Cardinality(Stage("add")) <= MaxHits + 2 * Others
         /\ Cardinality(Later(passed, clock + 1 - Window)) <= MaxHits + 2 * Others
    <2>1. PICK e \in Int : e = clock - Window
      BY <1>4
    <2>2. PICK f \in Int : f = clock + 1 - Window
      BY <1>4
    <2>3. Later(passed, f) \in SUBSET Passed(e)
      <3>1. \A i \in DOMAIN passed : passed[i].arrival \in Nat
        BY <1>0, ShapeFacts
      <3> QED
        BY <1>4, <2>1, <2>2, <3>1 DEF Later, Passed
    <2>4. IsFiniteSet(Passed(e)) /\ Cardinality(Passed(e)) \in Nat
      BY CountsTyped
    <2>5. Cardinality(Later(passed, f)) <= Cardinality(Passed(e)) /\ IsFiniteSet(Later(passed, f))
      BY <2>3, <2>4, FS_Subset
    <2>6. Stage("add") \in SUBSET Callers
      BY DEF Stage
    <2>7. Cardinality(Stage("add")) \in Nat /\ Cardinality(Later(passed, f)) \in Nat
      BY <2>5, <2>6, Some, FS_CardinalityType
    <2>8. Cardinality(Passed(e)) + Cardinality(Stage("add")) <= MaxHits + 2 * Others
      BY <2>1 DEF FewAhead
    <2>9. /\ Cardinality(Later(passed, f)) + Cardinality(Stage("add")) <= MaxHits + 2 * Others
          /\ Cardinality(Later(passed, f)) <= MaxHits + 2 * Others
      BY <1>4, <2>4, <2>5, <2>7, <2>8
    <2> QED
      BY <2>2, <2>9
  <1>11. FewAhead'
    <2>1. PICK p \in {passed}, k \in Int : p = passed /\ k = clock + 1
      BY <1>4
    <2>2. passed' = p /\ clock' = k
      BY <1>1, <2>1
    <2>3. Passed(clock - Window)' = Later(p, k - Window)
      BY <2>2 DEF Passed, Later
    <2>4. Cardinality(Later(p, k - Window)) + Cardinality(Stage("add")) <= MaxHits + 2 * Others
      BY <1>4, <1>10, <2>1
    <2>5. Cardinality(Passed(clock - Window)') + Cardinality(Stage("add")') <= MaxHits + 2 * Others
      BY <1>2, <2>3, <2>4
    <2> QED
      BY <2>5 DEF FewAhead
  <1>12. CountedRight'
    BY <1>1, SameCounted
  <1>13. PromisesKept'
    <2>1. ASSUME NEW d \in Callers, Undisturbed(d)'
          PROVE  /\ \A i \in DOMAIN passed' : passed'[i].arrival <= call'[d].now
                 /\ At(d, "count")' => Len(data') <= Cardinality(Passed(call[d].now - Window)')
                 /\ At(d, "add")' => \E t \in call'[d].now .. clock' : Cardinality(Recent(t)') < MaxHits
      <3>1. Undisturbed(d)
        BY <1>1, <1>2, <2>1 DEF Undisturbed
      <3>2. /\ \A i \in DOMAIN passed : passed[i].arrival <= call[d].now
            /\ At(d, "count") => Len(data) <= Cardinality(Passed(call[d].now - Window))
            /\ At(d, "add") => \E t \in call[d].now .. clock : Cardinality(Recent(t)) < MaxHits
        BY <3>1 DEF PromisesKept
      <3>3. \A t \in Int : Recent(t)' = Recent(t)
        BY <1>1 DEF Recent
      <3>4. At(d, "count")' = At(d, "count") /\ At(d, "add")' = At(d, "add")
        BY <1>1 DEF At
      <3>5. At(d, "add")' => \E t \in call'[d].now .. clock' : Cardinality(Recent(t)') < MaxHits
        <4>1. call[d].now \in Nat
          BY <1>0, ShapeFacts
        <4>2. \A t \in call[d].now .. clock : t \in Int /\ t \in call'[d].now .. clock'
          BY <1>1, <1>4, <4>1
        <4> QED
          BY <3>2, <3>3, <3>4, <4>2
      <3>6. Passed(call[d].now - Window)' = Passed(call[d].now - Window)
        BY <1>1 DEF Passed
      <3> QED
        BY <1>1, <3>2, <3>4, <3>5, <3>6
    <2> QED
      BY <2>1 DEF PromisesKept
  <1>14. OvershootBounded'
    <2>1. ASSUME NEW t \in 0 .. clock'
          PROVE  Cardinality({i \in DOMAIN passed : t - Window < passed[i].arrival /\ passed[i].added <= t})
                   <= MaxHits + 2 * Others
      <3>1. CASE t <= clock
        <4>1. t \in 0 .. clock
          BY <1>1, <1>4, <3>1
        <4> QED
          BY <4>1 DEF OvershootBounded, Others
      <3>2. CASE t = clock + 1
        <4>1. t \in Nat /\ passed \in Seq(Entries)
          BY <1>0, <1>4, <3>2, ShapeFacts
        <4>2. PICK f \in Int : f = clock + 1 - Window /\ f = t - Window
          BY <1>4, <3>2
        <4>3. Cardinality(Later(passed, f)) <= MaxHits + 2 * Others
          BY <1>10, <4>2
        <4>4. Cardinality(Later(passed, t - Window)) <= MaxHits + 2 * Others
          BY <4>2, <4>3
        <4> QED
          BY <4>1, <4>4, OvershootNow
      <3> QED
        BY <1>1, <1>4, <3>1, <3>2
    <2> QED
      BY <1>1, <2>1 DEF OvershootBounded, Others
  <1> QED
    BY <1>5, <1>6, <1>7, <1>8, <1>9, <1>11, <1>12, <1>13, <1>14 DEF Shape

LEMMA RaceKeeps ==
  ASSUME IInv, CountsRace
  PROVE  IInv'
  <1> USE DEF IInv
  <1>0. Shape
    BY DEF Shape
  <1>1. /\ call' = [c \in Callers |-> NoCall] /\ up' = FALSE
        /\ clock' = clock /\ data' = data /\ expires' = expires
        /\ passed' = passed /\ asked' = asked /\ disturbed' = disturbed
    BY DEF CountsRace
  <1>2. \A d \in Callers : call'[d].at = "idle" /\ call'[d].now = 0
    BY <1>1 DEF NoCall
  <1>3. call' \in Calls
    <2>1. NoCall \in [at : Places, now : Nat]
      BY DEF NoCall, Places
    <2> QED
      BY <1>1, <2>1 DEF Calls
  <1>4. \A e \in Int : Kept(e)' = Kept(e) /\ Passed(e)' = Passed(e)
    BY <1>0, <1>1, SameRecords, SamePassed
  <1>5. Edges \subseteq Int
    BY Numbers
  <1>6. Shape'
    <2>1. /\ disturbed' \in Int /\ disturbed' <= clock'
          /\ expires' = Never \/ expires' \in Nat
          /\ up' \in BOOLEAN /\ asked' \in Nat
      BY <1>0, <1>1, ShapeFacts
    <2>2. \A d \in Callers : call'[d].now <= clock'
      <3>1. 0 <= clock'
        BY <1>0, <1>1, ShapeFacts
      <3> QED
        BY <1>2, <3>1
    <2> QED
      BY <1>0, <1>1, <1>3, <2>1, <2>2, SameRecords, SamePassedShape, NewShape, ShapeFacts
  <1>7. ExpiryIsLate' /\ FewForgotten' /\ NoneForgotten'
    BY <1>1 DEF ExpiryIsLate, FewForgotten, NoneForgotten
  <1>8. NoneInvented'
    BY <1>4, <1>5 DEF NoneInvented
  <1>9. FewAhead'
    <2>1. PICK e \in Int : e = clock - Window
      BY <1>0, ShapeFacts, Numbers
    <2>2. Stage("add")' = {} /\ Stage("add") \in SUBSET Callers
      BY <1>2 DEF Stage
    <2>3. Cardinality(Stage("add")') = 0 /\ Cardinality(Stage("add")) \in Nat
      BY <2>2, Some, FS_EmptySet
    <2>4. Cardinality(Passed(e)) + Cardinality(Stage("add")) <= MaxHits + 2 * Others
      BY <2>1 DEF FewAhead
    <2>5. Cardinality(Passed(e)) \in Nat /\ MaxHits \in Nat /\ Others \in Nat
      BY CountsTyped, Numbers
    <2>6. Cardinality(Passed(e)) + Cardinality(Stage("add")') <= MaxHits + 2 * Others
      BY <2>3, <2>4, <2>5
    <2>7. Passed(clock - Window)' = Passed(e)
      BY <1>1, <2>1 DEF Passed
    <2> QED
      BY <2>6, <2>7 DEF FewAhead
  <1>10. CountedRight'
    BY <1>1 DEF CountedRight, At
  <1>11. PromisesKept'
    <2>1. InProgress' = {}
      BY <1>2 DEF InProgress
    <2> QED
      BY <2>1 DEF PromisesKept, Undisturbed
  <1>12. OvershootBounded'
    BY <1>1, SameOvershoot
  <1> QED
    BY <1>6, <1>7, <1>8, <1>9, <1>10, <1>11, <1>12 DEF Shape

\* Who finds the key expired has not set the expiry: few of the Window's
\* requests can be forgotten with it, and none when it is alone.
LEMMA ExpiredForgetsFew ==
  ASSUME IInv, up, IsExpired, NEW c \in Callers, c \in InProgress, c \notin Stage("expire"),
         NEW e \in Edges, e >= clock - Window
  PROVE  /\ Cardinality(Passed(e)) <= Cardinality(Stage("expire"))
         /\ Cardinality(Passed(e)) <= Others
         /\ Cardinality(InProgress) <= 1 => Cardinality(Passed(e)) = 0
  <1>0. Shape
    BY DEF IInv, Shape
  <1>1. /\ e \in Int /\ clock \in Nat /\ Window \in Nat /\ Others \in Nat
        /\ expires # Never /\ expires \in Nat /\ clock > expires
    BY <1>0, ShapeFacts, Numbers DEF IsExpired
  <1>2. Cardinality(Passed(e)) <= Cardinality(Stage("expire"))
    BY <1>1 DEF IInv, ExpiryIsLate
  <1>3. /\ Stage("expire") \in SUBSET Callers /\ InProgress \in SUBSET Callers
        /\ Stage("expire") \subseteq InProgress \ {c}
    BY DEF Stage, InProgress
  <1>4. /\ Cardinality(Stage("expire")) \in Nat /\ Cardinality(Stage("expire")) <= Others
        /\ Cardinality(InProgress) \in Nat
        /\ Cardinality(InProgress \ {c}) = Cardinality(InProgress) - 1
    BY <1>3, Some
  <1>5. Cardinality(Passed(e)) \in Nat
    BY <1>1, CountsTyped DEF IInv
  <1>6. Cardinality(Stage("expire")) <= Cardinality(InProgress \ {c})
    <2>1. IsFiniteSet(InProgress \ {c})
      BY <1>3, Some
    <2> QED
      BY <1>3, <2>1, FS_Subset
  <1> QED
    BY <1>1, <1>2, <1>4, <1>5, <1>6

\* What RemoveOldRecords and CountRecords may do to the records.
Purge ==
  \/ IsExpired /\ Forget
  \/ /\ ~ IsExpired /\ expires' = expires
     /\ Records /\ Len(data') <= Len(data)
     /\ \A e \in Int : /\ Cardinality(Kept(e)') <= Cardinality(Kept(e))
                       /\ e >= clock - Window => Cardinality(Kept(e)') = Cardinality(Kept(e))

LEMMA PurgeKeeps ==
  ASSUME IInv, up, NEW c \in Callers, c \in InProgress, c \notin Stage("expire"), Purge,
         passed' = passed, clock' = clock, up' = up, Stage("expire")' = Stage("expire")
  PROVE  /\ Records /\ Len(data') <= Len(data) /\ Len(data') \in Nat
         /\ expires' = Never \/ expires' \in Nat
         /\ ExpiryIsLate' /\ NoneInvented' /\ FewForgotten'
         /\ InProgress' = InProgress /\ disturbed' = disturbed => NoneForgotten'
  <1>0. Shape /\ TypeOK
    BY DEF IInv, Shape
  <1>1. /\ Records /\ Len(data') <= Len(data) /\ Len(data') \in Nat
        /\ expires' = Never \/ expires' = expires
    <2>1. Len(data) \in Nat
      BY <1>0, ShapeFacts
    <2> QED
      BY <1>0, <2>1, Forgotten DEF Purge, Records
  <1>2. Edges \subseteq Int /\ \A e \in Edges : Passed(e)' = Passed(e)
    BY Numbers, SamePassed
  <1>3. ASSUME NEW e \in Edges
        PROVE  /\ Cardinality(Kept(e)') \in Nat
               /\ Cardinality(Kept(e)') <= Cardinality(Kept(e))
               /\ e >= clock - Window => \/ Cardinality(Kept(e)') = Cardinality(Kept(e))
                                         \/ IsExpired /\ Cardinality(Kept(e)') = 0
    <2>1. e \in Int /\ Cardinality(Kept(e)) \in Nat
      BY <1>0, <1>2, CountsTyped
    <2>2. CASE IsExpired /\ Forget
      BY <1>0, <2>1, <2>2, Forgotten
    <2>3. CASE ~ (IsExpired /\ Forget)
      <3>1. /\ Cardinality(Kept(e)') <= Cardinality(Kept(e))
            /\ e >= clock - Window => Cardinality(Kept(e)') = Cardinality(Kept(e))
        BY <2>1, <2>3 DEF Purge
      <3>2. Cardinality(Kept(e)') \in Nat
        <4>1. PICK r \in Seq(Nat) : r = data'
          BY <1>1 DEF Records
        <4>2. Kept(e)' = Above(r, e)
          BY <4>1 DEF Kept, Above
        <4> QED
          BY <2>1, <4>2, AboveFinite
      <3> QED
        BY <3>1, <3>2
    <2> QED
      BY <2>2, <2>3
  <1>4. ExpiryIsLate'
    <2>1. CASE expires' = Never
      BY <2>1 DEF ExpiryIsLate
    <2>2. CASE expires' = expires
      BY <1>2, <2>2 DEF ExpiryIsLate, IInv
    <2> QED
      BY <1>1, <2>1, <2>2
  <1>5. NoneInvented'
    <2>1. ASSUME NEW e \in Edges PROVE Cardinality(Kept(e)') <= Cardinality(Passed(e)')
      <3>1. Cardinality(Kept(e)) <= Cardinality(Passed(e))
        BY DEF IInv, NoneInvented
      <3>2. Cardinality(Kept(e)) \in Nat /\ Cardinality(Passed(e)) \in Nat
        BY <1>0, <1>2, CountsTyped
      <3> QED
        BY <1>2, <1>3, <3>1, <3>2
    <2> QED
      BY <2>1 DEF NoneInvented
  <1>6. FewForgotten'
    <2>1. ASSUME NEW e \in Edges, e >= clock - Window
          PROVE  Cardinality(Passed(e)') <= Cardinality(Kept(e)') + Others
      <3>1. Cardinality(Passed(e)) <= Cardinality(Kept(e)) + Others
        BY <2>1 DEF IInv, FewForgotten
      <3>2. IsExpired => Cardinality(Passed(e)) <= Others
        BY <2>1, ExpiredForgetsFew
      <3> QED
        BY <1>2, <1>3, <2>1, <3>1, <3>2, Numbers
    <2> QED
      BY <2>1 DEF FewForgotten
  <1>7. ASSUME InProgress' = InProgress, disturbed' = disturbed
        PROVE  NoneForgotten'
    <2>1. ASSUME NEW e \in Edges, e >= clock - Window, e >= disturbed, Cardinality(InProgress) <= 1
          PROVE  Cardinality(Passed(e)') <= Cardinality(Kept(e)')
      <3>1. Cardinality(Passed(e)) <= Cardinality(Kept(e))
        BY <2>1 DEF IInv, NoneForgotten
      <3>2. IsExpired => Cardinality(Passed(e)) = 0
        BY <2>1, ExpiredForgetsFew
      <3> QED
        BY <1>2, <1>3, <2>1, <3>1, <3>2
    <2> QED
      BY <1>7, <2>1 DEF NoneForgotten
  <1> QED
    BY <1>0, <1>1, <1>4, <1>5, <1>6, <1>7, ShapeFacts

\* The others that are counting see no more records than before.
LEMMA OthersCounted ==
  ASSUME IInv, NEW c \in Callers, passed' = passed, up' = up,
         Len(data') <= Len(data), Len(data') \in Nat,
         \A d \in Callers : d # c => call'[d].now = call[d].now /\ call'[d].at = call[d].at,
         NEW d \in Callers, d # c, At(d, "count")'
  PROVE  Len(data)' <= Cardinality(Added(call[d].now - Window))'
  <1>0. Shape /\ TypeOK
    BY DEF IInv, Shape
  <1>1. call'[d].now = call[d].now /\ At(d, "count")
    BY DEF At
  <1>2. PICK e \in Int : e = call[d].now - Window
    BY <1>0, ShapeFacts, Numbers
  <1>3. Len(data) <= Cardinality(Added(e))
    BY <1>1, <1>2 DEF IInv, CountedRight
  <1>4. Len(data) \in Nat /\ Cardinality(Added(e)) \in Nat
    BY <1>0, CountsTyped
  <1>5. Len(data') <= Cardinality(Added(e))
    BY <1>3, <1>4
  <1>6. Added(call[d].now - Window)' = Added(e)
    BY <1>1, <1>2 DEF Added
  <1> QED
    BY <1>5, <1>6

LEMMA RemoveKeeps ==
  ASSUME IInv, NEW c \in Callers, RemoveOldRecords(c)
  PROVE  IInv'
  <1>0. Shape /\ TypeOK
    BY DEF IInv, Shape
  <1>1. /\ up /\ call[c].at = "remove" /\ Goes(c, "count")
        /\ "remove" \in Places \ {"idle"} /\ "count" \in Places \ {"idle"}
        /\ clock' = clock /\ up' = up /\ asked' = asked /\ passed' = passed /\ disturbed' = disturbed
    BY DEF RemoveOldRecords, At, Places
  <1>2. /\ call' \in Calls
        /\ \A d \in Callers : call'[d].now = call[d].now /\ (d # c => call'[d].at = call[d].at)
        /\ call'[c].at = "count"
        /\ InProgress' = InProgress /\ c \in InProgress
        /\ \A x \in Places \ {"remove", "count"} : Stage(x)' = Stage(x) /\ c \notin Stage(x)
    BY <1>0, <1>1, GoesMoves
  <1>3. Stage("add")' = Stage("add") /\ Stage("expire")' = Stage("expire") /\ c \notin Stage("expire")
    BY <1>2 DEF Places
  <1>4. /\ Edges \subseteq Int /\ clock \in Nat /\ Window \in Nat /\ clock <= MaxTime /\ MaxTime \in Nat
        /\ call[c].now \in Nat /\ call[c].now <= clock
    BY <1>0, Numbers, ShapeFacts
  <1>5. ASSUME ~ IsExpired PROVE Purge
    <2>1. data' = Younger(data, call[c].now - Window) /\ expires' = expires
      BY <1>5 DEF RemoveOldRecords
    <2>2. /\ Records /\ Len(data') <= Len(data)
          /\ Len(data') = Cardinality(Kept(call[c].now - Window))
          /\ \A e \in Int : Cardinality(Kept(e)') <= Cardinality(Kept(e))
          /\ \A e \in Int : e >= call[c].now - Window => Cardinality(Kept(e)') = Cardinality(Kept(e))
      BY <1>0, <2>1, PurgedRecords
    <2>3. \A e \in Int : e >= clock - Window => e >= call[c].now - Window
      BY <1>4
    <2> QED
      BY <1>5, <2>1, <2>2, <2>3 DEF Purge
  <1>6. Purge
    BY <1>5 DEF Purge, RemoveOldRecords
  <1>7. /\ Records /\ Len(data') <= Len(data) /\ Len(data') \in Nat
        /\ expires' = Never \/ expires' \in Nat
        /\ ExpiryIsLate' /\ NoneInvented' /\ FewForgotten'
        /\ NoneForgotten'
    BY <1>1, <1>2, <1>3, <1>6, PurgeKeeps
  <1>8. PICK w \in Edges : w = call[c].now - Window
    BY <1>4 DEF Edges
  \* The purge leaves the records of the Window before the arrival.
  <1>9. Len(data') <= Cardinality(Passed(w))
    <2>1. w \in Int /\ Cardinality(Passed(w)) \in Nat
      BY <1>0, <1>4, <1>8, CountsTyped
    <2>2. CASE IsExpired
      BY <1>0, <2>1, <2>2, Forgotten DEF RemoveOldRecords
    <2>3. CASE ~ IsExpired
      <3>1. data' = Younger(data, call[c].now - Window)
        BY <2>3 DEF RemoveOldRecords
      <3>2. Len(data') = Cardinality(Kept(w))
        BY <1>0, <1>8, <3>1, PurgedRecords
      <3> QED
        BY <3>2 DEF IInv, NoneInvented
    <2> QED
      BY <2>2, <2>3
  <1>10. Passed(w) \in SUBSET Added(w)
    BY <1>0, <1>4, ShapeFacts DEF Passed, Added
  <1>11. Len(data') <= Cardinality(Added(w))
    <2>1. w \in Int
      BY <1>4
    <2>2. /\ IsFiniteSet(Added(w)) /\ Cardinality(Added(w)) \in Nat
          /\ Cardinality(Passed(w)) \in Nat
      BY <1>0, <2>1, CountsTyped
    <2>3. Cardinality(Passed(w)) <= Cardinality(Added(w))
      BY <1>10, <2>2, FS_Subset
    <2> QED
      BY <1>7, <1>9, <2>2, <2>3
  <1>12. Shape'
    <2>1. \A d \in Callers : call'[d].now <= clock'
      BY <1>0, <1>1, <1>2, ShapeFacts
    <2>2. /\ disturbed' \in Int /\ disturbed' <= clock'
          /\ up' \in BOOLEAN /\ asked' \in Nat
      BY <1>0, <1>1, ShapeFacts
    <2> QED
      BY <1>0, <1>1, <1>2, <1>7, <2>1, <2>2, SamePassedShape, NewShape
  <1>13. FewAhead'
    <2>1. PICK e \in Int : e = clock - Window
      BY <1>4
    <2>2. Passed(e)' = Passed(e)
      BY <1>1, SamePassed
    <2> QED
      BY <1>1, <1>3, <2>1, <2>2 DEF FewAhead, Passed, IInv
  <1>14. CountedRight'
    <2>1. ASSUME NEW d \in Callers, At(d, "count")'
          PROVE  Len(data)' <= Cardinality(Added(call[d].now - Window))'
      <3>1. CASE d # c
        BY <1>1, <1>2, <1>7, <2>1, <3>1, OthersCounted
      <3>2. CASE d = c
        <4>1. Added(call[d].now - Window)' = Added(w)
          BY <1>1, <1>2, <1>8, <3>2 DEF Added
        <4> QED
          BY <1>11, <4>1
      <3> QED
        BY <3>1, <3>2
    <2> QED
      BY <2>1 DEF CountedRight
  <1>15. PromisesKept'
    <2>1. ASSUME NEW d \in Callers, Undisturbed(d)'
          PROVE  /\ \A i \in DOMAIN passed' : passed'[i].arrival <= call'[d].now
                 /\ Len(data)' <= Cardinality(Passed(call[d].now - Window))'
                 /\ ~ At(d, "add")'
      <3>1. d = c /\ Undisturbed(c)
        BY <1>1, <1>2, <2>1 DEF Undisturbed
      <3>2. \A i \in DOMAIN passed' : passed'[i].arrival <= call'[d].now
        BY <1>1, <1>2, <3>1 DEF PromisesKept, IInv
      <3>3. Passed(call[d].now - Window)' = Passed(w)
        BY <1>1, <1>2, <1>8, <3>1 DEF Passed
      <3> QED
        BY <1>2, <1>9, <3>1, <3>2, <3>3 DEF At
    <2> QED
      BY <2>1 DEF PromisesKept
  <1>16. OvershootBounded'
    BY <1>1, SameOvershoot DEF IInv
  <1> QED
    BY <1>7, <1>12, <1>13, <1>14, <1>15, <1>16 DEF Shape, IInv

LEMMA RefuseKeeps ==
  ASSUME IInv, NEW c \in Callers, CountRecords(c), TooMany(Counted)
  PROVE  IInv'
  <1>0. Shape /\ TypeOK
    BY DEF IInv, Shape
  <1>1. /\ up /\ call[c].at = "count" /\ Ends(c) /\ "count" \in Places \ {"idle"}
        /\ clock' = clock /\ up' = up /\ asked' = asked /\ passed' = passed
    BY DEF CountRecords, At, Places
  <1>2. /\ call' \in Calls
        /\ \A d \in Callers : d # c => call'[d] = call[d]
        /\ call'[c].at = "idle" /\ call'[c].now = 0
        /\ disturbed' \in Int /\ disturbed' <= clock
        /\ \A x \in Places \ {"count", "idle"} : Stage(x)' = Stage(x) /\ c \notin Stage(x)
    BY <1>0, <1>1, EndsMoves
  \* The zero of an expired key is not too many.
  <1>3. ~ IsExpired
    BY Numbers DEF TooMany, Counted
  <1>4. data' = data /\ expires' = expires
    BY <1>3 DEF CountRecords
  <1>5. Stage("add")' = Stage("add") /\ Stage("expire")' = Stage("expire")
    BY <1>2 DEF Places
  <1>6. \A e \in Int : Kept(e)' = Kept(e) /\ Passed(e)' = Passed(e)
    BY <1>0, <1>1, <1>4, SameRecords, SamePassed
  <1>7. Edges \subseteq Int /\ clock \in Nat /\ Window \in Nat
    BY <1>0, Numbers, ShapeFacts
  <1>8. Shape'
    <2>1. \A d \in Callers : call'[d].now <= clock'
      <3>1. \A d \in Callers : d # c => call'[d].now <= clock
        BY <1>0, <1>2, ShapeFacts
      <3> QED
        BY <1>1, <1>2, <1>7, <3>1
    <2>2. /\ expires' = Never \/ expires' \in Nat
          /\ asked' \in Nat /\ up' \in BOOLEAN /\ disturbed' <= clock'
      BY <1>0, <1>1, <1>2, <1>4, ShapeFacts
    <2> QED
      BY <1>0, <1>1, <1>2, <1>4, <2>1, <2>2, SameRecords, SamePassedShape, NewShape
  <1>9. ExpiryIsLate'
    BY <1>1, <1>4, <1>5, <1>6, <1>7 DEF ExpiryIsLate, IInv
  <1>10. NoneInvented'
    BY <1>6, <1>7 DEF NoneInvented, IInv
  <1>11. FewForgotten'
    BY <1>1, <1>6, <1>7 DEF FewForgotten, IInv
  <1>12. NoneForgotten'
    BY <1>1, <1>4, EndsForgetsNone
  <1>13. FewAhead'
    <2>1. PICK e \in Int : e = clock - Window
      BY <1>7
    <2>2. Passed(e)' = Passed(e)
      BY <1>6
    <2> QED
      BY <1>1, <1>5, <2>1, <2>2 DEF FewAhead, Passed, IInv
  <1>14. CountedRight'
    BY <1>1, <1>2, <1>4, SameCounted
  <1>15. PromisesKept'
    BY <1>0, <1>1, EndsPromisesNothing
  <1>16. OvershootBounded'
    BY <1>1, SameOvershoot DEF IInv
  <1> QED
    BY <1>8, <1>9, <1>10, <1>11, <1>12, <1>13, <1>14, <1>15, <1>16 DEF Shape, IInv

LEMMA CountKeeps ==
  ASSUME IInv, NEW c \in Callers, CountRecords(c), ~ TooMany(Counted)
  PROVE  IInv'
  <1>0. Shape /\ TypeOK
    BY DEF IInv, Shape
  <1>1. /\ up /\ call[c].at = "count" /\ Goes(c, "add")
        /\ "count" \in Places \ {"idle"} /\ "add" \in Places \ {"idle"}
        /\ clock' = clock /\ up' = up /\ asked' = asked /\ passed' = passed /\ disturbed' = disturbed
    BY DEF CountRecords, At, Places
  <1>2. /\ call' \in Calls
        /\ \A d \in Callers : call'[d].now = call[d].now /\ (d # c => call'[d].at = call[d].at)
        /\ call'[c].at = "add"
        /\ InProgress' = InProgress /\ c \in InProgress
        /\ Stage("add")' = Stage("add") \cup {c} /\ c \notin Stage("add")
        /\ \A x \in Places \ {"count", "add"} : Stage(x)' = Stage(x) /\ c \notin Stage(x)
    BY <1>0, <1>1, GoesMoves
  <1>3. Stage("expire")' = Stage("expire") /\ c \notin Stage("expire")
    BY <1>2 DEF Places
  <1>4. /\ Edges \subseteq Int /\ clock \in Nat /\ Window \in Nat /\ clock <= MaxTime /\ MaxTime \in Nat
        /\ call[c].now \in Nat /\ call[c].now <= clock /\ Len(data) \in Nat
        /\ MaxHits \in Nat /\ MaxHits >= 1 /\ Others \in Nat /\ disturbed \in Int
    BY <1>0, Numbers, ShapeFacts
  <1>5. ASSUME ~ IsExpired PROVE Purge
    <2>1. data' = data /\ expires' = expires
      BY <1>5 DEF CountRecords
    <2>2. \A e \in Int : Kept(e)' = Kept(e) /\ Cardinality(Kept(e)) \in Nat
      BY <1>0, <2>1, SameRecords, CountsTyped
    <2>3. Records /\ Len(data') <= Len(data)
      BY <1>0, <1>4, <2>1, SameRecords
    <2> QED
      BY <1>5, <2>1, <2>2, <2>3 DEF Purge
  <1>6. Purge
    BY <1>5 DEF Purge, CountRecords
  <1>7. /\ Records /\ Len(data') <= Len(data) /\ Len(data') \in Nat
        /\ expires' = Never \/ expires' \in Nat
        /\ ExpiryIsLate' /\ NoneInvented' /\ FewForgotten'
        /\ NoneForgotten'
    BY <1>1, <1>2, <1>3, <1>6, PurgeKeeps
  <1>8. PICK e \in Edges : e = clock - Window /\ e >= clock - Window
    BY <1>4 DEF Edges
  <1>9. /\ Cardinality(Passed(e)) \in Nat /\ Cardinality(Kept(e)) \in Nat
        /\ Cardinality(Kept(e)) <= Len(data) /\ Passed(e)' = Passed(e)
    BY <1>0, <1>1, <1>4, CountsTyped, SamePassed
  <1>10. ~ IsExpired => Len(data) < MaxHits
    BY <1>4 DEF TooMany, Counted
  <1>11. Shape'
    <2>1. \A d \in Callers : call'[d].now <= clock'
      BY <1>0, <1>1, <1>2, ShapeFacts
    <2>2. /\ disturbed' \in Int /\ disturbed' <= clock'
          /\ up' \in BOOLEAN /\ asked' \in Nat
      BY <1>0, <1>1, ShapeFacts
    <2> QED
      BY <1>0, <1>1, <1>2, <1>7, <2>1, <2>2, SamePassedShape, NewShape
  \* Counted too early by at most the others; and so are those that add.
  <1>12. FewAhead'
    <2>1. /\ Stage("add") \in SUBSET Callers /\ Stage("expire") \in SUBSET Callers
          /\ Stage("add") \cup Stage("expire") \in SUBSET Callers
          /\ c \notin Stage("add") \cup Stage("expire")
          /\ Stage("add") \cap Stage("expire") = {}
      BY <1>2, <1>3 DEF Stage
    <2>2. /\ Cardinality(Stage("add")) \in Nat /\ Cardinality(Stage("add")) <= Others
          /\ Cardinality(Stage("expire")) \in Nat
          /\ Cardinality(Stage("add")') = Cardinality(Stage("add")) + 1
          /\ IsFiniteSet(Stage("add")) /\ IsFiniteSet(Stage("expire"))
          /\ Cardinality(Stage("add") \cup Stage("expire")) <= Others
      BY <1>2, <2>1, Some
    <2>3. Cardinality(Stage("add")) + Cardinality(Stage("expire")) <= Others
      <3>1. Cardinality(Stage("add") \cup Stage("expire"))
              = Cardinality(Stage("add")) + Cardinality(Stage("expire"))
                  - Cardinality(Stage("add") \cap Stage("expire"))
        BY <2>2, FS_Union
      <3>2. Cardinality(Stage("add") \cap Stage("expire")) = 0
        BY <2>1, FS_EmptySet
      <3> QED
        BY <2>2, <3>1, <3>2
    <2>4. Cardinality(Passed(e)) + Cardinality(Stage("add")') <= MaxHits + 2 * Others
      <3>1. CASE IsExpired
        <4>1. Cardinality(Passed(e)) <= Cardinality(Stage("expire"))
          BY <1>1, <1>2, <1>3, <1>8, <3>1, ExpiredForgetsFew
        <4> QED
          BY <1>4, <1>9, <2>2, <2>3, <4>1
      <3>2. CASE ~ IsExpired
        <4>1. Cardinality(Passed(e)) <= Cardinality(Kept(e)) + Others
          BY <1>1, <1>8 DEF IInv, FewForgotten
        <4> QED
          BY <1>4, <1>9, <1>10, <2>2, <3>2, <4>1
      <3> QED
        BY <3>1, <3>2
    <2>5. Passed(clock - Window)' = Passed(e)
      BY <1>1, <1>8 DEF Passed
    <2> QED
      BY <2>4, <2>5 DEF FewAhead
  <1>13. CountedRight'
    <2>1. ASSUME NEW d \in Callers, At(d, "count")'
          PROVE  Len(data)' <= Cardinality(Added(call[d].now - Window))'
      <3>1. d # c
        BY <1>2, <2>1 DEF At
      <3> QED
        BY <1>1, <1>2, <1>7, <2>1, <3>1, OthersCounted
    <2> QED
      BY <2>1 DEF CountedRight
  \* Alone, it has counted every request of the Window before this moment.
  <1>14. PromisesKept'
    <2>1. ASSUME NEW d \in Callers, Undisturbed(d)'
          PROVE  /\ \A i \in DOMAIN passed' : passed'[i].arrival <= call'[d].now
                 /\ ~ At(d, "count")'
                 /\ \E t \in call'[d].now .. clock' : Cardinality(Recent(t)') < MaxHits
      <3>1. d = c /\ Undisturbed(c)
        BY <1>1, <1>2, <2>1 DEF Undisturbed
      <3>2. \A i \in DOMAIN passed' : passed'[i].arrival <= call'[d].now
        BY <1>1, <1>2, <3>1 DEF PromisesKept, IInv
      <3>3. Cardinality(InProgress) <= 1 /\ e >= disturbed
        <4>1. InProgress = {c} /\ call[c].now >= disturbed + Window
          BY <3>1 DEF Undisturbed
        <4>2. Cardinality(InProgress) = 1
          BY <4>1, FS_Singleton
        <4> QED
          BY <1>4, <1>8, <4>1, <4>2
      <3>4. Cardinality(Passed(e)) < MaxHits
        <4>1. CASE IsExpired
          <5>1. Cardinality(Passed(e)) = 0
            BY <1>1, <1>2, <1>3, <1>8, <3>3, <4>1, ExpiredForgetsFew
          <5> QED
            BY <1>4, <5>1
        <4>2. CASE ~ IsExpired
          <5>1. Cardinality(Passed(e)) <= Cardinality(Kept(e))
            BY <1>1, <1>8, <3>3 DEF IInv, NoneForgotten
          <5> QED
            BY <1>4, <1>9, <1>10, <4>2, <5>1
        <4> QED
          BY <4>1, <4>2
      <3>5. PICK t \in Nat : t = clock
        BY <1>4
      <3>6. Recent(t)' = Passed(e)
        <4>1. \A i \in DOMAIN passed : passed[i].arrival \in Nat /\ passed[i].arrival <= clock
          BY <1>0, ShapeFacts
        <4> QED
          BY <1>1, <1>4, <1>8, <3>5, <4>1 DEF Recent, Passed
      <3>7. t \in call'[d].now .. clock'
        BY <1>1, <1>2, <1>4, <3>1, <3>5
      <3> QED
        BY <1>2, <3>1, <3>2, <3>4, <3>6, <3>7 DEF At
    <2> QED
      BY <2>1 DEF PromisesKept
  <1>15. OvershootBounded'
    BY <1>1, SameOvershoot DEF IInv
  <1> QED
    BY <1>7, <1>11, <1>12, <1>13, <1>14, <1>15 DEF Shape, IInv

LEMMA AddKeeps ==
  ASSUME IInv, NEW c \in Callers, AddRecord(c)
  PROVE  IInv'
  <1>0. Shape /\ TypeOK
    BY DEF IInv, Shape
  <1>1. /\ up /\ call[c].at = "add" /\ Goes(c, "expire")
        /\ "add" \in Places \ {"idle"} /\ "expire" \in Places \ {"idle"}
        /\ clock' = clock /\ up' = up /\ asked' = asked /\ disturbed' = disturbed
        /\ passed' = Append(passed, [arrival |-> call[c].now, added |-> clock])
    BY DEF AddRecord, At, Places
  <1>2. /\ call' \in Calls
        /\ \A d \in Callers : call'[d].now = call[d].now /\ (d # c => call'[d].at = call[d].at)
        /\ call'[c].at = "expire"
        /\ InProgress' = InProgress /\ c \in InProgress
        /\ Stage("expire")' = Stage("expire") \cup {c} /\ c \notin Stage("expire")
        /\ Stage("add")' = Stage("add") \ {c} /\ c \in Stage("add")
    BY <1>0, <1>1, GoesMoves
  <1>3. /\ Edges \subseteq Int /\ clock \in Nat /\ Window \in Nat /\ Window >= 1
        /\ clock <= MaxTime /\ MaxTime \in Nat
        /\ call[c].now \in Nat /\ call[c].now <= clock /\ Len(data) \in Nat
        /\ MaxHits \in Nat /\ Others \in Nat
    BY <1>0, Numbers, ShapeFacts
  <1>4. /\ passed' \in Seq(Entries) /\ DOMAIN passed' = 1 .. Len(passed) + 1
        /\ \A i \in DOMAIN passed : passed'[i] = passed[i]
        /\ passed'[Len(passed) + 1].arrival = call[c].now /\ passed'[Len(passed) + 1].added = clock
        /\ \A e \in Int :
             /\ Cardinality(Passed(e)') = Cardinality(Passed(e)) + (IF call[c].now > e THEN 1 ELSE 0)
             /\ Cardinality(Added(e)') = Cardinality(Added(e)) + (IF clock > e THEN 1 ELSE 0)
    BY <1>0, <1>1, OneMorePassed
  <1>5. /\ Records /\ Len(data') <= Len(data) + 1 /\ Len(data') \in Nat
        /\ expires' = Never \/ expires' = expires
        /\ \A e \in Int : Cardinality(Kept(e)')
             = (IF IsExpired THEN 0 ELSE Cardinality(Kept(e))) + (IF call[c].now > e THEN 1 ELSE 0)
    <2>1. CASE IsExpired
      <3>1. data' = <<call[c].now>> /\ expires' = Never
        BY <2>1 DEF AddRecord
      <3>2. /\ Records /\ Len(data') = 1
            /\ \A e \in Int : Cardinality(Kept(e)') = IF call[c].now > e THEN 1 ELSE 0
        BY <1>0, <3>1, FirstRecord
      <3> QED
        BY <1>3, <2>1, <3>1, <3>2
    <2>2. CASE ~ IsExpired
      <3>1. data' = Inserted(data, call[c].now) /\ expires' = expires
        BY <2>2 DEF AddRecord
      <3>2. /\ Records /\ Len(data') = Len(data) + 1
            /\ \A e \in Int : Cardinality(Kept(e)')
                                = Cardinality(Kept(e)) + (IF call[c].now > e THEN 1 ELSE 0)
        BY <1>0, <3>1, InsertedRecords
      <3> QED
        BY <1>3, <2>2, <3>1, <3>2
    <2> QED
      BY <2>1, <2>2
  <1>6. \A e \in Int : /\ Cardinality(Passed(e)) \in Nat /\ Cardinality(Kept(e)) \in Nat
                       /\ Cardinality(Added(e)) \in Nat
    BY <1>0, CountsTyped
  <1>7. /\ Stage("add") \in SUBSET Callers /\ Stage("expire") \in SUBSET Callers
        /\ Cardinality(Stage("add")) \in Nat /\ Cardinality(Stage("add")') = Cardinality(Stage("add")) - 1
        /\ Cardinality(Stage("expire")) \in Nat
        /\ Cardinality(Stage("expire")') = Cardinality(Stage("expire")) + 1
    <2>1. Stage("add") \in SUBSET Callers /\ Stage("expire") \in SUBSET Callers
      BY DEF Stage
    <2> QED
      BY <1>2, <2>1, Some
  <1>8. \A i \in DOMAIN passed' : i \in DOMAIN passed \/ i = Len(passed) + 1
    BY <1>0, <1>4, ShapeFacts
  <1>9. Shape'
    <2>1. \A d \in Callers : call'[d].now <= clock'
      BY <1>0, <1>1, <1>2, ShapeFacts
    <2>2. /\ disturbed' \in Int /\ disturbed' <= clock'
          /\ up' \in BOOLEAN /\ asked' \in Nat
          /\ expires' = Never \/ expires' \in Nat
          /\ clock' \in Nat /\ clock <= clock' /\ clock' <= MaxTime
      BY <1>0, <1>1, <1>5, ShapeFacts
    <2>3. ASSUME NEW i \in DOMAIN passed'
          PROVE  passed'[i].arrival <= passed'[i].added /\ passed'[i].added <= clock'
      BY <1>0, <1>1, <1>3, <1>4, <1>8, ShapeFacts
    <2> QED
      BY <1>0, <1>2, <1>4, <1>5, <2>1, <2>2, <2>3, NewShape
  <1>10. ExpiryIsLate'
    <2>1. CASE expires' = Never
      BY <2>1 DEF ExpiryIsLate
    <2>2. CASE expires' = expires
      <3>1. ASSUME expires # Never, NEW e \in Edges, e >= expires - Window
            PROVE  Cardinality(Passed(e)') <= Cardinality(Stage("expire")')
        <4>1. Cardinality(Passed(e)) <= Cardinality(Stage("expire"))
          BY <1>1, <3>1 DEF IInv, ExpiryIsLate
        <4>2. e \in Int
          BY <1>3, <3>1
        <4>3. /\ Cardinality(Passed(e)) \in Nat
              /\ Cardinality(Passed(e)') = Cardinality(Passed(e)) + (IF call[c].now > e THEN 1 ELSE 0)
          BY <1>4, <1>6, <4>2
        <4> QED
          BY <1>7, <4>1, <4>3
      <3> QED
        BY <2>2, <3>1 DEF ExpiryIsLate
    <2> QED
      BY <1>5, <2>1, <2>2
  <1>11. NoneInvented'
    <2>1. ASSUME NEW e \in Edges PROVE Cardinality(Kept(e)') <= Cardinality(Passed(e)')
      <3>1. Cardinality(Kept(e)) <= Cardinality(Passed(e))
        BY DEF IInv, NoneInvented
      <3>2. e \in Int
        BY <1>3
      <3>3. /\ Cardinality(Passed(e)) \in Nat /\ Cardinality(Kept(e)) \in Nat
            /\ Cardinality(Passed(e)') = Cardinality(Passed(e)) + (IF call[c].now > e THEN 1 ELSE 0)
            /\ Cardinality(Kept(e)')
                 = (IF IsExpired THEN 0 ELSE Cardinality(Kept(e))) + (IF call[c].now > e THEN 1 ELSE 0)
        BY <1>4, <1>5, <1>6, <3>2
      <3> QED
        BY <3>1, <3>3
    <2> QED
      BY <2>1 DEF NoneInvented
  <1>12. FewForgotten'
    <2>1. ASSUME NEW e \in Edges, e >= clock - Window
          PROVE  Cardinality(Passed(e)') <= Cardinality(Kept(e)') + Others
      <3>1. Cardinality(Passed(e)) <= Cardinality(Kept(e)) + Others
        BY <1>1, <2>1 DEF IInv, FewForgotten
      <3>2. IsExpired => Cardinality(Passed(e)) <= Others
        BY <1>1, <1>2, <2>1, ExpiredForgetsFew
      <3>3. e \in Int
        BY <1>3
      <3>4. /\ Cardinality(Passed(e)) \in Nat /\ Cardinality(Kept(e)) \in Nat
            /\ Cardinality(Passed(e)') = Cardinality(Passed(e)) + (IF call[c].now > e THEN 1 ELSE 0)
            /\ Cardinality(Kept(e)')
                 = (IF IsExpired THEN 0 ELSE Cardinality(Kept(e))) + (IF call[c].now > e THEN 1 ELSE 0)
        BY <1>4, <1>5, <1>6, <3>3
      <3> QED
        BY <1>3, <3>1, <3>2, <3>4
    <2> QED
      BY <1>1, <2>1 DEF FewForgotten
  <1>13. NoneForgotten'
    <2>1. ASSUME NEW e \in Edges, e >= clock - Window, e >= disturbed, Cardinality(InProgress) <= 1
          PROVE  Cardinality(Passed(e)') <= Cardinality(Kept(e)')
      <3>1. Cardinality(Passed(e)) <= Cardinality(Kept(e))
        BY <1>1, <2>1 DEF IInv, NoneForgotten
      <3>2. IsExpired => Cardinality(Passed(e)) = 0
        BY <1>1, <1>2, <2>1, ExpiredForgetsFew
      <3>3. e \in Int
        BY <1>3
      <3>4. /\ Cardinality(Passed(e)) \in Nat /\ Cardinality(Kept(e)) \in Nat
            /\ Cardinality(Passed(e)') = Cardinality(Passed(e)) + (IF call[c].now > e THEN 1 ELSE 0)
            /\ Cardinality(Kept(e)')
                 = (IF IsExpired THEN 0 ELSE Cardinality(Kept(e))) + (IF call[c].now > e THEN 1 ELSE 0)
        BY <1>4, <1>5, <1>6, <3>3
      <3> QED
        BY <3>1, <3>2, <3>4
    <2> QED
      BY <1>1, <1>2, <2>1 DEF NoneForgotten
  <1>14. PICK e \in Int : e = clock - Window
    BY <1>3
  <1>15. /\ Cardinality(Passed(e)') + Cardinality(Stage("add")') <= MaxHits + 2 * Others
         /\ Cardinality(Passed(e)') <= MaxHits + 2 * Others
    <2>1. Cardinality(Passed(e)) + Cardinality(Stage("add")) <= MaxHits + 2 * Others
      BY <1>14 DEF IInv, FewAhead
    <2>2. Cardinality(Stage("add")) >= 1
      <3>1. Cardinality(Stage("add")) # 0
        BY <1>2, <1>7, Some, FS_EmptySet
      <3> QED
        BY <1>7, <3>1
    <2>3. Cardinality(Passed(e)') \in Nat /\ Cardinality(Passed(e)') <= Cardinality(Passed(e)) + 1
      <3>1. Cardinality(Passed(e)') = Cardinality(Passed(e)) + (IF call[c].now > e THEN 1 ELSE 0)
        BY <1>4
      <3>2. Cardinality(Passed(e)) \in Nat
        BY <1>6
      <3> QED
        BY <3>1, <3>2
    <2>4. PICK m \in Nat : m = MaxHits + 2 * Others
      BY <1>3
    <2>5. Cardinality(Passed(e)) + Cardinality(Stage("add")) <= m /\ Cardinality(Passed(e)) \in Nat
      BY <1>6, <2>1, <2>4
    <2>6. Cardinality(Passed(e)') + Cardinality(Stage("add")') <= m /\ Cardinality(Passed(e)') <= m
      BY <1>7, <2>2, <2>3, <2>5
    <2> QED
      BY <2>4, <2>6
  <1>16. FewAhead'
    <2>1. Passed(clock - Window)' = Passed(e)'
      BY <1>1, <1>14 DEF Passed
    <2> QED
      BY <1>15, <2>1 DEF FewAhead
  <1>17. CountedRight'
    <2>1. ASSUME NEW d \in Callers, At(d, "count")'
          PROVE  Len(data)' <= Cardinality(Added(call[d].now - Window))'
      <3>1. d # c /\ call'[d].now = call[d].now /\ At(d, "count")
        BY <1>1, <1>2, <2>1 DEF At
      <3>2. PICK f \in Int : f = call[d].now - Window /\ clock > f
        <4>1. call[d].now \in Nat /\ call[d].now <= clock
          BY <1>0, ShapeFacts
        <4>2. call[d].now - Window \in Int /\ clock > call[d].now - Window
          BY <1>3, <4>1
        <4> QED
          BY <4>2
      <3>3. Len(data) <= Cardinality(Added(f))
        BY <3>1, <3>2 DEF IInv, CountedRight
      <3>4. Len(data') <= Cardinality(Added(f)')
        <4>1. Cardinality(Added(f)') = Cardinality(Added(f)) + 1 /\ Cardinality(Added(f)) \in Nat
          BY <1>4, <1>6, <3>2
        <4> QED
          BY <1>3, <1>5, <3>3, <4>1
      <3>5. Added(call[d].now - Window)' = Added(f)'
        BY <3>1, <3>2 DEF Added
      <3> QED
        BY <3>4, <3>5
    <2> QED
      BY <2>1 DEF CountedRight
  <1>18. PromisesKept'
    <2>1. ASSUME NEW d \in Callers, Undisturbed(d)'
          PROVE  /\ \A i \in DOMAIN passed' : passed'[i].arrival <= call'[d].now
                 /\ ~ At(d, "count")' /\ ~ At(d, "add")'
      <3>1. d = c /\ Undisturbed(c)
        BY <1>1, <1>2, <2>1 DEF Undisturbed
      <3>2. \A i \in DOMAIN passed : passed[i].arrival <= call[c].now
        BY <3>1 DEF PromisesKept, IInv
      <3>3. \A i \in DOMAIN passed' : passed'[i].arrival <= call'[d].now
        BY <1>2, <1>3, <1>4, <1>8, <3>1, <3>2
      <3> QED
        BY <1>2, <3>1, <3>3 DEF At
    <2> QED
      BY <2>1 DEF PromisesKept
  \* What the Windows that ended before now held is not touched any more.
  <1>19. OvershootBounded'
    <2>1. ASSUME NEW t \in 0 .. clock
          PROVE  Cardinality({i \in DOMAIN passed' : t - Window < passed'[i].arrival /\ passed'[i].added <= t})
                   <= MaxHits + 2 * Others
      <3>1. CASE t < clock
        <4>1. Cardinality({i \in DOMAIN passed : t - Window < passed[i].arrival /\ passed[i].added <= t})
                <= MaxHits + 2 * Others
          BY DEF OvershootBounded, IInv, Others
        <4>2. \A i \in DOMAIN passed' : passed'[i].added <= t => i \in DOMAIN passed
          BY <1>3, <1>4, <1>8, <3>1
        <4>3. DOMAIN passed \subseteq DOMAIN passed'
          BY <1>0, <1>4, ShapeFacts
        <4>4. {i \in DOMAIN passed' : t - Window < passed'[i].arrival /\ passed'[i].added <= t}
                = {i \in DOMAIN passed : t - Window < passed[i].arrival /\ passed[i].added <= t}
          BY <1>4, <4>2, <4>3
        <4> QED
          BY <4>1, <4>4
      <3>2. CASE t = clock
        <4>1. PICK p \in Seq(Entries) : p = passed'
          BY <1>4
        <4>2. Passed(e)' = Later(p, e)
          BY <4>1 DEF Passed, Later
        <4>3. t \in Nat /\ t - Window = e
          BY <1>3, <1>14, <3>2
        <4>4. Cardinality(Later(p, t - Window)) <= MaxHits + 2 * Others
          BY <1>15, <4>2, <4>3
        <4>5. Cardinality({i \in DOMAIN p : t - Window < p[i].arrival /\ p[i].added <= t})
                <= MaxHits + 2 * Others
          BY <4>3, <4>4, OvershootNow
        <4> QED
          BY <4>1, <4>5
      <3> QED
        BY <1>3, <3>1, <3>2
    <2> QED
      BY <1>1, <2>1 DEF OvershootBounded, Others
  <1> QED
    BY <1>9, <1>10, <1>11, <1>12, <1>13, <1>16, <1>17, <1>18, <1>19 DEF Shape, IInv

LEMMA InitIInv == Init => IInv
  <1> SUFFICES ASSUME Init PROVE IInv
    OBVIOUS
  <1>1. /\ clock = 0 /\ data = << >> /\ expires = Never /\ call = [c \in Callers |-> NoCall]
        /\ up = TRUE /\ asked = 0 /\ passed = << >> /\ disturbed = -Window
    BY DEF Init
  <1>2. /\ MaxHits \in Nat /\ Window \in Nat /\ Window >= 1 /\ MaxTime \in Nat /\ Others \in Nat
        /\ Edges \subseteq Int
    BY Numbers
  <1>3. \A c \in Callers : call[c].at = "idle" /\ call[c].now = 0
    BY <1>1 DEF NoCall
  <1>4. Len(<< >>) = 0 /\ DOMAIN << >> = {} /\ 1 .. 0 - 1 = {}
    OBVIOUS
  <1>5. /\ \A e \in Int : Passed(e) = {} /\ Kept(e) = {}
        /\ Stage("add") = {} /\ InProgress = {}
    BY <1>1, <1>3, <1>4 DEF Passed, Kept, Stage, InProgress
  <1>6. Cardinality({}) = 0
    BY FS_EmptySet
  <1>7. TypeOK
    <2>1. NoCall \in [at : {"idle", "remove", "count", "add", "expire"}, now : Nat]
      BY DEF NoCall
    <2>2. Ascending(data) /\ data \in Seq(Nat) /\ passed \in Seq([arrival : Nat, added : Nat])
      BY <1>1, <1>4 DEF Ascending
    <2> QED
      BY <1>1, <1>2, <2>1, <2>2 DEF TypeOK
  <1>8. InThePast
    BY <1>1, <1>2, <1>3, <1>4 DEF InThePast
  <1>9. ExpiryIsLate
    BY <1>1 DEF ExpiryIsLate
  <1>10. NoneInvented /\ FewForgotten /\ NoneForgotten
    <2>1. \A e \in Edges : Cardinality(Passed(e)) = 0 /\ Cardinality(Kept(e)) = 0
      BY <1>2, <1>5, <1>6
    <2> QED
      BY <1>2, <2>1 DEF NoneInvented, FewForgotten, NoneForgotten
  <1>15. 0 <= MaxHits + 2 * Others
    BY <1>2
  <1>11. FewAhead
    <2>1. PICK e \in Int : e = clock - Window
      BY <1>1, <1>2
    <2>2. Cardinality(Passed(e)) + Cardinality(Stage("add")) = 0
      BY <1>5, <1>6
    <2> QED
      BY <1>15, <2>1, <2>2 DEF FewAhead
  <1>12. CountedRight
    BY <1>3 DEF CountedRight, At
  <1>13. PromisesKept
    BY <1>5 DEF PromisesKept, Undisturbed
  <1>14. OvershootBounded
    <2>1. ASSUME NEW t \in 0 .. clock
          PROVE  Cardinality({i \in DOMAIN passed : t - Window < passed[i].arrival /\ passed[i].added <= t})
                   <= MaxHits + 2 * Others
      <3>1. {i \in DOMAIN passed : t - Window < passed[i].arrival /\ passed[i].added <= t} = {}
        BY <1>1, <1>4
      <3> QED
        BY <1>6, <1>15, <3>1
    <2> QED
      BY <2>1 DEF OvershootBounded, Others
  <1> QED
    BY <1>7, <1>8, <1>9, <1>10, <1>11, <1>12, <1>13, <1>14 DEF IInv

LEMMA StutterKeeps ==
  ASSUME IInv, UNCHANGED vars
  PROVE  IInv'
  <1>1. /\ clock' = clock /\ data' = data /\ expires' = expires /\ call' = call /\ up' = up
        /\ asked' = asked /\ passed' = passed /\ disturbed' = disturbed
    BY DEF vars
  <1> USE <1>1 DEF IInv
  <1>2. TypeOK' /\ InThePast'
    BY DEF TypeOK, InThePast, Ascending
  <1>3. InProgress' = InProgress /\ Stage("add")' = Stage("add") /\ Stage("expire")' = Stage("expire")
    BY DEF InProgress, Stage
  <1>4. Shape /\ Edges \subseteq Int
    BY Numbers DEF Shape
  <1>5. \A e \in Int : Kept(e)' = Kept(e) /\ Passed(e)' = Passed(e)
    BY <1>4, SameRecords, SamePassed
  <1>6. ExpiryIsLate' /\ NoneInvented' /\ FewForgotten' /\ NoneForgotten'
    BY <1>3, <1>4, <1>5 DEF ExpiryIsLate, NoneInvented, FewForgotten, NoneForgotten
  <1>7. FewAhead'
    BY <1>3 DEF FewAhead, Passed
  <1>8. CountedRight'
    BY SameCounted
  <1>9. PromisesKept'
    BY <1>3 DEF PromisesKept, Undisturbed, Passed, Recent, At
  <1>10. OvershootBounded'
    BY SameOvershoot
  <1> QED
    BY <1>2, <1>6, <1>7, <1>8, <1>9, <1>10

LEMMA NextIInv == IInv /\ [Next]_vars => IInv'
  <1> SUFFICES ASSUME IInv, [Next]_vars PROVE IInv'
    OBVIOUS
  <1>1. CASE Tick
    BY <1>1, TickKeeps
  <1>2. CASE CountsRace
    BY <1>2, RaceKeeps
  <1>3. ASSUME NEW c \in Callers, Handler(c) PROVE IInv'
    <2>1. CASE Arrive(c)
      BY <2>1, ArriveKeeps
    <2>2. CASE RemoveOldRecords(c)
      BY <2>2, RemoveKeeps
    <2>3. CASE CountRecords(c)
      BY <2>3, RefuseKeeps, CountKeeps
    <2>4. CASE AddRecord(c)
      BY <2>4, AddKeeps
    <2>5. CASE ExpireKey(c)
      BY <2>5, ExpireKeeps
    <2> QED
      BY <1>3, <2>1, <2>2, <2>3, <2>4, <2>5 DEF Handler
  <1>4. CASE UNCHANGED vars
    BY <1>4, StutterKeeps
  <1> QED
    BY <1>1, <1>2, <1>3, <1>4 DEF Next

\* Whatever requests overlap, the records and the requests let through stay
\* as the inductive invariant says.
THEOREM Inductive == Spec => []IInv
  BY InitIInv, NextIInv, PTL DEF Spec

\* AddRecord's binary search and shift keep the records of a key in order,
\* in whatever order the requests reach it, and so does the purge.
THEOREM TypeCorrect == Spec => []TypeOK
  <1>1. IInv => TypeOK
    BY DEF IInv
  <1> QED
    BY <1>1, Inductive, PTL

\* Between CountRecords and AddRecord, and between AddRecord and ExpireKey,
\* other requests run; still, in any one Window no more than two requests
\* beyond the limit are let through for each other caller.
THEOREM OvershootSafe == Spec => []OvershootBounded
  <1>1. IInv => OvershootBounded
    BY DEF IInv
  <1> QED
    BY <1>1, Inductive, PTL

-----------------------------------------------------------------------------
(* The refusals. *)

LEMMA RefusedFull ==
  ASSUME IInv, NEW c \in Callers, CountRecords(c), TooMany(Counted)
  PROVE  At(c, "count") /\ Len(data) >= MaxHits /\ Len(data) \in Nat
  <1>1. At(c, "count")
    BY DEF CountRecords
  <1>2. MaxHits \in Nat /\ MaxHits >= 1 /\ Len(data) \in Nat
    BY Numbers, ShapeFacts DEF IInv, Shape
  <1> QED
    BY <1>1, <1>2 DEF TooMany, Counted

\* Only CountRecords takes a request that is counting back to idle, unless
\* the process ends.
LEMMA RefusedByCount ==
  ASSUME IInv, Next, NEW c \in Callers, At(c, "count"), up', call'[c].at = "idle"
  PROVE  CountRecords(c) /\ TooMany(Counted)
  <1>0. Shape
    BY DEF IInv, Shape
  <1>1. call[c].at = "count"
    BY DEF At
  <1>2. ~ Tick /\ ~ CountsRace
    BY <1>1 DEF Tick, CountsRace
  <1>3. PICK d \in Callers : Handler(d)
    BY <1>2 DEF Next
  <1>4. ASSUME d # c PROVE call'[c] = call[c]
    <2>1. call \in Calls
      BY <1>0, ShapeFacts
    <2> QED
      BY <1>3, <1>4, <2>1 DEF Handler, Arrive, RemoveOldRecords, CountRecords, AddRecord, ExpireKey,
                              Goes, Ends, Calls
  <1>5. d = c
    BY <1>1, <1>4
  <1>6. CountRecords(c)
    BY <1>1, <1>3, <1>5 DEF Handler, Arrive, RemoveOldRecords, AddRecord, ExpireKey, At
  <1>7. ASSUME Goes(c, "add") PROVE FALSE
    <2>1. "count" \in Places \ {"idle"} /\ "add" \in Places \ {"idle"}
      BY DEF Places
    <2>2. call'[c].at = "add"
      BY <1>0, <1>1, <1>7, <2>1, GoesMoves
    <2> QED
      BY <2>2
  <1> QED
    BY <1>6, <1>7 DEF CountRecords

\* However requests overlap, a refusal means that as many records as the
\* limit allows were added less than a Window before the request arrived,
\* or since: neither a purge nor an expiry makes CountRecords count too much.
THEOREM RefusalsJustified == Spec => RefusedForAReason
  <1>1. ASSUME IInv, [Next]_vars
        PROVE  [\A c \in Callers :
                  At(c, "count") /\ up' /\ call'[c].at = "idle"
                    => Cardinality({i \in DOMAIN passed : passed[i].added > call[c].now - Window})
                         >= MaxHits]_vars
    <2> SUFFICES ASSUME Next, NEW c \in Callers, At(c, "count"), up', call'[c].at = "idle"
                 PROVE  Cardinality({i \in DOMAIN passed : passed[i].added > call[c].now - Window})
                          >= MaxHits
      BY <1>1
    <2>1. CountRecords(c) /\ TooMany(Counted)
      BY <1>1, RefusedByCount
    <2>2. Len(data) >= MaxHits /\ Len(data) \in Nat
      BY <1>1, <2>1, RefusedFull
    <2>3. PICK e \in Int : e = call[c].now - Window
      BY <1>1, ShapeFacts, Numbers DEF IInv, Shape
    <2>4. Len(data) <= Cardinality(Added(e)) /\ Cardinality(Added(e)) \in Nat
      BY <1>1, <2>3, CountsTyped DEF IInv, CountedRight
    <2>5. Cardinality(Added(e)) >= MaxHits
      BY <2>2, <2>4, Numbers
    <2> QED
      BY <2>3, <2>5 DEF Added
  <1> QED
    BY <1>1, Inductive, PTL DEF Spec, RefusedForAReason

-----------------------------------------------------------------------------
(* The refinement of SlidingWindow, action by action. *)

HitsOf == [i \in DOMAIN passed |-> passed[i].arrival]
RequestOf == [c \in Callers |-> Request(c)]

\* SlidingWindow brings its own copy of FiniteSets.
LEMMA SameCardinality == \A S : W!Cardinality(S) = Cardinality(S)
  BY DEF W!Cardinality, Cardinality

LEMMA PromisedMeans ==
  /\ W!InProgress = InProgress
  /\ \A c \in Callers : W!Promised(c) <=> Undisturbed(c)
  /\ \A t \in Int : W!HitsWithin(t) = Cardinality(Recent(t))
  <1>1. \A c \in Callers : RequestOf[c].at # "idle" <=> call[c].at # "idle"
    BY DEF RequestOf, Request
  <1>2. \A c \in Callers : RequestOf[c].arrival = call[c].now
    BY DEF RequestOf, Request
  <1>3. W!InProgress = InProgress
    BY <1>1 DEF W!InProgress, InProgress, RequestOf
  <1>4. \A c \in Callers : W!Promised(c) <=> Undisturbed(c)
    BY <1>2, <1>3 DEF W!Promised, Undisturbed, RequestOf
  <1>5. ASSUME NEW t \in Int PROVE W!HitsWithin(t) = Cardinality(Recent(t))
    <2>1. {i \in DOMAIN HitsOf : t - Window < HitsOf[i] /\ HitsOf[i] <= t} = Recent(t)
      BY DEF HitsOf, Recent
    <2> QED
      BY <2>1, SameCardinality DEF W!HitsWithin, HitsOf
  <1> QED
    BY <1>3, <1>4, <1>5

LEMMA RequestChange ==
  ASSUME NEW c \in Callers, \A d \in Callers : d # c => call'[d].at = call[d].at /\ call'[d].now = call[d].now
  PROVE  RequestOf' = [RequestOf EXCEPT ![c] = Request(c)']
  <1>1. \A d \in Callers : d # c => Request(d)' = Request(d)
    BY DEF Request
  <1> QED
    BY <1>1 DEF RequestOf

LEMMA RequestTyped ==
  ASSUME Shape, NEW c \in Callers
  PROVE  /\ RequestOf[c] = Request(c) /\ DOMAIN RequestOf = Callers
         /\ Request(c).arrival = call[c].now
         /\ call[c].at \in {"remove", "count", "add"} => Request(c).at = "asked"
         /\ call[c].at = "expire" => Request(c).at = "answered"
         /\ call[c].at = "idle" => Request(c).at = "idle"
  BY DEF RequestOf, Request

\* A purge, and a count that is not too many, are not seen.
LEMMA StaysAsked ==
  ASSUME Shape, NEW c \in Callers, NEW from \in {"remove", "count"}, NEW to \in {"count", "add"},
         from # to, call[c].at = from, Goes(c, to), passed' = passed
  PROVE  RequestOf' = RequestOf /\ HitsOf' = HitsOf
  <1>1. from \in Places \ {"idle"} /\ to \in Places \ {"idle"}
    BY DEF Places
  <1>2. /\ \A d \in Callers : call'[d].now = call[d].now /\ (d # c => call'[d].at = call[d].at)
        /\ call'[c].at = to
    BY <1>1, GoesMoves
  <1>3. \A d \in Callers : Request(d)' = Request(d)
    BY <1>2 DEF Request
  <1> QED
    BY <1>3 DEF RequestOf, HitsOf

LEMMA InitRefines == Init => W!WindowInit
  <1> SUFFICES ASSUME Init PROVE W!WindowInit
    OBVIOUS
  <1>1. \A c \in Callers : Request(c) = [at |-> "idle", arrival |-> 0]
    BY DEF Init, NoCall, Request
  <1>2. RequestOf = [c \in Callers |-> [at |-> "idle", arrival |-> 0]]
    BY <1>1 DEF RequestOf
  <1>3. HitsOf = << >>
    BY DEF Init, HitsOf
  <1> QED
    BY <1>2, <1>3 DEF Init, W!WindowInit, W!NoRequest, RequestOf, HitsOf

LEMMA ArriveRefines ==
  ASSUME IInv, NEW c \in Callers, Arrive(c)
  PROVE  W!Ask(c)
  <1>0. Shape
    BY DEF IInv, Shape
  <1>1. /\ \A d \in Callers : d # c => call'[d] = call[d]
        /\ call'[c].at = "remove" /\ call'[c].now = clock
    BY <1>0, ArriveMoves
  <1>2. call[c].at = "idle" /\ clock' = clock /\ passed' = passed /\ disturbed' = disturbed
    BY DEF Arrive, At
  <1>3. Request(c)' = [at |-> "asked", arrival |-> clock]
    BY <1>1 DEF Request
  <1>4. RequestOf' = [RequestOf EXCEPT ![c] = [at |-> "asked", arrival |-> clock]]
    BY <1>1, <1>3, RequestChange
  <1>5. RequestOf[c].at = "idle"
    BY <1>0, <1>2, RequestTyped
  <1>6. HitsOf' = HitsOf
    BY <1>2 DEF HitsOf
  <1> QED
    BY <1>2, <1>4, <1>5, <1>6 DEF W!Ask, RequestOf, HitsOf

LEMMA AddRefines ==
  ASSUME IInv, NEW c \in Callers, AddRecord(c)
  PROVE  W!Admit(c)
  <1>0. Shape
    BY DEF IInv, Shape
  <1>1. /\ up /\ call[c].at = "add" /\ At(c, "add") /\ Goes(c, "expire")
        /\ "add" \in Places \ {"idle"} /\ "expire" \in Places \ {"idle"}
        /\ clock' = clock /\ disturbed' = disturbed
        /\ passed' = Append(passed, [arrival |-> call[c].now, added |-> clock])
    BY DEF AddRecord, At, Places
  <1>2. /\ \A d \in Callers : call'[d].now = call[d].now /\ (d # c => call'[d].at = call[d].at)
        /\ call'[c].at = "expire"
    BY <1>0, <1>1, GoesMoves
  <1>3. RequestOf[c].at = "asked" /\ RequestOf[c].arrival = call[c].now
    BY <1>0, <1>1, RequestTyped
  <1>4. RequestOf' = [RequestOf EXCEPT ![c].at = "answered"]
    <2>1. Request(c)' = [at |-> "answered", arrival |-> call[c].now]
      BY <1>2 DEF Request
    <2>2. Request(c) = [at |-> "asked", arrival |-> call[c].now]
      BY <1>1 DEF Request
    <2>3. [Request(c) EXCEPT !.at = "answered"] = Request(c)'
      BY <2>1, <2>2
    <2>4. RequestOf' = [RequestOf EXCEPT ![c] = Request(c)']
      BY <1>2, RequestChange
    <2> QED
      BY <2>3, <2>4 DEF RequestOf
  <1>5. HitsOf' = Append(HitsOf, RequestOf[c].arrival)
    <2>1. PICK a \in Nat : a = call[c].now
      BY <1>0, ShapeFacts
    <2>2. /\ passed' \in Seq(Entries) /\ DOMAIN passed' = 1 .. Len(passed) + 1
          /\ \A i \in DOMAIN passed : passed'[i] = passed[i]
          /\ passed'[Len(passed) + 1].arrival = a
      BY <1>0, <1>1, <2>1, OneMorePassed
    <2>3. DOMAIN passed = 1 .. Len(passed) /\ Len(passed) \in Nat
          /\ \A i \in DOMAIN passed : passed[i].arrival \in Nat
      BY <1>0, ShapeFacts
    <2>4. HitsOf = [i \in 1 .. Len(passed) |-> passed[i].arrival]
      BY <2>3 DEF HitsOf
    <2>5. HitsOf \in Seq(Nat) /\ Len(HitsOf) = Len(passed)
      BY <2>3, <2>4
    <2>6. PICK h \in Seq(Nat) : h = HitsOf
      BY <2>5
    <2>7. /\ Append(h, a) \in Seq(Nat)
          /\ Len(Append(h, a)) = Len(passed) + 1
          /\ \A i \in 1 .. Len(passed) : Append(h, a)[i] = h[i]
          /\ Append(h, a)[Len(passed) + 1] = a
      BY <2>5, <2>6, AppendProperties
    <2>9. HitsOf' = [i \in 1 .. Len(passed) + 1 |-> passed'[i].arrival]
      BY <2>2 DEF HitsOf
    <2>10. ASSUME NEW i \in 1 .. Len(passed) + 1
           PROVE  passed'[i].arrival = Append(h, a)[i]
      <3>1. CASE i \in 1 .. Len(passed)
        BY <2>2, <2>3, <2>4, <2>6, <2>7, <3>1
      <3>2. CASE i = Len(passed) + 1
        BY <2>2, <2>7, <3>2
      <3>3. i \in 1 .. Len(passed) \/ i = Len(passed) + 1
        BY <2>3
      <3> QED
        BY <3>1, <3>2, <3>3, Zenon
    <2>11. Append(h, a) = [i \in 1 .. Len(passed) + 1 |-> Append(h, a)[i]]
      <3>1. PICK q \in Seq(Nat) : q = Append(h, a)
        BY <2>7
      <3>2. q \in [1 .. Len(passed) + 1 -> Nat]
        BY <2>7, <3>1, LenProperties
      <3>3. q = [i \in 1 .. Len(passed) + 1 |-> q[i]]
        BY <3>2
      <3> QED
        BY <3>1, <3>3
    <2>12. HitsOf' = Append(h, a)
      BY <2>9, <2>10, <2>11
    <2> QED
      BY <1>3, <2>1, <2>6, <2>12
  <1>6. W!Promised(c) => \E t \in RequestOf[c].arrival .. clock : W!HitsWithin(t) < MaxHits
    <2>1. SUFFICES ASSUME Undisturbed(c)
                   PROVE  \E t \in RequestOf[c].arrival .. clock : W!HitsWithin(t) < MaxHits
      BY PromisedMeans
    <2>2. PICK t \in call[c].now .. clock : Cardinality(Recent(t)) < MaxHits
      BY <1>1, <2>1 DEF IInv, PromisesKept
    <2>3. t \in Int
      BY <1>0, ShapeFacts
    <2>4. W!HitsWithin(t) < MaxHits
      BY <2>2, <2>3, PromisedMeans
    <2> QED
      BY <1>3, <2>2, <2>4
  <1> QED
    BY <1>1, <1>3, <1>4, <1>5, <1>6 DEF W!Admit, RequestOf, HitsOf

\* What both ways of ending a request come to.
LEMMA EndsRefines ==
  ASSUME Shape, NEW c \in Callers, NEW from \in Places \ {"idle"}, call[c].at = from, Ends(c)
  PROVE  RequestOf' = [RequestOf EXCEPT ![c] = W!NoRequest] /\ W!Disturbs
  <1>1. /\ \A d \in Callers : d # c => call'[d] = call[d]
        /\ call'[c].at = "idle" /\ call'[c].now = 0
        /\ disturbed' = IF Cardinality(InProgress) > 1 THEN clock ELSE disturbed
    BY EndsMoves
  <1>2. Request(c)' = W!NoRequest
    BY <1>1 DEF Request, W!NoRequest
  <1>3. RequestOf' = [RequestOf EXCEPT ![c] = Request(c)']
    BY <1>1, RequestChange
  <1>4. W!Disturbs
    BY <1>1, PromisedMeans, SameCardinality DEF W!Disturbs
  <1> QED
    BY <1>2, <1>3, <1>4

LEMMA ExpireRefines ==
  ASSUME IInv, NEW c \in Callers, ExpireKey(c)
  PROVE  W!Finish(c)
  <1>0. Shape
    BY DEF IInv, Shape
  <1>1. /\ call[c].at = "expire" /\ Ends(c) /\ "expire" \in Places \ {"idle"}
        /\ clock' = clock /\ passed' = passed
    BY DEF ExpireKey, At, Places
  <1>2. RequestOf' = [RequestOf EXCEPT ![c] = W!NoRequest] /\ W!Disturbs
    BY <1>0, <1>1, EndsRefines
  <1>3. RequestOf[c].at = "answered"
    BY <1>0, <1>1, RequestTyped
  <1>4. HitsOf' = HitsOf
    BY <1>1 DEF HitsOf
  <1> QED
    BY <1>1, <1>2, <1>3, <1>4 DEF W!Finish, RequestOf, HitsOf

LEMMA RefuseRefines ==
  ASSUME IInv, NEW c \in Callers, CountRecords(c), TooMany(Counted)
  PROVE  W!Refuse(c)
  <1>0. Shape
    BY DEF IInv, Shape
  <1>1. /\ call[c].at = "count" /\ Ends(c) /\ "count" \in Places \ {"idle"}
        /\ clock' = clock /\ passed' = passed
    BY DEF CountRecords, At, Places
  <1>2. RequestOf' = [RequestOf EXCEPT ![c] = W!NoRequest] /\ W!Disturbs
    BY <1>0, <1>1, EndsRefines
  <1>3. RequestOf[c].at = "asked" /\ RequestOf[c].arrival = call[c].now
    BY <1>0, <1>1, RequestTyped
  <1>4. HitsOf' = HitsOf
    BY <1>1 DEF HitsOf
  \* The moment at which the window is full is that of the arrival.
  <1>5. W!Promised(c) => \E t \in RequestOf[c].arrival .. clock : W!HitsWithin(t) >= MaxHits
    <2>1. SUFFICES ASSUME Undisturbed(c)
                   PROVE  \E t \in RequestOf[c].arrival .. clock : W!HitsWithin(t) >= MaxHits
      BY PromisedMeans
    <2>2. At(c, "count") /\ Len(data) >= MaxHits /\ Len(data) \in Nat
      BY RefusedFull
    <2>3. PICK t \in Nat : t = call[c].now /\ t <= clock
      BY <1>0, ShapeFacts
    <2>4. /\ \A i \in DOMAIN passed : passed[i].arrival <= t
          /\ Len(data) <= Cardinality(Passed(t - Window))
      BY <2>1, <2>2, <2>3 DEF IInv, PromisesKept
    <2>5. t - Window \in Int /\ MaxHits \in Nat /\ clock \in Nat
      BY <1>0, Numbers, ShapeFacts
    <2>6. Cardinality(Passed(t - Window)) \in Nat
      BY <2>5, CountsTyped DEF IInv
    <2>7. Recent(t) = Passed(t - Window)
      <3>1. \A i \in DOMAIN passed : passed[i].arrival \in Nat
        BY <1>0, ShapeFacts
      <3> QED
        BY <2>4, <2>5, <3>1 DEF Recent, Passed
    <2>8. Cardinality(Recent(t)) >= MaxHits
      BY <2>2, <2>4, <2>5, <2>6, <2>7
    <2>9. W!HitsWithin(t) >= MaxHits
      BY <2>8, PromisedMeans
    <2>10. t \in RequestOf[c].arrival .. clock
      BY <1>3, <2>3, <2>5
    <2> QED
      BY <2>9, <2>10
  <1> QED
    BY <1>1, <1>2, <1>3, <1>4, <1>5 DEF W!Refuse, RequestOf, HitsOf

LEMMA NextRefines == IInv /\ [Next]_vars => [W!WindowNext]_(W!absVars)
  <1> SUFFICES ASSUME IInv, [Next]_vars PROVE [W!WindowNext]_(W!absVars)
    OBVIOUS
  <1>0. Shape
    BY DEF IInv, Shape
  <1>1. CASE Tick
    <2>1. clock' = clock + 1 /\ passed' = passed /\ call' = call /\ disturbed' = disturbed
      BY <1>1 DEF Tick
    <2>2. HitsOf' = HitsOf /\ RequestOf' = RequestOf
      BY <2>1 DEF HitsOf, RequestOf, Request
    <2> QED
      BY <2>1, <2>2 DEF W!WindowNext, W!Advance, HitsOf, RequestOf
  <1>2. CASE CountsRace
    <2>1. /\ clock' = clock /\ passed' = passed /\ disturbed' = disturbed
          /\ \A c \in Callers : call'[c].at = "idle" /\ call'[c].now = 0
      BY <1>2 DEF CountsRace, NoCall
    <2>2. HitsOf' = HitsOf
      BY <2>1 DEF HitsOf
    <2>3. \A c \in Callers : Request(c)' = W!NoRequest
      BY <2>1 DEF Request, W!NoRequest
    <2>4. RequestOf' = [c \in Callers |-> W!NoRequest]
      BY <2>3 DEF RequestOf
    <2> QED
      BY <2>1, <2>2, <2>4 DEF W!WindowNext, W!Die, HitsOf, RequestOf
  <1>3. ASSUME clock' = clock, disturbed' = disturbed, RequestOf' = RequestOf, HitsOf' = HitsOf
        PROVE  UNCHANGED W!absVars
    BY <1>3 DEF W!absVars, RequestOf, HitsOf
  <1>4. ASSUME NEW c \in Callers, Handler(c) PROVE [W!WindowNext]_(W!absVars)
    <2>1. CASE Arrive(c)
      BY <2>1, ArriveRefines DEF W!WindowNext
    <2>2. CASE RemoveOldRecords(c)
      <3>1. call[c].at = "remove" /\ Goes(c, "count") /\ passed' = passed
            /\ clock' = clock /\ disturbed' = disturbed
        BY <2>2 DEF RemoveOldRecords, At
      <3>2. RequestOf' = RequestOf /\ HitsOf' = HitsOf
        BY <1>0, <3>1, StaysAsked
      <3> QED
        BY <1>3, <3>1, <3>2
    <2>3. CASE CountRecords(c) /\ TooMany(Counted)
      BY <2>3, RefuseRefines DEF W!WindowNext
    <2>4. CASE CountRecords(c) /\ ~ TooMany(Counted)
      <3>1. call[c].at = "count" /\ Goes(c, "add") /\ passed' = passed
            /\ clock' = clock /\ disturbed' = disturbed
        BY <2>4 DEF CountRecords, At
      <3>2. RequestOf' = RequestOf /\ HitsOf' = HitsOf
        BY <1>0, <3>1, StaysAsked
      <3> QED
        BY <1>3, <3>1, <3>2
    <2>5. CASE AddRecord(c)
      BY <2>5, AddRefines DEF W!WindowNext
    <2>6. CASE ExpireKey(c)
      BY <2>6, ExpireRefines DEF W!WindowNext
    <2> QED
      BY <1>4, <2>1, <2>2, <2>3, <2>4, <2>5, <2>6 DEF Handler
  <1>5. CASE UNCHANGED vars
    <2>1. clock' = clock /\ passed' = passed /\ call' = call /\ disturbed' = disturbed
      BY <1>5 DEF vars
    <2>2. HitsOf' = HitsOf /\ RequestOf' = RequestOf
      BY <2>1 DEF HitsOf, RequestOf, Request
    <2> QED
      BY <1>3, <2>1, <2>2
  <1> QED
    BY <1>1, <1>2, <1>4, <1>5 DEF Next

\* The middleware over the repository is a sliding window: it lets through
\* and refuses as SlidingWindow says, exactly when requests come one by one
\* and from one Window after the last overlap, and dies only as it may.
THEOREM WindowImplemented == Spec => ImplementsWindow
  BY InitRefines, NextRefines, Inductive, PTL DEF Spec, ImplementsWindow, W!WindowSpec
=============================================================================
