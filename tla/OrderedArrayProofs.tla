------------------------- MODULE OrderedArrayProofs -------------------------
(***************************************************************************)
(* What the ordered array's operations do to any array, in any order: the  *)
(* lemmas the heap's proofs rest on.                                       *)
(***************************************************************************)
EXTENDS OrderedArray, TLAPS, SequenceTheorems, WellFoundedInduction, FiniteSetTheorems

LEMMA LessOnNat == OpToRel(<, Nat) = {p \in Nat \X Nat : p[1] < p[2]}
BY DEF OpToRel

\* The least number principle, for the searches that stop at the first hit.
LEMMA LeastNumber ==
    ASSUME NEW T \in SUBSET Nat, T # {}
    PROVE  \E x \in T : \A y \in T : x <= y
<1> DEFINE Less == OpToRel(<, Nat)
<1>1. IsWellFoundedOn(Less, Nat)
    BY NatLessThanWellFounded
<1>2. Less = {p \in Nat \X Nat : p[1] < p[2]}
    BY LessOnNat
<1> HIDE DEF Less
<1>3. PICK x \in T : \A y \in T : ~(<<y, x>> \in Less)
    BY <1>1, WFMin
<1>4. ASSUME NEW y \in T PROVE x <= y
  <2>1. x \in Nat /\ y \in Nat
      OBVIOUS
  <2>2. ~(<<y, x>> \in Less)
      BY <1>3
  <2>3. ~(y < x)
      BY <1>2, <2>1, <2>2
  <2> QED
      BY <2>1, <2>3
<1> QED
    BY <1>4

\* A bounded set of numbers that has a member has a greatest one.
LEMMA GreatestNumber ==
    ASSUME NEW T \in SUBSET Nat, T # {}, NEW n \in Nat, \A y \in T : y <= n
    PROVE  \E x \in T : \A y \in T : y <= x
<1> DEFINE D == {k \in Nat : n - k \in T}
<1>1. D # {}
  <2>1. PICK y \in T : TRUE
      OBVIOUS
  <2>2. n - y \in D
      BY <2>1
  <2> QED
      BY <2>2
<1>2. PICK d \in D : \A k \in D : d <= k
    BY <1>1, LeastNumber
<1>3. ASSUME NEW y \in T PROVE y <= n - d
  <2>1. y \in Nat /\ y <= n /\ n - y \in Nat /\ n - (n - y) = y
      OBVIOUS
  <2>2. n - y \in D
      BY <2>1
  <2>3. d <= n - y /\ d \in Nat
      BY <1>2, <2>2
  <2> QED
      BY <2>1, <2>3
<1> QED
    BY <1>2, <1>3

\* A search from the front ends at the first hit, or one past the end.
LEMMA FirstHit ==
    ASSUME NEW n \in Nat, NEW P, P \subseteq 1 .. n
    PROVE  \E i \in 1 .. n + 1 : /\ \A k \in 1 .. i - 1 : k \notin P
                                 /\ i <= n => i \in P
<1> DEFINE T == P \cup {n + 1}
<1>1. PICK i \in T : \A y \in T : i <= y
    BY LeastNumber
<1> QED
    BY <1>1

Items(array) == {array[k] : k \in DOMAIN array}
Injective(array) == \A j, k \in DOMAIN array : array[j] = array[k] => j = k

LEMMA SeqFacts ==
    ASSUME NEW s \in Seq(Nat)
    PROVE  /\ Len(s) \in Nat /\ DOMAIN s = 1 .. Len(s)
           /\ \A k \in 1 .. Len(s) : s[k] \in Nat
BY LenProperties, ElementOfSeq

\* t is s with e put in at position i.
Inserted(t, s, i, e) ==
    /\ t \in Seq(Nat) /\ Len(t) = Len(s) + 1
    /\ \A k \in 1 .. Len(s) + 1 :
          t[k] = IF k < i THEN s[k] ELSE IF k = i THEN e ELSE s[k - 1]

LEMMA InsertAtFacts ==
    ASSUME NEW s \in Seq(Nat), NEW e \in Nat, NEW i \in 1 .. Len(s) + 1
    PROVE  Inserted(InsertAt(s, i, e), s, i, e)
<1> DEFINE a == SubSeq(s, 1, i - 1)
           b == SubSeq(s, i, Len(s))
<1>1. Len(s) \in Nat /\ \A k \in 1 .. Len(s) : s[k] \in Nat
    BY SeqFacts
<1>2. /\ a \in Seq(Nat) /\ Len(a) = i - 1
      /\ \A k \in 1 .. i - 1 : a[k] = s[k]
  <2>1. \A k \in 1 .. i - 1 : s[k] \in Nat
      BY <1>1
  <2>2. /\ a \in Seq(Nat)
        /\ Len(a) = IF 1 <= i - 1 THEN i - 1 - 1 + 1 ELSE 0
        /\ \A k \in 1 .. i - 1 - 1 + 1 : a[k] = s[1 + k - 1]
      BY <1>1, <2>1, SubSeqProperties
  <2> QED
      BY <2>2, <1>1
<1>3. /\ b \in Seq(Nat) /\ Len(b) = Len(s) - i + 1
      /\ \A k \in 1 .. Len(s) - i + 1 : b[k] = s[i + k - 1]
  <2>1. \A k \in i .. Len(s) : s[k] \in Nat
      BY <1>1
  <2>2. /\ b \in Seq(Nat)
        /\ Len(b) = IF i <= Len(s) THEN Len(s) - i + 1 ELSE 0
        /\ \A k \in 1 .. Len(s) - i + 1 : b[k] = s[i + k - 1]
      BY SMTT(30), <1>1, <2>1, SubSeqProperties
  <2> QED
      BY <2>2, <1>1
<1> HIDE DEF a, b
<1>4. /\ <<e>> \in Seq(Nat) /\ Len(<<e>>) = 1 /\ <<e>>[1] = e
    OBVIOUS
<1>5. /\ a \o <<e>> \in Seq(Nat) /\ Len(a \o <<e>>) = i
      /\ \A k \in 1 .. i : (a \o <<e>>)[k] = IF k < i THEN s[k] ELSE e
    BY <1>1, <1>2, <1>4, ConcatProperties
<1> DEFINE c == a \o <<e>>
<1> HIDE DEF c
<1>6. /\ c \in Seq(Nat) /\ Len(c) = i
      /\ \A k \in 1 .. i : c[k] = IF k < i THEN s[k] ELSE e
    BY <1>5 DEF c
<1> DEFINE d == c \o b
           n == Len(s)
<1>7. /\ d \in Seq(Nat) /\ Len(d) = Len(c) + Len(b)
      /\ \A k \in 1 .. Len(c) + Len(b) : d[k] =
            IF k <= Len(c) THEN c[k] ELSE b[k - Len(c)]
    BY <1>3, <1>6, ConcatProperties
<1>9. InsertAt(s, i, e) = d
    BY DEF InsertAt, a, b, c
<1> HIDE DEF d
<1>10. /\ n \in Nat /\ i \in 1 .. n + 1 /\ Len(d) = n + 1
       /\ \A k \in 1 .. n + 1 : d[k] = IF k <= i THEN c[k] ELSE b[k - i]
       /\ \A k \in 1 .. n - i + 1 : b[k] = s[i + k - 1]
    BY <1>1, <1>3, <1>6, <1>7
<1> HIDE DEF n
<1>8. ASSUME NEW k \in 1 .. n + 1
      PROVE  d[k] = IF k < i THEN s[k] ELSE IF k = i THEN e ELSE s[k - 1]
  <2>1. CASE k <= i
      BY <1>6, <1>10, <2>1
  <2>2. CASE k > i
    <3>1. k - i \in 1 .. n - i + 1 /\ i + (k - i) - 1 = k - 1
        BY <2>2, <1>10
    <3>2. b[k - i] = s[k - 1]
        BY <1>10, <3>1
    <3> QED
        BY <1>10, <2>2, <3>2
  <2> QED
      BY <2>1, <2>2, <1>10
<1> QED
    BY <1>7, <1>8, <1>9, <1>10 DEF n, Inserted

LEMMA RemoveAtFacts ==
    ASSUME NEW s \in Seq(Nat), NEW i \in 1 .. Len(s)
    PROVE  /\ RemoveAt(s, i) \in Seq(Nat)
           /\ Len(RemoveAt(s, i)) = Len(s) - 1
           /\ \A k \in 1 .. Len(s) - 1 :
                 RemoveAt(s, i)[k] = IF k < i THEN s[k] ELSE s[k + 1]
<1> DEFINE a == SubSeq(s, 1, i - 1)
           b == SubSeq(s, i + 1, Len(s))
<1>1. Len(s) \in Nat /\ \A k \in 1 .. Len(s) : s[k] \in Nat
    BY SeqFacts
<1>2. /\ a \in Seq(Nat) /\ Len(a) = i - 1
      /\ \A k \in 1 .. i - 1 : a[k] = s[k]
  <2>1. \A k \in 1 .. i - 1 : s[k] \in Nat
      BY <1>1
  <2>2. /\ a \in Seq(Nat)
        /\ Len(a) = IF 1 <= i - 1 THEN i - 1 - 1 + 1 ELSE 0
        /\ \A k \in 1 .. i - 1 - 1 + 1 : a[k] = s[1 + k - 1]
      BY <1>1, <2>1, SubSeqProperties
  <2> QED
      BY <2>2, <1>1
<1>3. /\ b \in Seq(Nat) /\ Len(b) = Len(s) - i
      /\ \A k \in 1 .. Len(s) - i : b[k] = s[i + k]
  <2> DEFINE j == i + 1
             n == Len(s)
  <2>1. j \in Int /\ n \in Int /\ \A k \in j .. n : s[k] \in Nat
      BY <1>1
  <2> HIDE DEF j, n
  <2>2. /\ SubSeq(s, j, n) \in Seq(Nat)
        /\ Len(SubSeq(s, j, n)) = IF j <= n THEN n - j + 1 ELSE 0
        /\ \A k \in 1 .. n - j + 1 : SubSeq(s, j, n)[k] = s[j + k - 1]
      BY <2>1, SubSeqProperties
  <2>3. b = SubSeq(s, j, n)
      BY DEF j, n
  <2> HIDE DEF b
  <2> QED
      BY <1>1, <2>2, <2>3 DEF j, n
<1> HIDE DEF a, b
<1> DEFINE d == a \o b
           n == Len(s)
<1>4. /\ d \in Seq(Nat) /\ Len(d) = Len(a) + Len(b)
      /\ \A k \in 1 .. Len(a) + Len(b) : d[k] =
            IF k <= Len(a) THEN a[k] ELSE b[k - Len(a)]
    BY <1>2, <1>3, ConcatProperties
<1>5. RemoveAt(s, i) = d
    BY DEF RemoveAt, a, b
<1> HIDE DEF d
<1>8. /\ n \in Nat /\ i \in 1 .. n /\ Len(a) = i - 1 /\ Len(b) = n - i
      /\ \A k \in 1 .. n - i : b[k] = s[i + k]
    BY <1>1, <1>2, <1>3
<1> HIDE DEF n
<1>6. /\ n \in Nat /\ i \in 1 .. n /\ Len(d) = n - 1
      /\ \A k \in 1 .. n - 1 : d[k] = IF k < i THEN a[k] ELSE b[k - (i - 1)]
      /\ \A k \in 1 .. n - i : b[k] = s[i + k]
    BY <1>8, <1>4
<1>7. ASSUME NEW k \in 1 .. n - 1
      PROVE  d[k] = IF k < i THEN s[k] ELSE s[k + 1]
  <2>1. CASE k < i
      BY <1>2, <1>6, <2>1
  <2>2. CASE k >= i
    <3>1. k - (i - 1) \in 1 .. n - i /\ i + (k - (i - 1)) = k + 1
        BY <2>2, <1>6
    <3>2. b[k - (i - 1)] = s[k + 1]
        BY <1>6, <3>1
    <3> QED
        BY <1>6, <2>2, <3>2
  <2> QED
      BY <2>1, <2>2, <1>6
<1> QED
    BY <1>4, <1>5, <1>6, <1>7 DEF n

\* insert_ordered_array adds the item and nothing else, whatever less is.
LEMMA InsertFacts ==
    ASSUME NEW a \in Seq(Nat), NEW x \in Nat, NEW less
    PROVE  LET b == insert_ordered_array(x, a, less)
           IN  /\ b \in Seq(Nat) /\ Len(b) = Len(a) + 1
               /\ Items(b) = Items(a) \cup {x}
               /\ Injective(a) /\ x \notin Items(a) => Injective(b)
<1> DEFINE n == Len(a)
           P == {k \in 1 .. n : ~less[<<a[k], x>>]}
           i == InsertPosition(x, a, less)
           b == insert_ordered_array(x, a, less)
<1>1. n \in Nat /\ DOMAIN a = 1 .. n /\ \A k \in 1 .. n : a[k] \in Nat
    BY SeqFacts
<1>2. i \in 1 .. n + 1
  <2> HIDE DEF n
  <2>1. \E j \in 1 .. n + 1 : /\ \A k \in 1 .. j - 1 : k \notin P
                              /\ j <= n => j \in P
      BY <1>1, FirstHit
  <2>2. \E j \in 1 .. n + 1 : /\ \A k \in 1 .. j - 1 : less[<<a[k], x>>]
                              /\ j <= n => ~less[<<a[j], x>>]
    <3>1. PICK j \in 1 .. n + 1 : /\ \A k \in 1 .. j - 1 : k \notin P
                                  /\ j <= n => j \in P
        BY <2>1
    <3>2. (\A k \in 1 .. j - 1 : k \in 1 .. n) /\ (j <= n => j \in 1 .. n)
        BY <1>1
    <3> QED
        BY Zenon, <3>1, <3>2
  <2>3. \E j \in 1 .. Len(a) + 1 : /\ \A k \in 1 .. j - 1 : less[<<a[k], x>>]
                                   /\ j <= Len(a) => ~less[<<a[j], x>>]
      BY Zenon, <2>2 DEF n
  <2> QED
      BY <2>3 DEF InsertPosition, n
<1> HIDE DEF i
<1>3. /\ b \in Seq(Nat) /\ Len(b) = n + 1
      /\ \A k \in 1 .. n + 1 : b[k] = IF k < i THEN a[k]
                                      ELSE IF k = i THEN x ELSE a[k - 1]
  <2>1. b = InsertAt(a, i, x) /\ n = Len(a)
      BY DEF insert_ordered_array, i, n
  <2>2. i \in 1 .. Len(a) + 1
      BY <1>2 DEF n
  <2> HIDE DEF b, n, P
  <2>3. Inserted(InsertAt(a, i, x), a, i, x)
      BY <2>2, InsertAtFacts, Zenon
  <2> QED
      BY <2>1, <2>3 DEF Inserted
<1>4. DOMAIN b = 1 .. n + 1
    BY <1>3, SeqFacts
<1> HIDE DEF b, n
<1>5. Items(b) = Items(a) \cup {x}
  <2>1. ASSUME NEW k \in DOMAIN b PROVE b[k] \in Items(a) \cup {x}
    <3>1. CASE k < i
        BY <1>1, <1>2, <1>3, <1>4, <3>1 DEF Items
    <3>2. CASE k > i
      <4>1. k - 1 \in 1 .. n /\ b[k] = a[k - 1]
          BY SMTT(30), <1>1, <1>2, <1>3, <1>4, <3>2
      <4> QED
          BY <1>1, <4>1 DEF Items
    <3> QED
        BY <3>1, <3>2, <1>1, <1>2, <1>3, <1>4
  <2>2. ASSUME NEW k \in DOMAIN a PROVE a[k] \in Items(b)
    <3>1. CASE k < i
      <4>1. k \in 1 .. n + 1 /\ b[k] = a[k]
          BY <1>1, <1>2, <1>3, <3>1
      <4> QED
          BY <1>4, <4>1 DEF Items
    <3>2. CASE k >= i
      <4>1. k + 1 \in 1 .. n + 1 /\ ~(k + 1 < i) /\ k + 1 # i /\ (k + 1) - 1 = k
          BY <1>1, <1>2, <3>2
      <4>2. b[k + 1] = a[k]
          BY <1>3, <4>1
      <4> QED
          BY <1>4, <4>1, <4>2 DEF Items
    <3> QED
        BY <3>1, <3>2, <1>1, <1>2
  <2>3. x \in Items(b)
    <3>1. b[i] = x /\ i \in DOMAIN b
        BY <1>1, <1>2, <1>3, <1>4
    <3> QED
        BY <3>1 DEF Items
  <2> QED
      BY <2>1, <2>2, <2>3 DEF Items
<1>6. ASSUME Injective(a), x \notin Items(a) PROVE Injective(b)
  <2>1. SUFFICES ASSUME NEW j \in 1 .. n + 1, NEW k \in 1 .. n + 1, j < k
                 PROVE  b[j] # b[k]
      BY <1>4, <1>1 DEF Injective
  <2>2. \A l \in 1 .. n : a[l] # x
      BY <1>1, <1>6 DEF Items
  <2>3. \A l, m \in 1 .. n : a[l] = a[m] => l = m
      BY <1>1, <1>6 DEF Injective
  <2>4. CASE k < i
    <3>1. j \in 1 .. n /\ k \in 1 .. n /\ j # k /\ b[j] = a[j] /\ b[k] = a[k]
        BY <1>1, <1>2, <1>3, <2>1, <2>4
    <3> QED
        BY <2>3, <3>1
  <2>5. CASE k = i
    <3>1. j \in 1 .. n /\ b[j] = a[j] /\ b[k] = x
        BY <1>1, <1>2, <1>3, <2>1, <2>5
    <3> QED
        BY <2>2, <3>1
  <2>6. CASE k > i
    <3>1. k - 1 \in 1 .. n /\ b[k] = a[k - 1]
        BY <1>1, <1>2, <1>3, <2>1, <2>6
    <3>2. CASE j < i
      <4>1. j \in 1 .. n /\ j # k - 1 /\ b[j] = a[j]
          BY <1>1, <1>2, <1>3, <2>1, <2>6, <3>2
      <4> QED
          BY <2>3, <3>1, <4>1
    <3>3. CASE j = i
        BY <1>3, <2>2, <3>1, <3>3
    <3>4. CASE j > i
      <4>1. j - 1 \in 1 .. n /\ j - 1 # k - 1 /\ b[j] = a[j - 1]
          BY <1>1, <1>2, <1>3, <2>1, <2>6, <3>4
      <4> QED
          BY <2>3, <3>1, <4>1
    <3> QED
        BY <1>1, <1>2, <3>2, <3>3, <3>4
  <2> QED
      BY <2>4, <2>5, <2>6, <1>1, <1>2
<1> QED
    BY <1>3, <1>5, <1>6 DEF b, n

\* remove_ordered_array takes out the entry at the index it is given.
LEMMA RemoveFacts ==
    ASSUME NEW a \in Seq(Nat), NEW i \in 1 .. Len(a), Injective(a)
    PROVE  LET b == remove_ordered_array(i, a)
           IN  /\ b \in Seq(Nat) /\ Len(b) = Len(a) - 1
               /\ Items(b) = Items(a) \ {a[i]}
               /\ Injective(b)
<1> DEFINE n == Len(a)
           b == remove_ordered_array(i, a)
<1>1. n \in Nat /\ DOMAIN a = 1 .. n /\ \A k \in 1 .. n : a[k] \in Nat
    BY SeqFacts
<1>2. /\ b \in Seq(Nat) /\ Len(b) = n - 1
      /\ \A k \in 1 .. n - 1 : b[k] = IF k < i THEN a[k] ELSE a[k + 1]
  <2>1. b = RemoveAt(a, i)
      BY <1>1 DEF remove_ordered_array
  <2> QED
      BY <2>1, RemoveAtFacts
<1>3. DOMAIN b = 1 .. n - 1
    BY <1>2, SeqFacts
<1>4. i \in 1 .. n
    OBVIOUS
<1> HIDE DEF b, n
<1>5. \A l, m \in 1 .. n : a[l] = a[m] => l = m
    BY <1>1 DEF Injective
<1>6. Items(b) = Items(a) \ {a[i]}
  <2>1. ASSUME NEW k \in DOMAIN b PROVE b[k] \in Items(a) \ {a[i]}
    <3>1. CASE k < i
        BY <1>1, <1>2, <1>3, <1>4, <1>5, <3>1 DEF Items
    <3>2. CASE k >= i
      <4>1. k + 1 \in 1 .. n /\ k + 1 # i /\ k \in 1 .. n - 1
          BY <1>1, <1>3, <1>4, <3>2
      <4>2. b[k] = a[k + 1]
          BY <1>2, <1>4, <4>1, <3>2
      <4> QED
          BY <1>1, <1>4, <1>5, <4>1, <4>2 DEF Items
    <3> QED
        BY <3>1, <3>2, <1>1, <1>3, <1>4
  <2>2. ASSUME NEW k \in DOMAIN a, a[k] # a[i] PROVE a[k] \in Items(b)
    <3>1. CASE k < i
      <4>1. k \in 1 .. n - 1 /\ b[k] = a[k]
          BY <1>1, <1>2, <1>4, <3>1
      <4> QED
          BY <1>3, <4>1 DEF Items
    <3>2. CASE k > i
      <4>1. k - 1 \in 1 .. n - 1 /\ ~(k - 1 < i) /\ (k - 1) + 1 = k
          BY <1>1, <1>4, <3>2
      <4>2. b[k - 1] = a[k]
          BY <1>2, <4>1
      <4> QED
          BY <1>3, <4>1, <4>2 DEF Items
    <3> QED
      <4>1. k # i /\ k \in Int /\ i \in Int
          BY <2>2, <1>1, <1>4
      <4> QED
          BY <3>1, <3>2, <4>1
  <2> QED
      BY <2>1, <2>2 DEF Items
<1>7. Injective(b)
  <2>1. SUFFICES ASSUME NEW j \in 1 .. n - 1, NEW k \in 1 .. n - 1, j < k
                 PROVE  b[j] # b[k]
      BY <1>3, <1>1 DEF Injective
  <2> DEFINE up(l) == IF l < i THEN l ELSE l + 1
  <2>2. up(j) \in 1 .. n /\ up(k) \in 1 .. n /\ up(j) # up(k)
      BY <1>1, <1>4, <2>1
  <2>3. b[j] = a[up(j)]
      BY <1>2
  <2>4. b[k] = a[up(k)]
      BY <1>2
  <2> QED
      BY <1>5, <2>2, <2>3, <2>4
<1> QED
    BY <1>2, <1>6, <1>7 DEF b, n

\* The search for an entry that is there finds it.
LEMMA PositionFacts ==
    ASSUME NEW a \in Seq(Nat), NEW x \in Items(a)
    PROVE  PositionOf(x, a) \in 1 .. Len(a) /\ a[PositionOf(x, a)] = x
<1> DEFINE n == Len(a)
           P == {k \in 1 .. n : a[k] = x}
           i == PositionOf(x, a)
<1>1. n \in Nat /\ DOMAIN a = 1 .. n
    BY SeqFacts
<1>2. PICK h \in 1 .. n : a[h] = x
    BY <1>1 DEF Items
<1>6. P \subseteq 1 .. n /\ \A k \in 1 .. n : k \in P <=> a[k] = x
    OBVIOUS
<1> HIDE DEF n, P
<1>3. PICK j \in 1 .. n + 1 : /\ \A k \in 1 .. j - 1 : k \notin P
                              /\ j <= n => j \in P
    BY <1>1, <1>6, FirstHit
<1>4. /\ \A k \in 1 .. j - 1 : a[k] # x
      /\ j <= n => a[j] = x
  <2>1. (\A k \in 1 .. j - 1 : k \in 1 .. n) /\ (j <= n => j \in 1 .. n)
      BY <1>1, <1>3
  <2> QED
      BY <1>3, <1>6, <2>1
<1>5. /\ i \in 1 .. n + 1
      /\ \A k \in 1 .. i - 1 : a[k] # x
      /\ i <= n => a[i] = x
    BY <1>3, <1>4 DEF PositionOf, n
<1> HIDE DEF i
<1>7. i <= n
    BY <1>1, <1>2, <1>5
<1> QED
    BY <1>1, <1>5, <1>7 DEF i, n

=============================================================================
