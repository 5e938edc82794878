---------------------------- MODULE RamdiskProofs ----------------------------
(***************************************************************************)
(* Proofs about memcpy and memset, for every length, and about the ramdisk *)
(* that is read with them, for every number of files, their lengths and    *)
(* names, and every size of the reader's buffer.                           *)
(***************************************************************************)
EXTENDS Ramdisk, TLAPS, WellFoundedInduction

-----------------------------------------------------------------------------
(* memcpy and memset                                                       *)

\* Why a wide write cannot run over the end: the width divides what remains.
LEMMA ChunkFits ==
    ASSUME NEW s \in Nat, s > 0
    PROVE  Chunk(s) \in 1 .. 8 /\ Chunk(s) <= s
BY DEF Chunk

\* Both functions keep the types of their variables and the split of n into
\* what is done and what remains.
MemInv == TypeOK /\ PrefixDone /\ Correct

LEMMA InitInv == Init => MemInv
<1> SUFFICES ASSUME Init PROVE MemInv
    OBVIOUS
<1>1. TypeOK
    BY MaxNAssumption DEF Init, TypeOK, Idx, UNTOUCHED
<1>2. PrefixDone
    BY <1>1 DEF Init, TypeOK, PrefixDone, Standard, Idx, UNTOUCHED
<1>3. Correct
    BY <1>1 DEF Init, TypeOK, Correct, Standard, Idx, UNTOUCHED
<1> QED
    BY <1>1, <1>2, <1>3 DEF MemInv

LEMMA MoveInv == MemInv /\ Move => MemInv'
<1> SUFFICES ASSUME MemInv, Move PROVE MemInv'
    OBVIOUS
<1> USE DEF MemInv
<1>1. /\ i \in 0 .. n /\ n \in 0 .. MaxN /\ sz \in 1 .. MaxN /\ MaxN \in Nat
      /\ i + sz = n
    BY MaxNAssumption DEF TypeOK, PrefixDone, Move
<1>2. Chunk(sz) \in 1 .. 8 /\ Chunk(sz) <= sz
    BY <1>1, ChunkFits
<1> DEFINE k == Chunk(sz)
<1> HIDE DEF k
<1>3. /\ k \in 1 .. 8 /\ k <= sz
      /\ i' = i + k /\ sz' = sz - k
      /\ i' + sz' = n' /\ i' \in 0 .. MaxN /\ sz' \in 0 .. MaxN
      /\ UNCHANGED <<op, n, c, pc>>
    BY <1>1, <1>2 DEF Move, k
<1>4. dest' = [x \in Idx |-> IF i <= x /\ x < i + k THEN Written(x, i) ELSE dest[x]]
    BY DEF Move, k
<1>5. \A x \in Idx : Written(x, i) \in Int
    BY <1>1, FillsAssumption DEF Written, ByteOf, Idx, TypeOK
<1>6. TypeOK'
    BY <1>3, <1>4, <1>5 DEF TypeOK
<1>7. ASSUME op = "memset" => c \in {0, -1}, NEW x \in Idx
      PROVE  dest'[x] = IF x < i' THEN Standard(x)' ELSE UNTOUCHED
  <2>1. Standard(x)' = Standard(x)
      BY <1>3 DEF Standard
  <2>2. dest[x] = IF x < i THEN Standard(x) ELSE UNTOUCHED
      BY <1>7 DEF PrefixDone
  <2>3. i <= x /\ x < i + k => Written(x, i) = Standard(x)
      BY <1>1, <1>3, <1>7 DEF Written, Standard, ByteOf, Idx, TypeOK
  <2>4. x \in Int
      BY <1>1 DEF Idx
  <2> QED
      BY <1>1, <1>3, <1>4, <2>1, <2>2, <2>3, <2>4
<1>8. PrefixDone'
    BY <1>3, <1>7 DEF PrefixDone
<1>9. Correct'
    BY <1>3 DEF Correct, Move
<1> QED
    BY <1>6, <1>8, <1>9

LEMMA ReturnInv == MemInv /\ Return => MemInv'
<1> SUFFICES ASSUME MemInv, Return PROVE MemInv'
    OBVIOUS
<1> USE DEF MemInv
<1>1. TypeOK' /\ PrefixDone'
    BY DEF Return, TypeOK, PrefixDone, Standard
<1>2. i' = n' /\ i \in Int
    BY MaxNAssumption DEF Return, TypeOK, PrefixDone
<1>3. ASSUME (op = "memset" => c \in {0, -1})', NEW x \in Idx
      PROVE  dest'[x] = Standard(x)'
  <2>1. x \in Int
      BY MaxNAssumption DEF Idx
  <2>2. dest'[x] = IF x < i' THEN Standard(x)' ELSE UNTOUCHED
      BY <1>1, <1>3 DEF PrefixDone
  <2> QED
      BY <1>2, <2>1, <2>2 DEF Standard, Return
<1> QED
    BY <1>1, <1>2, <1>3 DEF Correct

\* Type correctness, the loop invariant and the result of both functions, for
\* every length n up to any MaxN.
THEOREM MemopsCorrect == Spec => [](TypeOK /\ PrefixDone /\ Correct)
<1>1. Init => MemInv
    BY InitInv
<1>2. MemInv /\ [Next]_vars => MemInv'
  <2> SUFFICES ASSUME MemInv, [Next]_vars PROVE MemInv'
      OBVIOUS
  <2>1. CASE Move
      BY <2>1, MoveInv
  <2>2. CASE Return
      BY <2>2, ReturnInv
  <2>3. CASE UNCHANGED vars
      BY <2>3 DEF vars, MemInv, TypeOK, PrefixDone, Correct, Standard
  <2> QED
      BY <2>1, <2>2, <2>3 DEF Next
<1> QED
    BY <1>1, <1>2, PTL DEF Spec, MemInv

\* At every turn of either loop, what lies below the index is final and nothing
\* at or beyond it was touched, whatever widths the turns used.
THEOREM PrefixCorrect == Spec => []PrefixDone
BY MemopsCorrect, PTL

-----------------------------------------------------------------------------
(* Numbers                                                                 *)

LEMMA LessOnNat == OpToRel(<, Nat) = {p \in Nat \X Nat : p[1] < p[2]}
BY DEF OpToRel

\* The least number principle.
LEMMA LeastNumber ==
    ASSUME NEW T \in SUBSET Nat, T # {}
    PROVE  \E x \in T : \A y \in T : x <= y
<1> DEFINE Less == OpToRel(<, Nat)
<1>1. IsWellFoundedOn(Less, Nat)
    BY NatLessThanWellFounded
<1>2. Less = {p \in Nat \X Nat : p[1] < p[2]}
    BY LessOnNat
<1> HIDE DEF Less
<1>3. PICK x \in T : \A y \in T : ~(<<y, x>> \in Less)
    BY <1>1, WFMin
<1>4. ASSUME NEW y \in T PROVE x <= y
  <2>1. x \in Nat /\ y \in Nat
      OBVIOUS
  <2>2. ~(<<y, x>> \in Less)
      BY <1>3
  <2>3. ~(y < x)
      BY <1>2, <2>1, <2>2
  <2> QED
      BY <2>1, <2>3
<1> QED
    BY <1>4

\* A set with 0 that is closed under successor below m has all numbers up to m.
LEMMA Climb ==
    ASSUME NEW m \in Nat, NEW T, 0 \in T, \A k \in 0 .. m - 1 : k \in T => k + 1 \in T
    PROVE  \A k \in 0 .. m : k \in T
<1> DEFINE D == {k \in 0 .. m : k \notin T}
<1> SUFFICES ASSUME D # {} PROVE FALSE
    OBVIOUS
<1>1. D \in SUBSET Nat
    OBVIOUS
<1>2. PICK x \in D : \A y \in D : x <= y
    BY <1>1, LeastNumber
<1>3. x \in 0 .. m /\ x \notin T /\ x # 0
    BY <1>2
<1>4. x - 1 \in 0 .. m - 1 /\ x - 1 \in 0 .. m /\ x - 1 + 1 = x /\ ~(x <= x - 1)
    BY <1>3
<1>5. x - 1 \in T
    BY <1>2, <1>4
<1> QED
    BY <1>3, <1>4, <1>5

-----------------------------------------------------------------------------
(* init_rd_creator.c's two loops                                           *)

Summed(f, lengths, m) ==
    f = [j \in 0 .. m |-> IF j = 0 THEN HEADERS ELSE f[j - 1] + lengths[j]]
Joined(f, lengths, m) ==
    f = [j \in 0 .. m |-> IF j = 0 THEN <<>>
                         ELSE f[j - 1] \o [x \in 1 .. lengths[j] |-> <<j, x>>]]

LEMMA SummedExists ==
    ASSUME NEW lengths, NEW m \in Nat
    PROVE  \E f : Summed(f, lengths, m)
<1> DEFINE T == {k \in 0 .. m : \E f : Summed(f, lengths, k)}
<1>1. 0 \in T
  <2> DEFINE g == [j \in 0 .. 0 |-> HEADERS]
  <2>1. g = [j \in 0 .. 0 |-> IF j = 0 THEN HEADERS ELSE g[j - 1] + lengths[j]]
      OBVIOUS
  <2>2. Summed(g, lengths, 0)
      BY <2>1 DEF Summed
  <2> QED
      BY <2>2
<1>2. ASSUME NEW h \in 0 .. m - 1, h \in T PROVE h + 1 \in T
  <2>1. PICK f : Summed(f, lengths, h)
      BY <1>2
  <2>2. f = [j \in 0 .. h |-> IF j = 0 THEN HEADERS ELSE f[j - 1] + lengths[j]]
      BY <2>1 DEF Summed
  <2> DEFINE g == [j \in 0 .. h + 1 |-> IF j = h + 1 THEN f[h] + lengths[h + 1] ELSE f[j]]
  <2>3. h \in Nat /\ h + 1 \in 0 .. m
      OBVIOUS
  <2>4. ASSUME NEW j \in 0 .. h + 1
        PROVE  g[j] = IF j = 0 THEN HEADERS ELSE g[j - 1] + lengths[j]
    <3>1. CASE j = 0
        BY <2>2, <2>3, <3>1
    <3>2. CASE j = h + 1
      <4>1. j # 0 /\ j - 1 = h /\ h \in 0 .. h + 1 /\ h # h + 1
          BY <2>3, <3>2
      <4>2. g[j - 1] = f[h] /\ g[j] = f[h] + lengths[j]
          BY <3>2, <4>1
      <4> QED
          BY <4>1, <4>2
    <3>3. CASE j \in 1 .. h
      <4>1. j # 0 /\ j # h + 1 /\ j - 1 # h + 1 /\ j - 1 \in 0 .. h + 1 /\ j \in 0 .. h
          BY <2>3, <3>3
      <4>2. g[j - 1] = f[j - 1] /\ g[j] = f[j]
          BY <4>1
      <4>3. f[j] = f[j - 1] + lengths[j]
          BY <2>2, <4>1
      <4> QED
          BY <4>1, <4>2, <4>3
    <3> QED
        BY <2>3, <3>1, <3>2, <3>3
  <2>5. g = [j \in 0 .. h + 1 |-> g[j]]
      OBVIOUS
  <2> HIDE DEF g
  <2>6. Summed(g, lengths, h + 1)
      BY <2>4, <2>5 DEF Summed
  <2> QED
      BY <2>3, <2>6
<1> HIDE DEF T
<1>3. m \in T
    BY <1>1, <1>2, Climb
<1> QED
    BY <1>3 DEF T

LEMMA JoinedExists ==
    ASSUME NEW lengths, NEW m \in Nat
    PROVE  \E f : Joined(f, lengths, m)
<1> DEFINE T == {k \in 0 .. m : \E f : Joined(f, lengths, k)}
<1>1. 0 \in T
  <2> DEFINE g == [j \in 0 .. 0 |-> <<>>]
  <2>1. g = [j \in 0 .. 0 |-> IF j = 0 THEN <<>> ELSE g[j - 1] \o [x \in 1 .. lengths[j] |-> <<j, x>>]]
      OBVIOUS
  <2>2. Joined(g, lengths, 0)
      BY <2>1 DEF Joined
  <2> QED
      BY <2>2
<1>2. ASSUME NEW h \in 0 .. m - 1, h \in T PROVE h + 1 \in T
  <2>1. PICK f : Joined(f, lengths, h)
      BY <1>2
  <2>2. f = [j \in 0 .. h |-> IF j = 0 THEN <<>> ELSE f[j - 1] \o [x \in 1 .. lengths[j] |-> <<j, x>>]]
      BY <2>1 DEF Joined
  <2> DEFINE g == [j \in 0 .. h + 1 |-> IF j = h + 1 THEN f[h] \o [x \in 1 .. lengths[h + 1] |-> <<h + 1, x>>] ELSE f[j]]
  <2>3. h \in Nat /\ h + 1 \in 0 .. m
      OBVIOUS
  <2>4. ASSUME NEW j \in 0 .. h + 1
        PROVE  g[j] = IF j = 0 THEN <<>> ELSE g[j - 1] \o [x \in 1 .. lengths[j] |-> <<j, x>>]
    <3>1. CASE j = 0
        BY <2>2, <2>3, <3>1
    <3>2. CASE j = h + 1
      <4>1. j # 0 /\ j - 1 = h /\ h \in 0 .. h + 1 /\ h # h + 1
          BY <2>3, <3>2
      <4>2. g[j - 1] = f[h] /\ g[j] = f[h] \o [x \in 1 .. lengths[j] |-> <<j, x>>]
          BY <3>2, <4>1
      <4> QED
          BY <4>1, <4>2
    <3>3. CASE j \in 1 .. h
      <4>1. j # 0 /\ j # h + 1 /\ j - 1 # h + 1 /\ j - 1 \in 0 .. h + 1 /\ j \in 0 .. h
          BY <2>3, <3>3
      <4>2. g[j - 1] = f[j - 1] /\ g[j] = f[j]
          BY <4>1
      <4>3. f[j] = f[j - 1] \o [x \in 1 .. lengths[j] |-> <<j, x>>]
          BY <2>2, <4>1
      <4> QED
          BY <4>1, <4>2, <4>3
    <3> QED
        BY <2>3, <3>1, <3>2, <3>3
  <2>5. g = [j \in 0 .. h + 1 |-> g[j]]
      OBVIOUS
  <2> HIDE DEF g
  <2>6. Joined(g, lengths, h + 1)
      BY <2>4, <2>5 DEF Joined
  <2> QED
      BY <2>3, <2>6
<1> HIDE DEF T
<1>3. m \in T
    BY <1>1, <1>2, Climb
<1> QED
    BY <1>3 DEF T

\* The offsets the first loop wrote, and the bytes the second.
LEMMA Creator ==
    ASSUME NEW lengths
    PROVE  \E f, g :
              /\ Summed(f, lengths, NFILES) /\ Joined(g, lengths, NFILES)
              /\ \A k \in Files : HeaderOffset(lengths, k) = f[k - 1]
              /\ Data(lengths) = g[NFILES]
<1> DEFINE f == CHOOSE h : Summed(h, lengths, NFILES)
           g == CHOOSE h : Joined(h, lengths, NFILES)
<1>1. NFILES \in Nat
    BY RamdiskAssumption
<1>2. Summed(f, lengths, NFILES)
    BY <1>1, SummedExists, Zenon
<1>3. Joined(g, lengths, NFILES)
    BY <1>1, JoinedExists, Zenon
<1>4. \A k \in Files : HeaderOffset(lengths, k) = f[k - 1]
    BY DEF HeaderOffset, Summed
<1>5. Data(lengths) = g[NFILES]
    BY DEF Data, Joined
<1> QED
    BY <1>2, <1>3, <1>4, <1>5

\* u = s \o t, entry by entry.
LEMMA Concat ==
    ASSUME NEW S, NEW s \in Seq(S), NEW t \in Seq(S), NEW u, u = s \o t
    PROVE  /\ u \in Seq(S) /\ Len(u) = Len(s) + Len(t)
           /\ \A x \in 1 .. Len(s) : u[x] = s[x]
           /\ \A x \in 1 .. Len(t) : u[Len(s) + x] = t[x]
OBVIOUS

\* The headers say where the data of each file lie.
LEMMA Layout ==
    ASSUME NEW lengths \in [Files -> 0 .. MaxN], NEW k \in Files
    PROVE  /\ HeaderOffset(lengths, k) \in Nat
           /\ \A x \in 1 .. lengths[k] :
                 LET p == (HeaderOffset(lengths, k) - HEADERS) + x
                 IN  p \in DOMAIN Data(lengths) /\ Data(lengths)[p] = <<k, x>>
<1>0. NFILES \in Nat /\ HEADERS \in Nat /\ MaxN \in Nat
    BY RamdiskAssumption, MaxNAssumption
<1>1. PICK f, g :
          /\ Summed(f, lengths, NFILES) /\ Joined(g, lengths, NFILES)
          /\ \A j \in Files : HeaderOffset(lengths, j) = f[j - 1]
          /\ Data(lengths) = g[NFILES]
    BY Creator
<1> DEFINE P == Nat \X Nat
           Part(j) == [x \in 1 .. lengths[j] |-> <<j, x>>]
<1>2. ASSUME NEW j \in 0 .. NFILES - 1
      PROVE  f[j + 1] = f[j] + lengths[j + 1] /\ g[j + 1] = g[j] \o Part(j + 1)
  <2> DEFINE h == j + 1
  <2>1. h \in 0 .. NFILES /\ h # 0 /\ h - 1 = j
      BY <1>0
  <2> HIDE DEF h
  <2>2. f[h] = f[h - 1] + lengths[h]
      BY <1>1, <2>1 DEF Summed
  <2>3. g[h] = g[h - 1] \o Part(h)
      BY <1>1, <2>1 DEF Joined
  <2> QED
      BY <2>1, <2>2, <2>3 DEF h
<1>3. f[0] = HEADERS /\ g[0] = <<>>
    BY <1>0, <1>1 DEF Summed, Joined
<1> DEFINE Placed(m, j) == \A x \in 1 .. lengths[j] :
                              /\ (f[j - 1] - HEADERS) + x \in 1 .. Len(g[m])
                              /\ g[m][(f[j - 1] - HEADERS) + x] = <<j, x>>
           T == {m \in 0 .. NFILES : /\ f[m] \in Nat /\ g[m] \in Seq(P)
                                     /\ Len(g[m]) = f[m] - HEADERS
                                     /\ \A j \in 1 .. m : Placed(m, j)
                                     /\ \A j \in 0 .. m : f[j] \in Nat}
<1>4. 0 \in T
  <2>1. <<>> \in Seq(P) /\ Len(<<>>) = 0
      OBVIOUS
  <2>2. g[0] \in Seq(P) /\ Len(g[0]) = f[0] - HEADERS /\ f[0] \in Nat
      BY <1>0, <1>3, <2>1
  <2>3. \A j \in 1 .. 0 : Placed(0, j)
      OBVIOUS
  <2>4. 0 \in 0 .. NFILES /\ \A j \in 0 .. 0 : f[j] \in Nat
      BY <1>0, <2>2
  <2> HIDE DEF Placed
  <2> QED
      BY <2>2, <2>3, <2>4
<1>5. ASSUME NEW m \in 0 .. NFILES - 1, m \in T PROVE m + 1 \in T
  <2> DEFINE h == m + 1
             s == g[m]
             t == Part(h)
             u == g[h]
  <2>1. h \in 1 .. NFILES /\ h - 1 = m /\ m \in Nat /\ h \in Nat
      BY <1>0
  <2>2. lengths[h] \in Nat
      BY <1>0, <2>1 DEF Files
  <2>3. t \in Seq(P) /\ Len(t) = lengths[h] /\ \A x \in 1 .. lengths[h] : t[x] = <<h, x>>
      BY <2>1, <2>2
  <2>4. s \in Seq(P) /\ Len(s) = f[m] - HEADERS /\ f[m] \in Nat
      BY <1>5
  <2>5. u = s \o t /\ f[h] = f[m] + lengths[h]
      BY <1>2, <2>1
  <2> HIDE DEF h, s, t, u, P
  <2>6. /\ u \in Seq(P) /\ Len(u) = Len(s) + Len(t)
        /\ \A x \in 1 .. Len(s) : u[x] = s[x]
        /\ \A x \in 1 .. Len(t) : u[Len(s) + x] = t[x]
    <3>1. s \in Seq(P) /\ t \in Seq(P) /\ u = s \o t
        BY <2>3, <2>4, <2>5
    <3> QED
        BY ONLY <3>1, Concat
  <2>7. f[h] \in Nat /\ Len(u) = f[h] - HEADERS /\ Len(s) \in Nat /\ Len(t) \in Nat
    <3>1. Len(u) = (f[m] - HEADERS) + lengths[h] /\ Len(s) \in Nat
        BY <2>3, <2>4, <2>6
    <3> DEFINE fm == f[m]
               fh == f[h]
               lh == lengths[h]
    <3>2. fm \in Nat /\ lh \in Nat /\ HEADERS \in Nat /\ fh = fm + lh
        BY <1>0, <2>2, <2>4, <2>5
    <3> HIDE DEF fm, fh, lh
    <3>3. fh \in Nat /\ (fm - HEADERS) + lh = fh - HEADERS
        BY <3>2
    <3>4. Len(t) \in Nat
        BY <2>3, <3>2 DEF lh
    <3> QED
        BY <3>1, <3>3, <3>4 DEF fm, fh, lh
  <2>8. ASSUME NEW j \in 1 .. h, NEW x \in 1 .. lengths[j]
        PROVE  /\ (f[j - 1] - HEADERS) + x \in 1 .. Len(u)
               /\ u[(f[j - 1] - HEADERS) + x] = <<j, x>>
    <3>1. CASE j = h
      <4>1. f[j - 1] - HEADERS = Len(s) /\ x \in 1 .. Len(t)
          BY <2>1, <2>3, <2>4, <2>8, <3>1
      <4>2. Len(s) + x \in 1 .. Len(u) /\ u[Len(s) + x] = t[x] /\ t[x] = <<j, x>>
        <5>1. Len(u) = Len(s) + Len(t) /\ Len(s) \in Nat /\ Len(t) \in Nat
            BY <2>6, <2>7
        <5>2. Len(s) + x \in 1 .. Len(u)
            BY <4>1, <5>1
        <5>3. u[Len(s) + x] = t[x]
            BY <2>6, <4>1
        <5>4. t[x] = <<j, x>>
            BY <2>3, <2>8, <3>1
        <5> QED
            BY <5>2, <5>3, <5>4
      <4> QED
          BY <4>1, <4>2
    <3>2. CASE j # h
      <4>1. j \in 1 .. m
          BY <2>1, <2>8, <3>2
      <4>2. /\ (f[j - 1] - HEADERS) + x \in 1 .. Len(s)
            /\ s[(f[j - 1] - HEADERS) + x] = <<j, x>>
          BY <1>5, <2>8, <4>1 DEF s
      <4> DEFINE p == (f[j - 1] - HEADERS) + x
      <4> HIDE DEF p
      <4>3. p \in 1 .. Len(s) /\ s[p] = <<j, x>>
          BY <4>2 DEF p
      <4>4. p \in 1 .. Len(u) /\ u[p] = s[p]
          BY <2>6, <2>7, <4>3
      <4> QED
          BY <4>3, <4>4 DEF p
    <3> QED
        BY <3>1, <3>2
  <2>9. \A j \in 1 .. h : Placed(h, j)
      BY <2>8 DEF u
  <2>10. \A j \in 0 .. h : f[j] \in Nat
    <3>1. \A j \in 0 .. m : f[j] \in Nat
        BY <1>5
    <3> QED
        BY <2>1, <2>7, <3>1
  <2>11. h \in 0 .. NFILES
      BY <2>1
  <2>12. h \in T
      BY <2>6, <2>7, <2>9, <2>10, <2>11 DEF u
  <2> QED
      BY <2>12 DEF h
<1> HIDE DEF T
<1>6. \A m \in 0 .. NFILES : m \in T
    BY <1>0, <1>4, <1>5, Climb
<1>7. NFILES \in T
    BY <1>0, <1>6
<1> USE DEF T
<1>8. k \in 1 .. NFILES /\ k - 1 \in 0 .. NFILES
    BY <1>0 DEF Files
<1>9. HeaderOffset(lengths, k) = f[k - 1] /\ f[k - 1] \in Nat /\ Placed(NFILES, k)
    BY <1>1, <1>7, <1>8
<1>10. g[NFILES] \in Seq(P)
    BY <1>7
<1>11. DOMAIN g[NFILES] = 1 .. Len(g[NFILES])
    BY <1>10
<1> QED
    BY <1>1, <1>9, <1>11

-----------------------------------------------------------------------------
(* The inductive invariant                                                 *)

\* The image and what initialise_initrd made of it.
ImageInv ==
    /\ len \in [Files -> 0 .. MaxN]
    /\ bufsize \in 0 .. MaxN
    /\ offset = [k \in Files |-> HeaderOffset(len, k) + (IF at = "boot" THEN 0 ELSE LOCATION)]
    /\ at # "boot" => name \in [Files -> Names]

\* Where kernel_task is, and what it has found there.
PlaceInv ==
    /\ at \in {"boot", "readdir", "finddir", "memset", "read", "end", "client", "fault"}
    /\ entry \in Nat
    /\ at = "boot" => entry = 0
    /\ at = "readdir" => entry <= NFILES + 1
    /\ at = "finddir" => entry <= NFILES /\ dirent = initrd_readdir(entry)
    /\ at \in {"memset", "read"} =>
          /\ entry \in Files /\ node \in Files
          /\ dirent = name[entry]
          /\ NamesDistinct => node = entry

\* What the call of memset or memcpy that is under way was given.
CallInv ==
    /\ at = "memset" => op = "memset" /\ c = 0 /\ n = bufsize
    /\ at = "read" =>
          /\ op = "memcpy" /\ base = offset[node]
          /\ n = Smaller(len[node], bufsize)
          /\ \A x \in 0 .. bufsize - 1 : buf[x] = ZERO
    /\ at = "client" =>
          /\ op = "memcpy" /\ node \in Files
          /\ asked < Word /\ n > 0 =>
                /\ base \in Int /\ offset[node] <= base
                /\ base + n <= offset[node] + len[node]
    /\ at = "fault" => asked >= Word

\* The entries shown so far: as many as kernel_task has gone through.
Entries == IF at \in {"end", "client", "fault"} THEN NFILES + 1 ELSE entry
Listed(s, m, E) == s = [e \in 1 .. m |-> s[e]] /\ \A e \in 1 .. m : s[e] \in E[e]
ShownInv == at = "boot" \/ NamesDistinct => Listed(shown, Entries, Expected)

RInv == MemInv /\ ImageInv /\ PlaceInv /\ CallInv /\ ShownInv

LEMMA Constants ==
    /\ NFILES \in Nat /\ MaxN \in Nat /\ Word \in Nat /\ HEADERS \in Nat
    /\ LOCATION \in Nat /\ NFILES < Word /\ MaxN < Word
    /\ Lengths \subseteq 0 .. MaxN /\ Files = 1 .. NFILES
    /\ Offsets \subseteq Nat /\ Sizes \subseteq Nat
    /\ "none" \notin Names /\ 0 \in Fills
BY RamdiskAssumption, MaxNAssumption DEF Files

-----------------------------------------------------------------------------
(* What the calls return                                                   *)

\* In memory, each file's bytes lie from its node's offset on.
LEMMA FileBytes ==
    ASSUME ImageInv, at # "boot", NEW k \in Files, NEW x \in 0 .. len[k] - 1
    PROVE  /\ offset[k] \in Nat
           /\ Byte(offset[k] + x) = <<k, x + 1>>
<1> DEFINE h == HeaderOffset(len, k)
           y == x + 1
           d == Data(len)
<1>1. len \in [Files -> 0 .. MaxN] /\ offset[k] = h + LOCATION
    BY DEF ImageInv
<1>2. len[k] \in Nat /\ y \in 1 .. len[k]
    BY <1>1, Constants
<1>3. h \in Nat /\ (h - HEADERS) + y \in DOMAIN d /\ d[(h - HEADERS) + y] = <<k, y>>
    BY <1>1, <1>2, Layout
<1> HIDE DEF h, d
<1>4. ((h + LOCATION) + x) - LOCATION - HEADERS + 1 = (h - HEADERS) + y
    BY <1>2, <1>3, Constants
<1>5. Byte(offset[k] + x) = d[(h - HEADERS) + y]
    BY <1>1, <1>3, <1>4 DEF Byte, d
<1> QED
    BY <1>1, <1>3, <1>5, Constants

\* readdir_fs goes through "dev" and the files, and then returns null.
LEMMA Readdir ==
    ASSUME ImageInv, at # "boot", entry \in Nat, entry <= NFILES + 1
    PROVE  /\ initrd_readdir(entry) = "none" => entry = NFILES + 1
           /\ initrd_readdir(entry) # "none" => entry <= NFILES
           /\ entry = 0 => initrd_readdir(entry) = "dev"
           /\ entry \in Files => initrd_readdir(entry) = name[entry]
<1>1. CASE entry = 0
    BY <1>1, Constants DEF initrd_readdir
<1>2. CASE entry \in 1 .. NFILES + 1
  <2>1. (entry - 1) % Word = entry - 1
      BY <1>2, Constants
  <2>2. entry \in Files => name[entry] # "none"
      BY Constants DEF ImageInv
  <2> QED
      BY <1>2, <2>1, <2>2, Constants DEF initrd_readdir
<1> QED
    BY <1>1, <1>2, Constants

\* finddir_fs finds a file with the name it is given, if there is one.
LEMMA Finddir ==
    ASSUME NEW k \in Files, NEW d, d = name[k], d # "dev"
    PROVE  initrd_finddir(d) \in Files /\ name[initrd_finddir(d)] = d
<1> DEFINE T == {j \in Files : name[j] = d}
           First(j) == name[j] = d /\ \A l \in 1 .. j - 1 : name[l] # d
<1>1. T \in SUBSET Nat /\ T # {}
    BY Constants
<1>2. PICK j \in T : \A l \in T : j <= l
    BY <1>1, LeastNumber
<1>3. ASSUME NEW l \in 1 .. j - 1 PROVE name[l] # d
  <2>1. j \in 1 .. NFILES
      BY Constants
  <2>2. l \in Files /\ ~(j <= l)
      BY <2>1, <1>3, Constants
  <2> QED
      BY <1>2, <2>2
<1>4. j \in Files /\ First(j)
    BY <1>3
<1> DEFINE m == CHOOSE l \in Files : First(l)
<1>5. m \in Files /\ First(m)
    BY <1>4, Zenon
<1>6. initrd_finddir(d) = m
    BY DEF initrd_finddir
<1> QED
    BY <1>5, <1>6

\* The bytes that initrd_read copies are all behind off in the file.
LEMMA ReadSizeFits ==
    ASSUME ImageInv, NEW k \in Files, NEW off \in Nat, NEW size \in Nat, off + size < Word,
           NEW l, l = ReadSize(k, off, size)
    PROVE  /\ l \in 0 .. MaxN
           /\ l > 0 => off + l <= len[k]
           /\ off = 0 => l = Smaller(len[k], size)
<1>1. len[k] \in 0 .. MaxN
    BY DEF ImageInv
<1>2. (off + size) % Word = off + size
    BY Constants
<1> DEFINE m == len[k]
<1> HIDE DEF m
<1>3. l = IF off > m THEN 0 ELSE IF off + size > m THEN m - off ELSE size
    BY <1>2 DEF ReadSize, m
<1>4. m \in Nat /\ m <= MaxN /\ MaxN \in Nat
    BY <1>1, Constants DEF m
<1>5. l \in 0 .. MaxN /\ (l > 0 => off + l <= m)
    BY <1>3, <1>4
<1>6. off = 0 => l = Smaller(m, size)
    BY <1>3, <1>4 DEF Smaller
<1> QED
    BY <1>5, <1>6 DEF m

\* A buffer that holds a file's beginning and zeros behind it is printed as
\* that beginning: no byte of a file is the terminating 0.
LEMMA PrintedBytes ==
    ASSUME NEW k \in Files, NEW m \in Nat, NEW b, bufsize \in Nat, m <= bufsize,
           \A x \in 0 .. m - 1 : b[x] = <<k, x + 1>>,
           \A x \in m .. bufsize - 1 : b[x] = ZERO
    PROVE  Printed(b) = IF m < bufsize THEN {Bytes(k, 0, m)}
                        ELSE {Bytes(k, 0, m) \o Stack(t) : t \in Behind}
<1> DEFINE Ends(x) == /\ x = bufsize \/ b[x] = ZERO
                      /\ \A y \in 0 .. x - 1 : b[y] # ZERO
           p == CHOOSE x \in 0 .. bufsize : Ends(x)
<1>1. \A x \in 0 .. m - 1 : b[x] # ZERO
    BY Constants DEF ZERO
<1>2. m \in 0 .. bufsize /\ Ends(m)
    BY <1>1
<1>3. p \in 0 .. bufsize /\ Ends(p)
    BY <1>2, Zenon
<1> HIDE DEF p
<1>4. p = m
  <2>1. ~(p < m)
    <3>1. ASSUME p < m PROVE FALSE
      <4>1. p \in 0 .. m - 1 /\ p # bufsize
          BY <1>3, <3>1
      <4> QED
          BY <1>1, <1>3, <4>1
    <3> QED
        BY <3>1
  <2>2. ~(m < p)
    <3>1. ASSUME m < p PROVE FALSE
      <4>1. m \in 0 .. p - 1 /\ m \in m .. bufsize - 1
          BY <1>3, <3>1
      <4> QED
          BY <1>3, <4>1
    <3> QED
        BY <3>1
  <2> QED
      BY <1>3, <2>1, <2>2
<1> DEFINE text == [x \in 1 .. p |-> b[x - 1]]
<1>5. Printed(b) = IF p < bufsize THEN {text} ELSE {text \o Stack(t) : t \in Behind}
    BY DEF Printed, p
<1>6. ASSUME NEW x \in 1 .. m PROVE b[x - 1] = <<k, 0 + x>>
  <2>1. x - 1 \in 0 .. m - 1 /\ (x - 1) + 1 = x /\ 0 + x = x
      OBVIOUS
  <2> QED
      BY <2>1
<1>7. m - 0 = m
    OBVIOUS
<1>8. text = Bytes(k, 0, m)
    BY <1>4, <1>6, <1>7 DEF Bytes
<1> HIDE DEF text
<1> QED
    BY <1>4, <1>5, <1>8

-----------------------------------------------------------------------------
(* The invariant holds in every step                                       *)

\* A call starts the loop with nothing touched yet.
LEMMA CallStarts ==
    ASSUME NEW o \in {"memcpy", "memset"}, NEW l \in 0 .. MaxN, Call(o, l)
    PROVE  MemInv'
<1>1. /\ op' \in {"memcpy", "memset"} /\ n' \in 0 .. MaxN /\ c' \in Fills
      /\ i' = 0 /\ sz' = n' /\ dest' = [x \in Idx |-> UNTOUCHED]
      /\ pc' = IF n' = 0 THEN "done" ELSE "loop"
    BY Constants DEF Call
<1>2. TypeOK'
    BY <1>1, Constants DEF TypeOK, UNTOUCHED
<1>3. \A x \in Idx : x \in Int /\ x >= 0
    BY Constants DEF Idx
<1>4. PrefixDone'
  <2>1. i' + sz' = n'
    <3>1. 0 + l = l
        BY Constants
    <3>2. i' = 0 /\ sz' = l /\ n' = l
        BY DEF Call
    <3> QED
        BY <3>1, <3>2, Zenon
  <2>2. ASSUME NEW x \in Idx PROVE dest'[x] = UNTOUCHED /\ ~(x < i')
      BY <1>1, <1>3
  <2> QED
      BY <2>1, <2>2 DEF PrefixDone
<1>5. Correct'
    BY <1>1, <1>3 DEF Correct, Standard
<1> QED
    BY <1>2, <1>4, <1>5 DEF MemInv

\* Once initialise_initrd is done, the image stays as it is.
LEMMA SameImage ==
    ASSUME ImageInv, at # "boot", at' # "boot", UNCHANGED files
    PROVE  /\ ImageInv' /\ NamesDistinct' = NamesDistinct /\ Expected' = Expected
<1>1. len' = len /\ name' = name /\ offset' = offset /\ bufsize' = bufsize
    BY DEF files
<1>2. ImageInv'
    BY <1>1 DEF ImageInv
<1>3. NamesDistinct' = NamesDistinct
    BY <1>1 DEF NamesDistinct
<1>4. Expected' = Expected
    BY <1>1 DEF Expected, Contents
<1> QED
    BY <1>2, <1>3, <1>4

\* The next entry is appended to those shown.
LEMMA AppendShown ==
    ASSUME NEW E, NEW m \in Nat, NEW s, Listed(s, m, E), NEW r, r \in E[m + 1]
    PROVE  Listed(Append(s, r), m + 1, E)
<1> DEFINE S == {s[e] : e \in 1 .. m} \cup {r}
<1>1. s \in Seq(S) /\ r \in S /\ Len(s) = m
  <2>1. s = [e \in 1 .. m |-> s[e]]
      BY DEF Listed
  <2>2. s \in [1 .. m -> S]
      BY <2>1
  <2> QED
      BY <2>1, <2>2
<1> HIDE DEF S
<1>2. /\ DOMAIN Append(s, r) = 1 .. m + 1
      /\ \A e \in 1 .. m : Append(s, r)[e] = s[e]
      /\ Append(s, r)[m + 1] = r
    BY <1>1
<1>3. Append(s, r) = [e \in 1 .. m + 1 |-> Append(s, r)[e]]
  <2> DEFINE q == Append(s, r)
  <2>1. q \in Seq(S) /\ Len(q) = m + 1 /\ m + 1 \in Nat
      BY <1>1
  <2> HIDE DEF q
  <2>2. q \in [1 .. m + 1 -> S]
      BY ONLY <2>1
  <2>3. q = [e \in 1 .. m + 1 |-> q[e]]
      BY ONLY <2>2
  <2> QED
      BY <2>3 DEF q
<1>4. ASSUME NEW e \in 1 .. m + 1 PROVE Append(s, r)[e] \in E[e]
    BY <1>2, <1>4 DEF Listed
<1> QED
    BY <1>3, <1>4 DEF Listed

LEMMA BootStep == RInv /\ initialise_initrd => RInv'
<1> SUFFICES ASSUME RInv, initialise_initrd PROVE RInv'
    OBVIOUS
<1>1. at = "boot" /\ at' = "readdir" /\ entry = 0 /\ entry' = 0
    BY DEF initialise_initrd, RInv, PlaceInv
<1>2. MemInv'
    BY DEF RInv, initialise_initrd, MemInv, TypeOK, PrefixDone, Correct, Standard, vars
<1>3. ImageInv'
  <2>1. len' = len /\ bufsize' = bufsize /\ name' \in [Files -> Names]
      BY DEF initialise_initrd
  <2>2. offset' = [k \in Files |-> HeaderOffset(len, k) + LOCATION]
    <3>1. ASSUME NEW k \in Files PROVE offset[k] = HeaderOffset(len, k)
      <4>1. HeaderOffset(len, k) \in Nat
          BY Layout DEF RInv, ImageInv
      <4> QED
          BY <1>1, <4>1 DEF RInv, ImageInv
    <3> QED
        BY <3>1 DEF initialise_initrd
  <2> QED
      BY <1>1, <2>1, <2>2 DEF RInv, ImageInv
<1>4. PlaceInv' /\ CallInv'
    BY <1>1, Constants DEF PlaceInv, CallInv
<1>5. ShownInv'
  <2>1. Listed(shown, 0, Expected) /\ shown' = shown
      BY <1>1 DEF RInv, ShownInv, Entries, initialise_initrd
  <2>2. Listed(shown', 0, Expected')
      BY <2>1 DEF Listed
  <2> QED
      BY <1>1, <2>2 DEF ShownInv, Entries
<1> QED
    BY <1>2, <1>3, <1>4, <1>5 DEF RInv

LEMMA ReaddirStep == RInv /\ readdir_fs => RInv'
<1> SUFFICES ASSUME RInv, readdir_fs PROVE RInv'
    OBVIOUS
<1>1. /\ at = "readdir" /\ at' \in {"finddir", "end"} /\ entry \in Nat /\ entry' = entry
      /\ entry <= NFILES + 1 /\ shown' = shown /\ UNCHANGED files /\ ImageInv
    BY DEF readdir_fs, RInv, PlaceInv
<1>2. MemInv'
    BY DEF RInv, readdir_fs, MemInv, TypeOK, PrefixDone, Correct, Standard, vars
<1>3. ImageInv' /\ NamesDistinct' = NamesDistinct /\ Expected' = Expected
    BY <1>1, SameImage
<1> DEFINE d == initrd_readdir(entry)
<1>4. /\ d = "none" => entry = NFILES + 1
      /\ d # "none" => entry <= NFILES
    BY <1>1, Readdir
<1>5. dirent' = d /\ at' = IF d = "none" THEN "end" ELSE "finddir"
    BY DEF readdir_fs
<1>6. initrd_readdir(entry)' = d
    BY <1>1 DEF initrd_readdir, files
<1> HIDE DEF d
<1>7. PlaceInv'
    BY <1>1, <1>4, <1>5, <1>6 DEF PlaceInv
<1>8. CallInv'
    BY <1>1 DEF CallInv
<1>9. ShownInv'
    BY <1>1, <1>3, <1>4, <1>5 DEF ShownInv, Entries, RInv
<1> QED
    BY <1>2, <1>3, <1>7, <1>8, <1>9 DEF RInv

LEMMA FinddirStep == RInv /\ finddir_fs => RInv'
<1> SUFFICES ASSUME RInv, finddir_fs PROVE RInv'
    OBVIOUS
<1>1. /\ at = "finddir" /\ at' # "boot" /\ entry \in Nat /\ entry <= NFILES
      /\ dirent = initrd_readdir(entry) /\ dirent' = dirent /\ buf' = buf
      /\ UNCHANGED files /\ ImageInv /\ node' = initrd_finddir(dirent)
    BY DEF finddir_fs, RInv, PlaceInv
<1>2. ImageInv' /\ NamesDistinct' = NamesDistinct /\ Expected' = Expected
    BY <1>1, SameImage
<1>3. entry = 0 => dirent = "dev"
    BY <1>1, Readdir, Constants
<1>4. entry # 0 => entry \in Files /\ dirent = name[entry]
    BY <1>1, Readdir, Constants
<1>5. NamesDistinct => Listed(shown, entry, Expected)
    BY <1>1 DEF RInv, ShownInv, Entries
<1>6. name' = name /\ bufsize' = bufsize
    BY <1>1 DEF files
<1>7. CASE dirent = "dev"
  <2>1. node' = DEV
      BY <1>1, <1>7 DEF initrd_finddir
  <2>2. /\ shown' = Append(shown, [name |-> dirent, bytes |-> <<>>])
        /\ entry' = entry + 1 /\ at' = "readdir" /\ UNCHANGED vars
      BY <2>1 DEF finddir_fs
  <2>3. MemInv'
      BY <2>2 DEF RInv, MemInv, TypeOK, PrefixDone, Correct, Standard, vars
  <2>4. PlaceInv' /\ CallInv'
      BY <1>1, <2>2, Constants DEF PlaceInv, CallInv
  <2>5. ASSUME NamesDistinct
        PROVE  Listed(shown', entry', Expected)
    <3>1. entry = 0
        BY <1>4, <1>7, <2>5 DEF NamesDistinct
    <3>2. [name |-> dirent, bytes |-> <<>>] \in Expected[0 + 1]
        BY <1>7, Constants DEF Expected
    <3>3. Listed(shown, 0, Expected) /\ 0 \in Nat
        BY <1>5, <2>5, <3>1
    <3>4. Listed(shown', 0 + 1, Expected)
        BY <2>2, <3>2, <3>3, AppendShown
    <3> QED
        BY <2>2, <3>1, <3>4
  <2>6. ShownInv'
      BY <1>2, <2>2, <2>5 DEF ShownInv, Entries
  <2> QED
      BY <1>2, <2>3, <2>4, <2>6 DEF RInv
<1>8. CASE dirent # "dev"
  <2>1. entry \in Files /\ dirent = name[entry]
      BY <1>3, <1>4, <1>8
  <2>2. node' \in Files /\ name[node'] = dirent
      BY <1>1, <1>8, <2>1, Finddir
  <2>3. node' # DEV
      BY <2>2, Constants DEF DEV
  <2>4. Call("memset", bufsize) /\ at' = "memset" /\ shown' = shown /\ entry' = entry
      BY <2>3 DEF finddir_fs
  <2>5. bufsize \in 0 .. MaxN
      BY <1>1 DEF ImageInv
  <2>6. MemInv'
      BY <2>4, <2>5, CallStarts
  <2>7. NamesDistinct => node' = entry
      BY <2>1, <2>2 DEF NamesDistinct
  <2>8. PlaceInv'
      BY <1>1, <1>2, <1>6, <2>1, <2>2, <2>4, <2>7 DEF PlaceInv
  <2>9. CallInv'
      BY <1>6, <2>4 DEF CallInv, Call
  <2>10. ShownInv'
      BY <1>2, <1>5, <2>4 DEF ShownInv, Entries
  <2> QED
      BY <1>2, <2>6, <2>8, <2>9, <2>10 DEF RInv
<1> QED
    BY <1>7, <1>8

LEMMA ReadStep == RInv /\ read_fs => RInv'
<1> SUFFICES ASSUME RInv, read_fs PROVE RInv'
    OBVIOUS
<1>1. /\ at = "memset" /\ at' = "read" /\ entry' = entry /\ dirent' = dirent /\ node' = node
      /\ entry \in Files /\ node \in Files /\ dirent = name[entry] /\ entry \in Nat
      /\ (NamesDistinct => node = entry)
      /\ shown' = shown /\ UNCHANGED files /\ ImageInv
    BY DEF read_fs, RInv, PlaceInv
<1>2. ImageInv' /\ NamesDistinct' = NamesDistinct /\ Expected' = Expected
    BY <1>1, SameImage
<1>3. len' = len /\ name' = name /\ offset' = offset /\ bufsize' = bufsize
    BY <1>1 DEF files
<1> DEFINE l == ReadSize(node, 0, bufsize)
<1>4. bufsize \in 0 .. MaxN /\ 0 + bufsize < Word
    BY <1>1, Constants DEF ImageInv
<1>5. l \in 0 .. MaxN /\ l = Smaller(len[node], bufsize)
  <2>1. node \in Files /\ 0 \in Nat /\ bufsize \in Nat /\ ImageInv
      BY <1>1, <1>4, Constants
  <2>2. l = ReadSize(node, 0, bufsize)
      OBVIOUS
  <2> HIDE DEF l
  <2> QED
      BY ONLY <1>4, <2>1, <2>2, ReadSizeFits
<1>6. Call("memcpy", l) /\ base' = offset[node] + 0
    BY DEF read_fs
<1> HIDE DEF l
<1>7. MemInv'
    BY <1>5, <1>6, CallStarts
<1>8. PlaceInv'
    BY <1>1, <1>2, <1>3 DEF PlaceInv
<1>9. ASSUME NEW x \in 0 .. bufsize - 1 PROVE buf'[x] = ZERO
  <2>1. x \in Idx /\ x < bufsize /\ x \in Int
      BY <1>4, Constants DEF Idx
  <2>2. pc = "done" /\ op = "memset" /\ c = 0 /\ n = bufsize
      BY <1>1 DEF read_fs, Returned, RInv, CallInv
  <2>3. dest[x] = Standard(x)
      BY <2>1, <2>2 DEF RInv, MemInv, Correct
  <2>4. Standard(x) = 0
      BY <1>4, <2>1, <2>2 DEF Standard
  <2>5. buf' = Stored
      BY DEF read_fs
  <2> QED
      BY <2>1, <2>2, <2>3, <2>4, <2>5 DEF Stored, UNTOUCHED
<1>10. offset[node] + 0 = offset[node]
  <2>1. HeaderOffset(len, node) \in Nat
      BY <1>1, Layout DEF ImageInv
  <2> QED
      BY <1>1, <2>1, Constants DEF ImageInv
<1>11. CallInv'
    BY <1>1, <1>3, <1>5, <1>6, <1>9, <1>10 DEF CallInv, Call, Smaller
<1>12. ShownInv'
    BY <1>1, <1>2 DEF ShownInv, Entries, RInv
<1> QED
    BY <1>2, <1>7, <1>8, <1>11, <1>12 DEF RInv

LEMMA PrintStep == RInv /\ print => RInv'
<1> SUFFICES ASSUME RInv, print PROVE RInv'
    OBVIOUS
<1>1. /\ at = "read" /\ at' = "readdir" /\ entry' = entry + 1
      /\ entry \in Files /\ node \in Files /\ dirent = name[entry] /\ entry \in Nat
      /\ (NamesDistinct => node = entry)
      /\ UNCHANGED files /\ ImageInv
    BY DEF print, RInv, PlaceInv
<1>2. ImageInv' /\ NamesDistinct' = NamesDistinct /\ Expected' = Expected
    BY <1>1, SameImage
<1>3. MemInv'
    BY DEF RInv, print, MemInv, TypeOK, PrefixDone, Correct, Standard, vars
<1>4. PlaceInv' /\ CallInv'
    BY <1>1, Constants DEF PlaceInv, CallInv
<1>5. bufsize \in Nat /\ bufsize <= MaxN /\ len[node] \in Nat /\ len[node] <= MaxN
    BY <1>1, Constants DEF ImageInv
<1>6. /\ pc = "done" /\ op = "memcpy" /\ base = offset[node]
      /\ n = Smaller(len[node], bufsize)
      /\ \A x \in 0 .. bufsize - 1 : buf[x] = ZERO
    BY <1>1 DEF print, Returned, RInv, CallInv
<1>7. n \in Nat /\ n <= bufsize /\ n <= len[node]
    BY <1>5, <1>6 DEF Smaller
<1>8. \A x \in Idx : dest[x] = Standard(x)
    BY <1>6 DEF RInv, MemInv, Correct
<1>9. ASSUME NEW x \in 0 .. n - 1 PROVE Stored[x] = <<node, x + 1>>
  <2>1. x \in Idx /\ x \in 0 .. len[node] - 1 /\ ~(x >= n) /\ x # UNTOUCHED
      BY <1>5, <1>7, Constants DEF Idx, UNTOUCHED
  <2>2. dest[x] = x
      BY <1>6, <1>8, <2>1 DEF Standard
  <2>3. Stored[x] = Byte(offset[node] + x)
      BY <1>6, <2>1, <2>2 DEF Stored
  <2> QED
      BY <1>1, <2>1, <2>3, FileBytes
<1>10. ASSUME NEW x \in n .. bufsize - 1 PROVE Stored[x] = ZERO
  <2>1. x \in Idx /\ x \in 0 .. bufsize - 1 /\ x >= n
      BY <1>5, <1>7, Constants DEF Idx
  <2>2. dest[x] = UNTOUCHED
      BY <1>8, <2>1 DEF Standard
  <2>3. Stored[x] = buf[x]
      BY <2>1, <2>2 DEF Stored
  <2> QED
      BY <1>6, <2>1, <2>3
<1>11. Printed(Stored) = Contents(node)
  <2>1. Printed(Stored) = IF n < bufsize THEN {Bytes(node, 0, n)}
                          ELSE {Bytes(node, 0, n) \o Stack(t) : t \in Behind}
      BY <1>1, <1>5, <1>7, <1>9, <1>10, PrintedBytes
  <2>2. CASE len[node] < bufsize
      BY <1>5, <1>6, <2>1, <2>2 DEF Contents, Smaller
  <2>3. CASE ~(len[node] < bufsize)
      BY <1>5, <1>6, <2>1, <2>3 DEF Contents, Smaller
  <2> QED
      BY <2>2, <2>3
<1>12. PICK t \in Contents(node) : shown' = Append(shown, [name |-> dirent, bytes |-> t])
    BY <1>11 DEF print
<1> DEFINE r == [name |-> dirent, bytes |-> t]
<1>13. ASSUME NamesDistinct
       PROVE  Listed(shown', entry', Expected)
  <2>1. node = entry
      BY <1>1, <1>13
  <2>2. entry + 1 \in 1 .. NFILES + 1 /\ entry + 1 # 1 /\ (entry + 1) - 1 = entry
      BY <1>1, Constants
  <2>3. r \in Expected[entry + 1]
      BY <1>1, <1>12, <2>1, <2>2 DEF Expected
  <2>4. Listed(shown, entry, Expected) /\ shown' = Append(shown, r)
      BY <1>1, <1>12, <1>13 DEF RInv, ShownInv, Entries
  <2> HIDE DEF r
  <2>5. Listed(shown', entry + 1, Expected)
      BY <1>1, <2>3, <2>4, AppendShown
  <2> QED
      BY <1>1, <2>5
<1>14. ShownInv'
    BY <1>1, <1>2, <1>13 DEF ShownInv, Entries
<1> QED
    BY <1>2, <1>3, <1>4, <1>14 DEF RInv

LEMMA ClientReadStep ==
    ASSUME RInv, NEW k \in Files, NEW off \in Offsets, NEW size \in Sizes,
           client_read(k, off, size)
    PROVE  RInv'
<1>1. /\ at = "end" /\ at' \in {"client", "fault"} /\ entry' = NFILES + 2 /\ node' = k
      /\ asked' = off + size /\ base' = offset[k] + off
      /\ shown' = shown /\ UNCHANGED files /\ ImageInv
    BY DEF client_read, RInv
<1>2. ImageInv' /\ NamesDistinct' = NamesDistinct /\ Expected' = Expected
    BY <1>1, SameImage
<1>3. len' = len /\ offset' = offset
    BY <1>1 DEF files
<1> DEFINE l == ReadSize(k, off, size)
<1>4. off \in Nat /\ size \in Nat /\ len[k] \in Nat
    BY <1>1, Constants DEF ImageInv
<1>5. l \in Nat
    BY <1>4 DEF ReadSize
<1>6. off + size < Word => l \in 0 .. MaxN /\ (l > 0 => off + l <= len[k])
    BY <1>1, <1>4, ReadSizeFits
<1>7. IF l <= MaxN THEN Call("memcpy", l) /\ at' = "client"
      ELSE UNCHANGED vars /\ at' = "fault"
    BY DEF client_read
<1> HIDE DEF l
<1>8. PlaceInv'
    BY <1>1, Constants DEF PlaceInv
<1>9. ShownInv'
    BY <1>1, <1>2 DEF ShownInv, Entries, RInv
<1>10. CASE l <= MaxN
  <2>1. Call("memcpy", l) /\ at' = "client" /\ l \in 0 .. MaxN
      BY <1>5, <1>7, <1>10, Constants
  <2>2. MemInv'
      BY <2>1, CallStarts
  <2>3. offset[k] \in Nat
    <3>1. HeaderOffset(len, k) \in Nat
        BY <1>1, Layout DEF ImageInv
    <3> QED
        BY <1>1, <3>1, Constants DEF ImageInv
  <2>4. n' = l /\ op' = "memcpy"
      BY <2>1 DEF Call
  <2>5. asked' < Word /\ l > 0 => /\ base' \in Int /\ offset[k] <= base'
                                  /\ base' + l <= offset[k] + len[k]
      BY <1>1, <1>4, <1>6, <2>1, <2>3
  <2>6. CallInv'
      BY <1>1, <1>3, <2>1, <2>4, <2>5 DEF CallInv
  <2> QED
      BY <1>2, <1>8, <1>9, <2>2, <2>6 DEF RInv
<1>11. CASE ~(l <= MaxN)
  <2>1. UNCHANGED vars /\ at' = "fault"
      BY <1>7, <1>11
  <2>2. MemInv'
      BY <2>1 DEF RInv, MemInv, TypeOK, PrefixDone, Correct, Standard, vars
  <2>3. asked' >= Word
      BY <1>1, <1>4, <1>5, <1>6, <1>11, Constants
  <2>4. CallInv'
      BY <2>1, <2>3 DEF CallInv
  <2> QED
      BY <1>2, <1>8, <1>9, <2>2, <2>4 DEF RInv
<1> QED
    BY <1>10, <1>11

LEMMA ClientReturnStep == RInv /\ client_return => RInv'
<1> SUFFICES ASSUME RInv, client_return PROVE RInv'
    OBVIOUS
<1>1. /\ at = "client" /\ at' = "end" /\ entry' = entry /\ entry \in Nat
      /\ shown' = shown /\ UNCHANGED files /\ ImageInv
    BY DEF client_return, RInv, PlaceInv
<1>2. ImageInv' /\ NamesDistinct' = NamesDistinct /\ Expected' = Expected
    BY <1>1, SameImage
<1>3. MemInv'
    BY DEF RInv, client_return, MemInv, TypeOK, PrefixDone, Correct, Standard, vars
<1>4. PlaceInv' /\ CallInv'
    BY <1>1 DEF PlaceInv, CallInv
<1>5. ShownInv'
    BY <1>1, <1>2 DEF ShownInv, Entries, RInv
<1> QED
    BY <1>2, <1>3, <1>4, <1>5 DEF RInv

\* The call and everything around it stay as they are.
LEMMA SameCall ==
    ASSUME RInv, UNCHANGED <<op, n, c, files, at, entry, dirent, node, asked, base, buf, shown>>
    PROVE  ImageInv' /\ PlaceInv' /\ CallInv' /\ ShownInv'
<1>1. len' = len /\ name' = name /\ offset' = offset /\ bufsize' = bufsize
    BY DEF files
<1>2. NamesDistinct' = NamesDistinct /\ Expected' = Expected
    BY <1>1 DEF NamesDistinct, Expected, Contents
<1>3. ImageInv'
    BY <1>1 DEF RInv, ImageInv
<1>4. initrd_readdir(entry)' = initrd_readdir(entry)
    BY <1>1 DEF initrd_readdir
<1>5. PlaceInv'
    BY <1>1, <1>2, <1>4 DEF RInv, PlaceInv
<1>6. CallInv'
    BY <1>1 DEF RInv, CallInv, Smaller
<1>7. ShownInv'
    BY <1>2 DEF RInv, ShownInv, Entries
<1> QED
    BY <1>3, <1>5, <1>6, <1>7

LEMMA MemopStep == RInv /\ Memop => RInv'
<1> SUFFICES ASSUME RInv, Memop PROVE RInv'
    OBVIOUS
<1>1. MemInv'
    BY MoveInv, ReturnInv DEF RInv, Memop, Next
<1>2. UNCHANGED <<op, n, c, files, at, entry, dirent, node, asked, base, buf, shown>>
    BY DEF Memop, Next, Move, Return
<1> QED
    BY <1>1, <1>2, SameCall DEF RInv

LEMMA RInitInv == RInit => RInv
<1> SUFFICES ASSUME RInit PROVE RInv
    OBVIOUS
<1>1. MemInv
    BY InitInv DEF RInit
<1>2. at = "boot" /\ entry = 0 /\ shown = <<>>
    BY DEF RInit
<1>3. ImageInv
  <2>1. len \in [Files -> 0 .. MaxN] /\ bufsize \in 0 .. MaxN
      BY Constants DEF RInit
  <2>2. \A k \in Files : HeaderOffset(len, k) \in Nat
      BY <2>1, Layout
  <2>3. offset = [k \in Files |-> HeaderOffset(len, k) + 0]
      BY <2>2 DEF RInit
  <2> QED
      BY <1>2, <2>1, <2>3 DEF ImageInv
<1>4. PlaceInv /\ CallInv
    BY <1>2 DEF PlaceInv, CallInv
<1>5. ShownInv
  <2>1. Listed(shown, 0, Expected)
      BY <1>2 DEF Listed
  <2> QED
      BY <1>2, <2>1 DEF ShownInv, Entries
<1> QED
    BY <1>1, <1>3, <1>4, <1>5 DEF RInv

LEMMA RSpecInv == RSpec => []RInv
<1>1. RInit => RInv
    BY RInitInv
<1>2. RInv /\ [RNext]_rvars => RInv'
  <2> SUFFICES ASSUME RInv, [RNext]_rvars PROVE RInv'
      OBVIOUS
  <2>1. CASE Memop
      BY <2>1, MemopStep
  <2>2. CASE initialise_initrd
      BY <2>2, BootStep
  <2>3. CASE readdir_fs
      BY <2>3, ReaddirStep
  <2>4. CASE finddir_fs
      BY <2>4, FinddirStep
  <2>5. CASE read_fs
      BY <2>5, ReadStep
  <2>6. CASE print
      BY <2>6, PrintStep
  <2>7. CASE \E k \in Files, off \in Offsets, size \in Sizes : client_read(k, off, size)
      BY <2>7, ClientReadStep
  <2>8. CASE client_return
      BY <2>8, ClientReturnStep
  <2>9. CASE UNCHANGED rvars
    <3>1. MemInv'
        BY <2>9 DEF RInv, MemInv, TypeOK, PrefixDone, Correct, Standard, rvars, vars
    <3>2. UNCHANGED <<op, n, c, files, at, entry, dirent, node, asked, base, buf, shown>>
        BY <2>9 DEF rvars, vars, files
    <3> QED
        BY <3>1, <3>2, SameCall DEF RInv
  <2> QED
      BY <2>1, <2>2, <2>3, <2>4, <2>5, <2>6, <2>7, <2>8, <2>9 DEF RNext
<1> QED
    BY <1>1, <1>2, PTL DEF RSpec

-----------------------------------------------------------------------------
(* The theorems about the ramdisk                                          *)

\* Every call of memset and memcpy that the traversal and the other readers make
\* keeps the loop's invariant and leaves what the C library's functions would.
THEOREM CallsCorrect == RSpec => [](PrefixDone /\ Correct)
<1>1. RInv => PrefixDone /\ Correct
    BY DEF RInv, MemInv
<1> QED
    BY <1>1, RSpecInv, PTL

\* What initrd_read copies are bytes of the file it was asked to read, from the
\* place asked for, for every image, offset and size whose sum does not wrap; the
\* reads that run beyond the file are among those whose sum does.
THEOREM ReadsInsideAlways == RSpec => []ReadsInside
<1>1. RInv => ReadsInside
  <2>0. RInv /\ at = "fault" => asked >= Word
      BY DEF RInv, CallInv
  <2> SUFFICES ASSUME RInv, at \in {"read", "client"}, asked < Word, NEW x \in 0 .. n - 1
               PROVE  Byte(base + x) = <<node, base - offset[node] + x + 1>>
      BY <2>0 DEF ReadsInside
  <2>1. node \in Files /\ ImageInv /\ n \in Nat /\ n > 0
      BY Constants DEF RInv, PlaceInv, CallInv, MemInv, TypeOK
  <2>2. offset[node] \in Nat /\ len[node] \in Nat
    <3>1. HeaderOffset(len, node) \in Nat
        BY <2>1, Layout DEF ImageInv
    <3> QED
        BY <2>1, <3>1, Constants DEF ImageInv
  <2>3. /\ base \in Int /\ offset[node] <= base
        /\ base + n <= offset[node] + len[node]
    <3>1. CASE at = "read"
        BY <2>1, <2>2, <3>1 DEF RInv, CallInv, ImageInv, Smaller
    <3>2. CASE at = "client"
        BY <2>1, <3>2 DEF RInv, CallInv
    <3> QED
        BY <3>1, <3>2
  <2> DEFINE y == (base - offset[node]) + x
  <2>4. y \in 0 .. len[node] - 1 /\ offset[node] + y = base + x
      BY <2>1, <2>2, <2>3
  <2> HIDE DEF y
  <2>5. Byte(base + x) = <<node, y + 1>>
      BY <2>1, <2>4, FileBytes
  <2> QED
      BY <2>5 DEF y
<1> QED
    BY <1>1, RSpecInv, PTL

\* The traversal shows /dev and every file once and in order, for every image
\* whose names are still distinct: whole if the file is shorter than the buffer;
\* otherwise printf, which finds no NUL, goes on behind the buffer.
THEOREM ShowsImageAlways == RSpec => []ShowsImage
<1>1. RInv => ShowsImage
  <2> SUFFICES ASSUME RInv, at # "boot", NamesDistinct
               PROVE  /\ Len(shown) <= NFILES + 1
                      /\ \A e \in 1 .. Len(shown) : shown[e] \in Expected[e]
                      /\ at = "end" => Len(shown) = NFILES + 1
      BY DEF ShowsImage
  <2> DEFINE m == Entries
  <2>1. m \in Nat /\ m <= NFILES + 1
      BY Constants DEF Entries, RInv, PlaceInv
  <2>2. shown = [e \in 1 .. m |-> shown[e]] /\ \A e \in 1 .. m : shown[e] \in Expected[e]
      BY DEF RInv, ShownInv, Listed
  <2>3. at = "end" => m = NFILES + 1
      BY DEF Entries
  <2> HIDE DEF m
  <2>4. Len(shown) = m
      BY <2>1, <2>2
  <2> QED
      BY <2>1, <2>2, <2>3, <2>4
<1> QED
    BY <1>1, RSpecInv, PTL

==============================================================================
