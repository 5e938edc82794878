----------------------------- MODULE HeapProofs -----------------------------
(***************************************************************************)
(* Proofs about the kernel heap under the discipline of its callers, for   *)
(* every size of the heap, of a page, of a header and of a footer, and for *)
(* every sequence of requests.                                             *)
(***************************************************************************)
EXTENDS MCHeap, OrderedArrayProofs

-----------------------------------------------------------------------------
(* The inductive invariant                                                 *)

\* What the allocator's memory always is.
MemOK(m) ==
    /\ m = Mem(m.hdr, m.ftr, m.index)
    /\ DOMAIN m.hdr \subseteq Nat
    /\ m.hdr = [a \in DOMAIN m.hdr |-> m.hdr[a]]
    /\ \A a \in DOMAIN m.hdr : m.hdr[a] \in [hole : BOOLEAN, size : Nat]
    /\ DOMAIN m.ftr \subseteq Nat
    /\ m.ftr = [a \in DOMAIN m.ftr |-> m.ftr[a]]
    /\ \A a \in DOMAIN m.ftr : a >= START /\ m.ftr[a] \in Nat
    /\ m.index \in Seq(Nat)

EndAt(m, t) == t + m.hdr[t].size

\* A tile: a header that says what it is and, unless it is the last tile of the
\* heap, a footer at its end that points back (the first hole is written without).
\* After a right merge the footer of a hole may point into the hole instead.
Inside(H, t, h, e) == h = t \/ (t \in H /\ t < h /\ h < e)
TileOK(m, H, t, e) ==
    /\ t \in DOMAIN m.hdr
    /\ m.hdr[t].hole = (t \in H)
    /\ m.hdr[t].size >= HDR + FTR
    /\ EndAt(m, t) - FTR \in DOMAIN m.ftr =>
          Inside(H, t, m.ftr[EndAt(m, t) - FTR], EndAt(m, t))
    /\ EndAt(m, t) # e => EndAt(m, t) - FTR \in DOMAIN m.ftr

\* The tiles of T that start in lo .. hi - 1 tile that range.
Region(m, H, T, lo, hi, e) ==
    /\ lo < hi => lo \in T
    /\ \A t \in T : lo <= t /\ t < hi =>
          /\ TileOK(m, H, t, e)
          /\ EndAt(m, t) <= hi
          /\ EndAt(m, t) \in T \/ EndAt(m, t) = hi
          /\ \A u \in T : t < u /\ u < hi => EndAt(m, t) <= u

\* The whole heap: its last tile is a hole, and no two holes are adjacent.
Sound(m, H, T, e) ==
    /\ H \subseteq T /\ T \subseteq START .. e - 1
    /\ Region(m, H, T, START, e, e)
    /\ \A t \in T \ H : EndAt(m, t) # e
    /\ \A t \in H : EndAt(m, t) \notin H

MemInv ==
    /\ MemOK(Now)
    /\ Injective(index)
    /\ Holes \cap Blocks = {}
    /\ Sound(Now, Holes, Tiles, end)

EndInv ==
    /\ end \in Nat /\ START + MIN_SIZE <= end /\ end <= MAX_END
    /\ (end - START) % PAGE = 0
    /\ START \div PAGE .. end \div PAGE - 1 \subseteq backed

LiveInv ==
    /\ live = [p \in DOMAIN live |-> live[p]] /\ DOMAIN live \subseteq Nat
    /\ \A p \in DOMAIN live : live[p] \in Nat /\ hdr[Header(p)].size >= Gross(live[p])

ReqInv ==
    /\ req \in [size : Nat, align : BOOLEAN]
    /\ req # NoReq => AllocSafe(req.size, req.align)

IInv == MemInv /\ EndInv /\ LiveInv /\ ReqInv /\ NoFault /\ client \in Clients

-----------------------------------------------------------------------------
(* Regions                                                                 *)

\* The sizes of the code's structures, without the facts most steps do not need.
Sizes == /\ HDR \in Nat /\ FTR \in Nat /\ 0 < HDR /\ 0 < FTR /\ START \in Nat
         /\ PAGE \in Nat /\ HDR + FTR < PAGE /\ PAGE <= START

LEMMA SizesHold == Sizes
BY HeapAssumption DEF Sizes

LEMMA SizeType ==
    ASSUME NEW m, MemOK(m), NEW t \in DOMAIN m.hdr
    PROVE  t \in Nat /\ m.hdr[t].size \in Nat /\ EndAt(m, t) \in Nat
BY DEF MemOK, EndAt

LEMMA SplitRegion ==
    ASSUME NEW m, NEW H, NEW T, NEW lo \in Nat, NEW mid \in Nat, NEW hi \in Nat, NEW e,
           MemOK(m), T \subseteq Nat, Region(m, H, T, lo, hi, e),
           lo <= mid, mid <= hi, mid \in T \/ mid = hi
    PROVE  Region(m, H, T, lo, mid, e) /\ Region(m, H, T, mid, hi, e)
<1>1. ASSUME NEW t \in T, lo <= t, t < hi
      PROVE  /\ TileOK(m, H, t, e) /\ EndAt(m, t) \in Nat /\ EndAt(m, t) <= hi /\ t \in Nat
             /\ EndAt(m, t) \in T \/ EndAt(m, t) = hi
             /\ \A u \in T : t < u /\ u < hi => EndAt(m, t) <= u
    BY <1>1, SizeType DEF Region, TileOK
<1>2. Region(m, H, T, lo, mid, e)
  <2>1. lo < mid => lo \in T
      BY DEF Region
  <2>2. ASSUME NEW t \in T, lo <= t, t < mid
        PROVE  /\ TileOK(m, H, t, e)
               /\ EndAt(m, t) <= mid
               /\ EndAt(m, t) \in T \/ EndAt(m, t) = mid
               /\ \A u \in T : t < u /\ u < mid => EndAt(m, t) <= u
    <3>1. t < hi /\ t \in Nat
        BY <2>2
    <3>2. /\ TileOK(m, H, t, e) /\ EndAt(m, t) \in Nat /\ EndAt(m, t) <= hi
          /\ EndAt(m, t) \in T \/ EndAt(m, t) = hi
          /\ \A u \in T : t < u /\ u < hi => EndAt(m, t) <= u
        BY <1>1, <2>2, <3>1
    <3> QED
        BY <2>2, <3>1, <3>2
  <2> QED
      BY <2>1, <2>2 DEF Region
<1>3. Region(m, H, T, mid, hi, e)
  <2>1. ASSUME NEW t \in T, mid <= t, t < hi
        PROVE  /\ TileOK(m, H, t, e)
               /\ EndAt(m, t) <= hi
               /\ EndAt(m, t) \in T \/ EndAt(m, t) = hi
               /\ \A u \in T : t < u /\ u < hi => EndAt(m, t) <= u
    <3>1. t \in Nat /\ lo <= t
        BY <2>1
    <3> QED
        BY <1>1, <2>1, <3>1
  <2> QED
      BY <2>1 DEF Region
<1> QED
    BY <1>2, <1>3

LEMMA JoinRegion ==
    ASSUME NEW m, NEW H, NEW T, NEW lo \in Nat, NEW mid \in Nat, NEW hi \in Nat, NEW e,
           MemOK(m), T \subseteq Nat, lo <= mid, mid <= hi,
           Region(m, H, T, lo, mid, e), Region(m, H, T, mid, hi, e)
    PROVE  Region(m, H, T, lo, hi, e)
<1>1. lo < hi => lo \in T
    BY DEF Region
<1>2. ASSUME NEW t \in T, lo <= t, t < hi
      PROVE  /\ TileOK(m, H, t, e)
             /\ EndAt(m, t) <= hi
             /\ EndAt(m, t) \in T \/ EndAt(m, t) = hi
             /\ \A u \in T : t < u /\ u < hi => EndAt(m, t) <= u
  <2>1. CASE t < mid
    <3>1. /\ TileOK(m, H, t, e)
          /\ EndAt(m, t) <= mid
          /\ EndAt(m, t) \in T \/ EndAt(m, t) = mid
          /\ \A u \in T : t < u /\ u < mid => EndAt(m, t) <= u
        BY <1>2, <2>1 DEF Region
    <3>2. EndAt(m, t) \in Nat
        BY <3>1, SizeType DEF TileOK
    <3>3. mid \in T \/ mid = hi
        BY DEF Region
    <3> QED
        BY <1>2, <3>1, <3>2, <3>3
  <2>2. CASE mid <= t
      BY <1>2, <2>2 DEF Region
  <2> QED
      BY <1>2, <2>1, <2>2
<1> QED
    BY <1>1, <1>2 DEF Region

\* A region of one tile.
LEMMA OneTile ==
    ASSUME NEW m, NEW H, NEW T, NEW lo \in Nat, NEW hi \in Nat, NEW e,
           T \subseteq Nat, lo \in T, \A t \in T : lo < t => hi <= t,
           TileOK(m, H, lo, e), EndAt(m, lo) = hi
    PROVE  Region(m, H, T, lo, hi, e)
<1>1. \A t \in T : lo <= t /\ t < hi => t = lo
    OBVIOUS
<1> QED
    BY <1>1 DEF Region

\* What lies in lo .. hi - 1 is the same in both memories.
SameOn(m, n, lo, hi) ==
    /\ \A a \in Nat : lo <= a /\ a + HDR <= hi /\ a \in DOMAIN m.hdr =>
                         a \in DOMAIN n.hdr /\ n.hdr[a] = m.hdr[a]
    /\ \A a \in Nat : lo <= a /\ a + FTR <= hi =>
                         /\ a \in DOMAIN m.ftr <=> a \in DOMAIN n.ftr
                         /\ a \in DOMAIN m.ftr => n.ftr[a] = m.ftr[a]

LEMMA SameOnTrans ==
    ASSUME NEW m, NEW n, NEW o, NEW lo \in Nat, NEW hi \in Nat,
           SameOn(m, n, lo, hi), SameOn(n, o, lo, hi)
    PROVE  SameOn(m, o, lo, hi)
BY DEF SameOn

LEMMA SameOnPart ==
    ASSUME NEW m, NEW n, NEW lo \in Nat, NEW hi \in Nat, NEW l \in Nat, NEW h \in Nat,
           SameOn(m, n, lo, hi), lo <= l, h <= hi
    PROVE  SameOn(m, n, l, h)
BY SizesHold DEF SameOn, Sizes

\* A tile in a range that is the same in both memories.
TileFrame(m, n, H, K, t, lo, hi, e, f) ==
    /\ t \in Nat /\ lo \in Nat /\ hi \in Nat
    /\ MemOK(m) /\ SameOn(m, n, lo, hi) /\ TileOK(m, H, t, e)
    /\ lo <= t /\ EndAt(m, t) <= hi /\ (t \in H <=> t \in K)
    /\ e = f \/ EndAt(m, t) # e

LEMMA FrameTile ==
    ASSUME NEW m, NEW n, NEW H, NEW K, NEW t, NEW lo, NEW hi, NEW e, NEW f,
           TileFrame(m, n, H, K, t, lo, hi, e, f)
    PROVE  TileOK(n, K, t, f) /\ EndAt(n, t) = EndAt(m, t)
<1> USE SizesHold DEF Sizes
<1>0. /\ t \in Nat /\ lo \in Nat /\ hi \in Nat
      /\ MemOK(m) /\ SameOn(m, n, lo, hi) /\ TileOK(m, H, t, e)
      /\ lo <= t /\ EndAt(m, t) <= hi /\ (t \in H <=> t \in K)
      /\ e = f \/ EndAt(m, t) # e
    BY DEF TileFrame
<1>1. t \in DOMAIN m.hdr /\ m.hdr[t].size \in Nat /\ EndAt(m, t) \in Nat
    BY <1>0, SizeType DEF TileOK
<1>2. m.hdr[t].size >= HDR + FTR /\ EndAt(m, t) = t + m.hdr[t].size
    BY <1>0 DEF TileOK, EndAt
<1>3. t + HDR <= hi
    BY <1>0, <1>1, <1>2
<1>4. t \in DOMAIN n.hdr /\ n.hdr[t] = m.hdr[t]
    BY <1>0, <1>1, <1>3 DEF SameOn
<1>5. EndAt(n, t) = EndAt(m, t)
    BY <1>4 DEF EndAt
<1> DEFINE a == EndAt(m, t) - FTR
<1>6. a \in Nat /\ lo <= a /\ a + FTR <= hi
    BY <1>0, <1>1, <1>2
<1> HIDE DEF a
<1>7. /\ a \in DOMAIN m.ftr <=> a \in DOMAIN n.ftr
      /\ a \in DOMAIN m.ftr => n.ftr[a] = m.ftr[a]
    BY <1>0, <1>6 DEF SameOn
<1>8. /\ a \in DOMAIN m.ftr => Inside(K, t, m.ftr[a], EndAt(m, t))
      /\ EndAt(m, t) # e => a \in DOMAIN m.ftr
    BY <1>0 DEF TileOK, Inside, a
<1>9. /\ EndAt(n, t) - FTR \in DOMAIN n.ftr =>
            Inside(K, t, n.ftr[EndAt(n, t) - FTR], EndAt(n, t))
      /\ EndAt(n, t) # f => EndAt(n, t) - FTR \in DOMAIN n.ftr
    BY <1>0, <1>5, <1>7, <1>8 DEF a
<1>10. n.hdr[t].hole = (t \in K) /\ n.hdr[t].size >= HDR + FTR
  <2>1. m.hdr[t].hole = (t \in H)
      BY <1>0 DEF TileOK
  <2> QED
      BY <1>0, <1>2, <1>4, <2>1
<1> QED
    BY <1>4, <1>5, <1>9, <1>10 DEF TileOK

\* A region that is the same in both memories, where both have the same tiles.
RegionFrame(m, n, H, K, T, V, lo, hi, e, f) ==
    /\ lo \in Nat /\ hi \in Nat /\ e \in Nat /\ f \in Nat
    /\ MemOK(m) /\ T \subseteq Nat /\ V \subseteq Nat
    /\ SameOn(m, n, lo, hi) /\ Region(m, H, T, lo, hi, e)
    /\ \A t \in Nat : lo <= t /\ t < hi =>
            /\ t \in H <=> t \in K
            /\ t \in T <=> t \in V
    /\ e = f \/ hi < e

LEMMA FrameRegion ==
    ASSUME NEW m, NEW n, NEW H, NEW K, NEW T, NEW V, NEW lo, NEW hi, NEW e, NEW f,
           RegionFrame(m, n, H, K, T, V, lo, hi, e, f)
    PROVE  Region(n, K, V, lo, hi, f)
<1>0. /\ lo \in Nat /\ hi \in Nat /\ e \in Nat /\ f \in Nat
      /\ MemOK(m) /\ T \subseteq Nat /\ V \subseteq Nat
      /\ SameOn(m, n, lo, hi) /\ Region(m, H, T, lo, hi, e)
      /\ \A t \in Nat : lo <= t /\ t < hi =>
              /\ t \in H <=> t \in K
              /\ t \in T <=> t \in V
      /\ e = f \/ hi < e
    BY DEF RegionFrame
<1>1. ASSUME NEW t \in V, lo <= t, t < hi
      PROVE  /\ TileOK(n, K, t, f)
             /\ EndAt(n, t) <= hi
             /\ EndAt(n, t) \in V \/ EndAt(n, t) = hi
             /\ \A u \in V : t < u /\ u < hi => EndAt(n, t) <= u
  <2>1. t \in T /\ t \in Nat /\ (t \in H <=> t \in K)
      BY <1>0, <1>1
  <2>2. /\ TileOK(m, H, t, e)
        /\ EndAt(m, t) <= hi
        /\ EndAt(m, t) \in T \/ EndAt(m, t) = hi
        /\ \A u \in T : t < u /\ u < hi => EndAt(m, t) <= u
      BY <1>0, <1>1, <2>1 DEF Region
  <2>3. EndAt(m, t) \in Nat /\ t \in DOMAIN m.hdr
      BY <1>0, <2>2, SizeType DEF TileOK
  <2>4. e = f \/ EndAt(m, t) # e
      BY <1>0, <2>2, <2>3
  <2>5. TileOK(n, K, t, f) /\ EndAt(n, t) = EndAt(m, t)
    <3>1. TileFrame(m, n, H, K, t, lo, hi, e, f)
        BY <1>0, <1>1, <2>1, <2>2, <2>4 DEF TileFrame
    <3> QED
        BY <3>1, FrameTile
  <2>6. t <= EndAt(m, t)
      BY <1>0, <2>1, <2>3, SizeType DEF EndAt
  <2>7. EndAt(m, t) \in V \/ EndAt(m, t) = hi
    <3>1. CASE EndAt(m, t) < hi
        BY <1>0, <1>1, <2>1, <2>2, <2>3, <2>6, <3>1
    <3> QED
        BY <1>0, <2>2, <2>3, <3>1
  <2>8. ASSUME NEW u \in V, t < u, u < hi PROVE EndAt(m, t) <= u
    <3>1. u \in T
        BY <1>0, <1>1, <2>1, <2>8
    <3> QED
        BY <1>0, <2>2, <2>8, <3>1
  <2> QED
      BY <1>0, <2>2, <2>5, <2>7, <2>8
<1>2. lo < hi => lo \in V
    BY <1>0 DEF Region
<1> QED
    BY <1>0, <1>1, <1>2 DEF Region

-----------------------------------------------------------------------------
(* Writes                                                                  *)

LEMMA MemExcept ==
    ASSUME NEW g, NEW k, NEW y, NEW h, NEW f, NEW x
    PROVE  /\ [Mem(g, k, y) EXCEPT !.hdr = h] = Mem(h, k, y)
           /\ [Mem(g, k, y) EXCEPT !.ftr = f] = Mem(g, f, y)
           /\ [Mem(g, k, y) EXCEPT !.index = x] = Mem(g, k, x)
BY DEF Mem

LEMMA MemShape ==
    ASSUME NEW m, MemOK(m), NEW h, NEW f, NEW x
    PROVE  /\ [m EXCEPT !.hdr = h] = Mem(h, m.ftr, m.index)
           /\ [m EXCEPT !.ftr = f] = Mem(m.hdr, f, m.index)
           /\ [m EXCEPT !.index = x] = Mem(m.hdr, m.ftr, x)
<1> DEFINE g == m.hdr
           k == m.ftr
           y == m.index
<1>1. m = Mem(g, k, y)
    BY DEF MemOK
<1> HIDE DEF g, k, y
<1>2. /\ [m EXCEPT !.hdr = h] = Mem(h, k, y)
      /\ [m EXCEPT !.ftr = f] = Mem(g, f, y)
      /\ [m EXCEPT !.index = x] = Mem(g, k, x)
    BY ONLY <1>1, MemExcept
<1> QED
    BY <1>2 DEF g, k, y

LEMMA MemFields ==
    ASSUME NEW h, NEW f, NEW x
    PROVE  Mem(h, f, x).hdr = h /\ Mem(h, f, x).ftr = f /\ Mem(h, f, x).index = x
BY DEF Mem

\* What a write of n bytes at a leaves, in its fields.
LEMMA WipeFacts ==
    ASSUME NEW m, MemOK(m), NEW a \in Nat, NEW n \in Nat
    PROVE  LET w == Wipe(m, a, n)
           IN  /\ w.hdr = Keep(m.hdr, HDR, a, n)
               /\ w.ftr = Keep(m.ftr, FTR, a, n)
               /\ w.index = m.index
               /\ MemOK(w)
<1> DEFINE w == Wipe(m, a, n)
           h == Keep(m.hdr, HDR, a, n)
           f == Keep(m.ftr, FTR, a, n)
<1>1. w = Mem(h, f, m.index)
    BY DEF Wipe
<1>2. w.hdr = h /\ w.ftr = f /\ w.index = m.index
    BY <1>1, MemFields
<1>3. /\ DOMAIN h \subseteq DOMAIN m.hdr /\ \A x \in DOMAIN h : h[x] = m.hdr[x]
      /\ h = [x \in DOMAIN h |-> h[x]]
    BY DEF Keep
<1>4. /\ DOMAIN f \subseteq DOMAIN m.ftr /\ \A x \in DOMAIN f : f[x] = m.ftr[x]
      /\ f = [x \in DOMAIN f |-> f[x]]
    BY DEF Keep
<1> HIDE DEF w, h, f
<1>5. MemOK(w)
  <2>1. w = Mem(w.hdr, w.ftr, w.index)
      BY <1>1, <1>2
  <2>2. /\ DOMAIN h \subseteq Nat /\ h = [x \in DOMAIN h |-> h[x]]
        /\ \A x \in DOMAIN h : h[x] \in [hole : BOOLEAN, size : Nat]
      BY <1>3 DEF MemOK
  <2>3. /\ DOMAIN f \subseteq Nat /\ f = [x \in DOMAIN f |-> f[x]]
        /\ \A x \in DOMAIN f : x >= START /\ f[x] \in Nat
      BY <1>4 DEF MemOK
  <2>4. m.index \in Seq(Nat)
      BY DEF MemOK
  <2> QED
      BY <1>2, <2>1, <2>2, <2>3, <2>4 DEF MemOK
<1> QED
    BY <1>2, <1>5 DEF w, h, f

\* Outside of the bytes it writes, each of the three writes changes nothing.
LEMMA WipeFrame ==
    ASSUME NEW m, MemOK(m), NEW a \in Nat, NEW n \in Nat, NEW lo \in Nat, NEW hi \in Nat,
           a + n <= lo \/ hi <= a
    PROVE  SameOn(m, Wipe(m, a, n), lo, hi)
<1> USE SizesHold DEF Sizes
<1> DEFINE w == Wipe(m, a, n)
<1>1. w.hdr = Keep(m.hdr, HDR, a, n) /\ w.ftr = Keep(m.ftr, FTR, a, n)
    BY WipeFacts
<1> HIDE DEF w
<1>2. ASSUME NEW x \in Nat, lo <= x, x + HDR <= hi, x \in DOMAIN m.hdr
      PROVE  x \in DOMAIN w.hdr /\ w.hdr[x] = m.hdr[x]
  <2>1. ~Overlap(x, HDR, a, n)
      BY <1>2 DEF Overlap
  <2>2. x \in DOMAIN Keep(m.hdr, HDR, a, n)
      BY <1>2, <2>1 DEF Keep
  <2> QED
      BY <1>1, <2>2 DEF Keep
<1>3. ASSUME NEW x \in Nat, lo <= x, x + FTR <= hi
      PROVE  /\ x \in DOMAIN m.ftr <=> x \in DOMAIN w.ftr
             /\ x \in DOMAIN m.ftr => w.ftr[x] = m.ftr[x]
  <2>1. ~Overlap(x, FTR, a, n)
      BY <1>3 DEF Overlap
  <2>2. x \in DOMAIN Keep(m.ftr, FTR, a, n) <=> x \in DOMAIN m.ftr
      BY <1>3, <2>1 DEF Keep
  <2> QED
      BY <1>1, <2>2 DEF Keep
<1>4. SameOn(m, w, lo, hi)
    BY <1>2, <1>3 DEF SameOn
<1> QED
    BY <1>4 DEF w

LEMMA PutHeaderFacts ==
    ASSUME NEW m, MemOK(m), NEW a \in Nat, NEW hole \in BOOLEAN, NEW size \in Nat
    PROVE  LET w == PutHeader(m, a, hole, size)
           IN  /\ MemOK(w)
               /\ w.index = m.index
               /\ a \in DOMAIN w.hdr /\ w.hdr[a] = [hole |-> hole, size |-> size]
               /\ \A lo, hi \in Nat : a + HDR <= lo \/ hi <= a => SameOn(m, w, lo, hi)
<1> USE SizesHold DEF Sizes
<1> DEFINE v == Wipe(m, a, HDR)
           c == [hole |-> hole, size |-> size]
           w == PutHeader(m, a, hole, size)
<1>1. MemOK(v) /\ v.index = m.index
    BY WipeFacts
<1>2. \A lo, hi \in Nat : a + HDR <= lo \/ hi <= a => SameOn(m, v, lo, hi)
    BY WipeFrame
<1>3. c \in [hole : BOOLEAN, size : Nat]
    OBVIOUS
<1> HIDE DEF v, c
<1>4. w = Mem(At(v.hdr, a, c), v.ftr, v.index)
    BY <1>1, MemShape DEF PutHeader, v, c
<1>5. w.hdr = At(v.hdr, a, c) /\ w.ftr = v.ftr /\ w.index = v.index
    BY <1>4, MemFields
<1> HIDE DEF w
<1> DEFINE h == At(v.hdr, a, c)
<1>6. /\ DOMAIN h = DOMAIN v.hdr \cup {a} /\ h[a] = c
      /\ \A x \in DOMAIN v.hdr : x # a => h[x] = v.hdr[x]
      /\ h = [x \in DOMAIN h |-> h[x]]
    BY DEF At
<1> HIDE DEF h
<1>7. MemOK(w)
  <2>1. w = Mem(w.hdr, w.ftr, w.index)
      BY <1>4, <1>5
  <2>2. /\ DOMAIN h \subseteq Nat
        /\ \A x \in DOMAIN h : h[x] \in [hole : BOOLEAN, size : Nat]
      BY <1>1, <1>3, <1>6 DEF MemOK
  <2>3. w.hdr = h
      BY <1>5 DEF h
  <2> QED
      BY <1>1, <1>5, <1>6, <2>1, <2>2, <2>3 DEF MemOK
<1>8. ASSUME NEW lo \in Nat, NEW hi \in Nat, a + HDR <= lo \/ hi <= a
      PROVE  SameOn(m, w, lo, hi)
  <2>1. SameOn(m, v, lo, hi)
      BY <1>2, <1>8
  <2>2. \A x \in Nat : lo <= x /\ x + HDR <= hi => x # a
      BY <1>8
  <2>3. w.hdr = h /\ w.ftr = v.ftr
      BY <1>5 DEF h
  <2>4. SameOn(v, w, lo, hi)
      BY <1>6, <2>2, <2>3 DEF SameOn
  <2> QED
      BY <2>1, <2>4, SameOnTrans
<1>9. a \in DOMAIN w.hdr /\ w.hdr[a] = c
    BY <1>5, <1>6 DEF h
<1> QED
    BY <1>1, <1>5, <1>7, <1>8, <1>9 DEF w, c

LEMMA PutFooterFacts ==
    ASSUME NEW m, MemOK(m), NEW a \in Nat, START <= a, NEW header \in Nat
    PROVE  LET w == PutFooter(m, a, header)
           IN  /\ MemOK(w)
               /\ w.index = m.index
               /\ a \in DOMAIN w.ftr /\ w.ftr[a] = header
               /\ \A lo, hi \in Nat : a + FTR <= lo \/ hi <= a => SameOn(m, w, lo, hi)
<1> USE SizesHold DEF Sizes
<1> DEFINE v == Wipe(m, a, FTR)
           w == PutFooter(m, a, header)
<1>1. MemOK(v) /\ v.index = m.index
    BY WipeFacts
<1>2. \A lo, hi \in Nat : a + FTR <= lo \/ hi <= a => SameOn(m, v, lo, hi)
    BY WipeFrame
<1> HIDE DEF v
<1>4. w = Mem(v.hdr, At(v.ftr, a, header), v.index)
    BY <1>1, MemShape DEF PutFooter, v
<1>5. w.ftr = At(v.ftr, a, header) /\ w.hdr = v.hdr /\ w.index = v.index
    BY <1>4, MemFields
<1> HIDE DEF w
<1> DEFINE f == At(v.ftr, a, header)
<1>6. /\ DOMAIN f = DOMAIN v.ftr \cup {a} /\ f[a] = header
      /\ \A x \in DOMAIN v.ftr : x # a => f[x] = v.ftr[x]
      /\ f = [x \in DOMAIN f |-> f[x]]
    BY DEF At
<1> HIDE DEF f
<1>7. MemOK(w)
  <2>1. w = Mem(w.hdr, w.ftr, w.index)
      BY <1>4, <1>5
  <2>2. /\ DOMAIN f \subseteq Nat
        /\ \A x \in DOMAIN f : x >= START /\ f[x] \in Nat
      BY <1>1, <1>6 DEF MemOK
  <2>3. w.ftr = f
      BY <1>5 DEF f
  <2> QED
      BY <1>1, <1>5, <1>6, <2>1, <2>2, <2>3 DEF MemOK
<1>8. ASSUME NEW lo \in Nat, NEW hi \in Nat, a + FTR <= lo \/ hi <= a
      PROVE  SameOn(m, w, lo, hi)
  <2>1. SameOn(m, v, lo, hi)
      BY <1>2, <1>8
  <2>2. \A x \in Nat : lo <= x /\ x + FTR <= hi => x # a
      BY <1>8
  <2>3. w.ftr = f /\ w.hdr = v.hdr
      BY <1>5 DEF f
  <2>4. SameOn(v, w, lo, hi)
      BY <1>6, <2>2, <2>3 DEF SameOn
  <2> QED
      BY <2>1, <2>4, SameOnTrans
<1>9. a \in DOMAIN w.ftr /\ w.ftr[a] = header
    BY <1>5, <1>6 DEF f
<1> QED
    BY <1>1, <1>5, <1>7, <1>8, <1>9 DEF w

\* A header and a footer: all that alloc writes.
WriteTile(m, a, hole, size) == PutFooter(PutHeader(m, a, hole, size), a + size - FTR, a)

Wrote(m, w, a, hole, size) ==
    /\ MemOK(w)
    /\ w.index = m.index
    /\ a \in DOMAIN w.hdr /\ w.hdr[a] = [hole |-> hole, size |-> size]
    /\ EndAt(w, a) = a + size
    /\ \A H, e : hole = (a \in H) => TileOK(w, H, a, e)
    /\ \A lo, hi \in Nat : a + size <= lo \/ hi <= a => SameOn(m, w, lo, hi)

LEMMA WriteTileFacts ==
    ASSUME NEW m, MemOK(m), NEW a \in Nat, START <= a, NEW hole \in BOOLEAN,
           NEW size \in Nat, size >= HDR + FTR
    PROVE  Wrote(m, WriteTile(m, a, hole, size), a, hole, size)
<1> USE SizesHold DEF Sizes
<1> DEFINE v == PutHeader(m, a, hole, size)
           f == a + size - FTR
           w == PutFooter(v, f, a)
<1>1. /\ MemOK(v) /\ v.index = m.index
      /\ a \in DOMAIN v.hdr /\ v.hdr[a] = [hole |-> hole, size |-> size]
      /\ \A lo, hi \in Nat : a + HDR <= lo \/ hi <= a => SameOn(m, v, lo, hi)
    BY ONLY MemOK(m), a \in Nat, hole \in BOOLEAN, size \in Nat, PutHeaderFacts
<1>2. f \in Nat /\ START <= f /\ a + HDR <= f /\ f + FTR = a + size
    OBVIOUS
<1> HIDE DEF v, f
<1>3. /\ MemOK(w) /\ w.index = v.index
      /\ f \in DOMAIN w.ftr /\ w.ftr[f] = a
      /\ \A lo, hi \in Nat : f + FTR <= lo \/ hi <= f => SameOn(v, w, lo, hi)
  <2>1. MemOK(v) /\ f \in Nat /\ START <= f /\ a \in Nat
      BY <1>1, <1>2
  <2> QED
      BY ONLY <2>1, PutFooterFacts
<1> HIDE DEF w
<1>4. a \in DOMAIN w.hdr /\ w.hdr[a] = v.hdr[a]
  <2>1. SameOn(v, w, a, a + HDR)
      BY <1>2, <1>3
  <2> QED
      BY <1>1, <2>1 DEF SameOn
<1>5. w.hdr[a] = [hole |-> hole, size |-> size]
    BY <1>1, <1>4
<1>6. w.hdr[a].size = size /\ w.hdr[a].hole = hole
    BY <1>5
<1>7. EndAt(w, a) = a + size /\ EndAt(w, a) - FTR = f
    BY <1>2, <1>6 DEF EndAt, f
<1>8. ASSUME NEW H, NEW e, hole = (a \in H) PROVE TileOK(w, H, a, e)
    BY <1>3, <1>4, <1>6, <1>7, <1>8 DEF TileOK, Inside
<1>9. ASSUME NEW lo \in Nat, NEW hi \in Nat, a + size <= lo \/ hi <= a
      PROVE  SameOn(m, w, lo, hi)
  <2>1. SameOn(m, v, lo, hi)
      BY <1>1, <1>9
  <2>2. SameOn(v, w, lo, hi)
      BY <1>2, <1>3, <1>9
  <2> QED
      BY <2>1, <2>2, SameOnTrans
<1> QED
  <2>1. Wrote(m, w, a, hole, size)
      BY <1>1, <1>3, <1>4, <1>5, <1>7, <1>8, <1>9 DEF Wrote
  <2> QED
      BY <2>1 DEF w, v, f, WriteTile

\* The index may change without the memory.
LEMMA IndexOnly ==
    ASSUME NEW m, MemOK(m), NEW x \in Seq(Nat)
    PROVE  LET w == [m EXCEPT !.index = x]
           IN  MemOK(w) /\ w.hdr = m.hdr /\ w.ftr = m.ftr /\ w.index = x
<1> DEFINE w == [m EXCEPT !.index = x]
<1>1. w = Mem(m.hdr, m.ftr, x)
    BY MemShape
<1>2. w.hdr = m.hdr /\ w.ftr = m.ftr /\ w.index = x
    BY <1>1, MemFields
<1> HIDE DEF w
<1>3. MemOK(w)
  <2>1. w = Mem(w.hdr, w.ftr, w.index)
      BY <1>1, <1>2
  <2> QED
      BY <1>2, <2>1 DEF MemOK
<1> QED
    BY <1>2, <1>3 DEF w

LEMMA InsertMem ==
    ASSUME NEW m, MemOK(m), NEW a \in Nat
    PROVE  LET w == insert(m, a)
           IN  /\ MemOK(w) /\ w.hdr = m.hdr /\ w.ftr = m.ftr
               /\ Items(w.index) = Items(m.index) \cup {a}
               /\ Injective(m.index) /\ a \notin Items(m.index) => Injective(w.index)
<1> DEFINE items == {a} \cup {m.index[k] : k \in DOMAIN m.index}
           less == [p \in items \X items |-> SizeOf(m, p[1]) < SizeOf(m, p[2])]
           x == insert_ordered_array(a, m.index, less)
           w == insert(m, a)
<1>1. w = [m EXCEPT !.index = x]
    BY DEF insert
<1>2. m.index \in Seq(Nat)
    BY DEF MemOK
<1> HIDE DEF less
<1>3. /\ x \in Seq(Nat) /\ Items(x) = Items(m.index) \cup {a}
      /\ Injective(m.index) /\ a \notin Items(m.index) => Injective(x)
    BY <1>2, InsertFacts
<1> HIDE DEF x, w
<1>4. MemOK(w) /\ w.hdr = m.hdr /\ w.ftr = m.ftr /\ w.index = x
    BY <1>1, <1>3, IndexOnly
<1> QED
    BY <1>3, <1>4 DEF w

LEMMA RemoveMem ==
    ASSUME NEW m, MemOK(m), Injective(m.index), NEW i \in 1 .. Len(m.index)
    PROVE  LET w == remove(m, i)
           IN  /\ MemOK(w) /\ w.hdr = m.hdr /\ w.ftr = m.ftr
               /\ Items(w.index) = Items(m.index) \ {m.index[i]}
               /\ Injective(w.index)
<1> DEFINE x == remove_ordered_array(i, m.index)
           w == remove(m, i)
<1>1. w = [m EXCEPT !.index = x]
    BY DEF remove
<1>2. m.index \in Seq(Nat)
    BY DEF MemOK
<1>3. /\ x \in Seq(Nat) /\ Items(x) = Items(m.index) \ {m.index[i]} /\ Injective(x)
    BY <1>2, RemoveFacts
<1> HIDE DEF x, w
<1>4. MemOK(w) /\ w.hdr = m.hdr /\ w.ftr = m.ftr /\ w.index = x
    BY <1>1, <1>3, IndexOnly
<1> QED
    BY <1>3, <1>4 DEF w

\* SetSize changes one header.
LEMMA SetSizeFacts ==
    ASSUME NEW m, MemOK(m), NEW a \in DOMAIN m.hdr, NEW n \in Nat
    PROVE  LET w == SetSize(m, a, n)
           IN  /\ MemOK(w) /\ w.ftr = m.ftr /\ w.index = m.index
               /\ DOMAIN w.hdr = DOMAIN m.hdr
               /\ w.hdr[a].size = n /\ w.hdr[a].hole = m.hdr[a].hole
               /\ \A x \in DOMAIN m.hdr : x # a => w.hdr[x] = m.hdr[x]
<1> DEFINE h == [m.hdr EXCEPT ![a] = [@ EXCEPT !.size = n]]
           w == SetSize(m, a, n)
<1>1. w = Mem(h, m.ftr, m.index)
    BY MemShape DEF SetSize
<1>2. w.hdr = h /\ w.ftr = m.ftr /\ w.index = m.index
    BY <1>1, MemFields
<1>3. m.hdr[a] \in [hole : BOOLEAN, size : Nat] /\ m.hdr = [x \in DOMAIN m.hdr |-> m.hdr[x]]
    BY DEF MemOK
<1>4. DOMAIN h = DOMAIN m.hdr /\ h = [x \in DOMAIN h |-> h[x]]
    BY <1>3
<1>5. \A x \in DOMAIN m.hdr : x # a => h[x] = m.hdr[x]
    BY <1>3
<1>6. h[a] = [m.hdr[a] EXCEPT !.size = n]
    BY <1>3
<1>7. h[a] \in [hole : BOOLEAN, size : Nat] /\ h[a].size = n /\ h[a].hole = m.hdr[a].hole
    BY <1>3, <1>6
<1> HIDE DEF h, w
<1>8. MemOK(w)
  <2>1. w = Mem(w.hdr, w.ftr, w.index)
      BY <1>1, <1>2
  <2>2. /\ DOMAIN h \subseteq Nat
        /\ \A x \in DOMAIN h : h[x] \in [hole : BOOLEAN, size : Nat]
      BY <1>4, <1>5, <1>7 DEF MemOK
  <2> QED
      BY <1>2, <1>4, <2>1, <2>2 DEF MemOK
<1> QED
    BY <1>2, <1>4, <1>5, <1>7, <1>8 DEF w

-----------------------------------------------------------------------------
(* Replacing the tiles of a range                                          *)

\* One tile of a sound heap and what lies before and behind it.
LEMMA TileFacts ==
    ASSUME NEW m, NEW H, NEW T, NEW e \in Nat, MemOK(m), Sound(m, H, T, e), NEW t \in T
    PROVE  /\ TileOK(m, H, t, e)
           /\ t \in Nat /\ START <= t /\ EndAt(m, t) \in Nat
           /\ t + HDR + FTR <= EndAt(m, t) /\ EndAt(m, t) <= e
           /\ EndAt(m, t) \in T \/ EndAt(m, t) = e
           /\ \A u \in T : t < u => EndAt(m, t) <= u
<1> USE SizesHold DEF Sizes
<1>1. t \in Nat /\ START <= t /\ t < e /\ \A u \in T : u < e
    BY DEF Sound
<1>2. /\ TileOK(m, H, t, e) /\ EndAt(m, t) <= e
      /\ EndAt(m, t) \in T \/ EndAt(m, t) = e
      /\ \A u \in T : t < u => EndAt(m, t) <= u
    BY <1>1 DEF Sound, Region
<1>3. t \in DOMAIN m.hdr /\ m.hdr[t].size >= HDR + FTR
    BY <1>2 DEF TileOK
<1>4. m.hdr[t].size \in Nat /\ EndAt(m, t) \in Nat /\ EndAt(m, t) = t + m.hdr[t].size
    BY <1>3, SizeType DEF EndAt
<1> QED
    BY <1>1, <1>2, <1>3, <1>4

LEMMA Around ==
    ASSUME NEW m, NEW H, NEW T, NEW e \in Nat, MemOK(m), Sound(m, H, T, e), NEW t \in T
    PROVE  /\ Region(m, H, T, START, t, e)
           /\ Region(m, H, T, t, EndAt(m, t), e)
           /\ Region(m, H, T, EndAt(m, t), e, e)
<1> USE SizesHold DEF Sizes
<1>1. T \subseteq Nat /\ Region(m, H, T, START, e, e)
    BY DEF Sound
<1>2. /\ t \in Nat /\ START <= t /\ EndAt(m, t) \in Nat
      /\ t <= EndAt(m, t) /\ EndAt(m, t) <= e /\ t <= e
      /\ EndAt(m, t) \in T \/ EndAt(m, t) = e
    BY TileFacts
<1>3. Region(m, H, T, START, t, e) /\ Region(m, H, T, t, e, e)
    BY <1>1, <1>2, SplitRegion
<1>4. Region(m, H, T, t, EndAt(m, t), e) /\ Region(m, H, T, EndAt(m, t), e, e)
    BY <1>1, <1>2, <1>3, SplitRegion
<1> QED
    BY <1>3, <1>4

\* Memory n has the tiles V, of which K are holes, where m has T and H; they
\* differ in lo .. hi - 1 only.
Replaced(m, n, H, K, T, V, lo, hi, e) ==
    /\ lo \in Nat /\ hi \in Nat /\ e \in Nat
    /\ START <= lo /\ lo <= hi /\ hi <= e
    /\ MemOK(m) /\ MemOK(n) /\ T \subseteq Nat /\ V \subseteq Nat
    /\ Region(m, H, T, START, lo, e) /\ Region(m, H, T, hi, e, e)
    /\ SameOn(m, n, START, lo) /\ SameOn(m, n, hi, e)
    /\ \A t \in Nat : t < lo \/ hi <= t =>
            /\ t \in H <=> t \in K
            /\ t \in T <=> t \in V
    /\ Region(n, K, V, lo, hi, e)

LEMMA ReplaceRegion ==
    ASSUME NEW m, NEW n, NEW H, NEW K, NEW T, NEW V, NEW lo, NEW hi, NEW e,
           Replaced(m, n, H, K, T, V, lo, hi, e)
    PROVE  Region(n, K, V, START, e, e)
<1>1. START \in Nat
    BY SizesHold DEF Sizes
<1>2. /\ lo \in Nat /\ hi \in Nat /\ e \in Nat
      /\ START <= lo /\ lo <= hi /\ hi <= e
      /\ MemOK(m) /\ MemOK(n) /\ T \subseteq Nat /\ V \subseteq Nat
      /\ Region(m, H, T, START, lo, e) /\ Region(m, H, T, hi, e, e)
      /\ SameOn(m, n, START, lo) /\ SameOn(m, n, hi, e)
      /\ \A t \in Nat : t < lo \/ hi <= t =>
              /\ t \in H <=> t \in K
              /\ t \in T <=> t \in V
      /\ Region(n, K, V, lo, hi, e)
    BY DEF Replaced
<1>3. RegionFrame(m, n, H, K, T, V, START, lo, e, e)
    BY <1>1, <1>2 DEF RegionFrame
<1>4. RegionFrame(m, n, H, K, T, V, hi, e, e, e)
    BY <1>1, <1>2 DEF RegionFrame
<1>5. Region(n, K, V, START, lo, e) /\ Region(n, K, V, hi, e, e)
    BY <1>3, <1>4, FrameRegion
<1>6. Region(n, K, V, START, hi, e)
    BY <1>1, <1>2, <1>5, JoinRegion
<1>7. START <= hi
    BY <1>1, <1>2
<1> QED
    BY <1>1, <1>2, <1>5, <1>6, <1>7, JoinRegion

\* The tiles outside of the range keep their ends.
LEMMA ReplaceKeeps ==
    ASSUME NEW m, NEW n, NEW H, NEW K, NEW T, NEW V, NEW lo, NEW hi, NEW e,
           Replaced(m, n, H, K, T, V, lo, hi, e), NEW t \in T, t < lo \/ hi <= t, t < e,
           START <= t
    PROVE  /\ n.hdr[t] = m.hdr[t] /\ EndAt(n, t) = EndAt(m, t)
           /\ t < lo => EndAt(m, t) <= lo
           /\ EndAt(m, t) \in Nat /\ t \in Nat
<1> USE SizesHold DEF Sizes
<1>1. /\ lo \in Nat /\ hi \in Nat /\ e \in Nat /\ t \in Nat
      /\ MemOK(m)
      /\ Region(m, H, T, START, lo, e) /\ Region(m, H, T, hi, e, e)
      /\ SameOn(m, n, START, lo) /\ SameOn(m, n, hi, e)
    BY DEF Replaced
<1>2. /\ TileOK(m, H, t, e)
      /\ t < lo => EndAt(m, t) <= lo
      /\ hi <= t => EndAt(m, t) <= e
    BY <1>1 DEF Region
<1>3. t \in DOMAIN m.hdr /\ m.hdr[t].size \in Nat /\ EndAt(m, t) = t + m.hdr[t].size
    BY <1>1, <1>2, SizeType DEF TileOK, EndAt
<1>4. m.hdr[t].size >= HDR + FTR
    BY <1>2 DEF TileOK
<1>5. n.hdr[t] = m.hdr[t]
    BY <1>1, <1>2, <1>3, <1>4 DEF SameOn
<1> QED
    BY <1>1, <1>2, <1>3, <1>5 DEF EndAt

-----------------------------------------------------------------------------
(* Cutting a block out of a hole                                           *)

\* alloc splits hole t into a hole of fr bytes, the block of g bytes and a hole
\* of rest bytes; either hole may be missing.
WriteFront(m, t, fr)  == IF fr > 0 THEN WriteTile(m, t, TRUE, fr) ELSE m
WriteBack(m, a, rest) == IF rest > 0 THEN WriteTile(m, a, TRUE, rest) ELSE m
Carved(m, t, fr, g, rest) ==
    WriteBack(WriteTile(WriteFront(m, t, fr), t + fr, FALSE, g), t + fr + g, rest)
BackHole(a, rest) == IF rest > 0 THEN {a} ELSE {}
CarvedHoles(H, t, fr, g, rest) ==
    (IF fr > 0 THEN H ELSE H \ {t}) \cup BackHole(t + fr + g, rest)
CarvedTiles(T, t, fr, g, rest) == T \cup {t + fr} \cup BackHole(t + fr + g, rest)

CarveOK(m, H, T, e, t, fr, g, rest) ==
    /\ e \in Nat /\ MemOK(m) /\ Sound(m, H, T, e) /\ t \in H
    /\ fr \in Nat /\ g \in Nat /\ rest \in Nat
    /\ fr + g + rest = m.hdr[t].size
    /\ fr = 0 \/ fr >= HDR + FTR
    /\ g >= HDR + FTR
    /\ rest = 0 \/ rest >= HDR + FTR
    /\ EndAt(m, t) = e => rest > 0

LEMMA SameTiles ==
    ASSUME NEW m, NEW n, m.hdr = n.hdr, m.ftr = n.ftr, NEW lo, NEW hi
    PROVE  SameOn(m, n, lo, hi)
BY DEF SameOn

LEMMA CarveMemory ==
    ASSUME NEW m, NEW H, NEW T, NEW e, NEW t, NEW fr, NEW g, NEW rest,
           CarveOK(m, H, T, e, t, fr, g, rest),
           NEW k, MemOK(k), k.hdr = m.hdr, k.ftr = m.ftr
    PROVE  LET n == Carved(k, t, fr, g, rest)
               p == t + fr
               q == t + fr + g
               h == EndAt(m, t)
           IN  /\ MemOK(n) /\ n.index = k.index
               /\ SameOn(m, n, START, t) /\ SameOn(m, n, h, e)
               /\ fr > 0 => /\ EndAt(n, t) = p
                            /\ \A K : t \in K => TileOK(n, K, t, e)
               /\ EndAt(n, p) = q /\ n.hdr[p].size = g
               /\ \A K : p \notin K => TileOK(n, K, p, e)
               /\ rest > 0 => /\ EndAt(n, q) = h
                              /\ \A K : q \in K => TileOK(n, K, q, e)
<1> USE SizesHold DEF Sizes
<1> DEFINE p == t + fr
           q == t + fr + g
           h == EndAt(m, t)
           m1 == WriteFront(k, t, fr)
           m2 == WriteTile(m1, p, FALSE, g)
           n  == WriteBack(m2, q, rest)
<1>1. /\ e \in Nat /\ MemOK(m) /\ Sound(m, H, T, e) /\ t \in H
      /\ fr \in Nat /\ g \in Nat /\ rest \in Nat
      /\ fr + g + rest = m.hdr[t].size
      /\ fr = 0 \/ fr >= HDR + FTR
      /\ g >= HDR + FTR
      /\ rest = 0 \/ rest >= HDR + FTR
    BY DEF CarveOK
<1>2. t \in T
    BY <1>1 DEF Sound
<1>3. t \in Nat /\ START <= t /\ h \in Nat /\ h <= e
    BY <1>1, <1>2, TileFacts
<1>4. h = t + fr + g + rest /\ h = q + rest
    BY <1>1, <1>3 DEF EndAt
<1>5. /\ p \in Nat /\ q \in Nat /\ t <= p /\ START <= p /\ p < q /\ START <= q /\ q <= h
      /\ p + g = q
    BY <1>1, <1>3, <1>4
<1> HIDE DEF h, p, q
<1>6. /\ MemOK(m1) /\ m1.index = k.index
      /\ \A lo, hi \in Nat : p <= lo \/ hi <= t => SameOn(k, m1, lo, hi)
      /\ fr > 0 => EndAt(m1, t) = p /\ \A K : t \in K => TileOK(m1, K, t, e)
  <2>1. CASE fr = 0
      BY <1>1, <2>1, SameTiles DEF WriteFront
  <2>2. CASE fr > 0
    <3>1. m1 = WriteTile(k, t, TRUE, fr) /\ fr >= HDR + FTR
        BY <1>1, <2>2 DEF WriteFront
    <3>2. /\ MemOK(m1) /\ m1.index = k.index /\ EndAt(m1, t) = t + fr
          /\ \A K, f : TRUE = (t \in K) => TileOK(m1, K, t, f)
          /\ \A lo, hi \in Nat : t + fr <= lo \/ hi <= t => SameOn(k, m1, lo, hi)
      <4>1. Wrote(k, m1, t, TRUE, fr)
          BY <1>1, <1>3, <3>1, WriteTileFacts
      <4> HIDE DEF m1
      <4> QED
          BY <4>1 DEF Wrote
    <3> QED
        BY <3>2 DEF p
  <2> QED
      BY <1>1, <2>1, <2>2
<1> HIDE DEF m1
<1>7. /\ MemOK(m2) /\ m2.index = m1.index /\ EndAt(m2, p) = q
      /\ p \in DOMAIN m2.hdr /\ m2.hdr[p] = [hole |-> FALSE, size |-> g]
      /\ \A K : p \notin K => TileOK(m2, K, p, e)
      /\ \A lo, hi \in Nat : q <= lo \/ hi <= p => SameOn(m1, m2, lo, hi)
  <2>1. /\ MemOK(m2) /\ m2.index = m1.index /\ EndAt(m2, p) = p + g
        /\ p \in DOMAIN m2.hdr /\ m2.hdr[p] = [hole |-> FALSE, size |-> g]
        /\ \A K, f : FALSE = (p \in K) => TileOK(m2, K, p, f)
        /\ \A lo, hi \in Nat : p + g <= lo \/ hi <= p => SameOn(m1, m2, lo, hi)
    <3>1. Wrote(m1, m2, p, FALSE, g)
        BY <1>1, <1>5, <1>6, WriteTileFacts
    <3> HIDE DEF m2
    <3> QED
        BY <3>1 DEF Wrote
  <2> HIDE DEF m2
  <2> QED
      BY <1>5, <2>1
<1> HIDE DEF m2
<1>8. /\ MemOK(n) /\ n.index = m2.index
      /\ \A lo, hi \in Nat : h <= lo \/ hi <= q => SameOn(m2, n, lo, hi)
      /\ rest > 0 => EndAt(n, q) = h /\ \A K : q \in K => TileOK(n, K, q, e)
  <2>1. CASE rest = 0
      BY <1>7, <2>1, SameTiles DEF WriteBack
  <2>2. CASE rest > 0
    <3>1. n = WriteTile(m2, q, TRUE, rest) /\ rest >= HDR + FTR
        BY <1>1, <2>2 DEF WriteBack
    <3>2. /\ MemOK(n) /\ n.index = m2.index /\ EndAt(n, q) = q + rest
          /\ \A K, f : TRUE = (q \in K) => TileOK(n, K, q, f)
          /\ \A lo, hi \in Nat : q + rest <= lo \/ hi <= q => SameOn(m2, n, lo, hi)
      <4>1. Wrote(m2, n, q, TRUE, rest)
          BY <1>1, <1>5, <1>7, <3>1, WriteTileFacts
      <4> HIDE DEF n
      <4> QED
          BY <4>1 DEF Wrote
    <3> QED
        BY <1>4, <3>2
  <2> QED
      BY <1>1, <2>1, <2>2
<1> HIDE DEF n
<1>9. ASSUME NEW lo \in Nat, NEW hi \in Nat, h <= lo \/ hi <= t
      PROVE  SameOn(m, n, lo, hi)
  <2>1. SameOn(m, k, lo, hi)
      BY SameTiles
  <2>2. SameOn(k, m1, lo, hi)
      BY <1>3, <1>5, <1>6, <1>9
  <2>3. SameOn(m1, m2, lo, hi)
      BY <1>3, <1>5, <1>7, <1>9
  <2>4. SameOn(m2, n, lo, hi)
      BY <1>3, <1>5, <1>8, <1>9
  <2> QED
      BY <2>1, <2>2, <2>3, <2>4, SameOnTrans
<1>10. SameOn(m, n, START, t) /\ SameOn(m, n, h, e)
    BY <1>1, <1>3, <1>9
<1>11. ASSUME fr > 0
       PROVE  EndAt(n, t) = p /\ \A K : t \in K => TileOK(n, K, t, e)
  <2>1. SameOn(m1, n, t, p)
    <3>1. SameOn(m1, m2, t, p) /\ SameOn(m2, n, t, p)
        BY <1>3, <1>5, <1>7, <1>8
    <3> QED
        BY <1>3, <1>5, <3>1, SameOnTrans
  <2>2. ASSUME NEW K, t \in K PROVE TileOK(n, K, t, e) /\ EndAt(n, t) = EndAt(m1, t)
    <3>1. TileOK(m1, K, t, e) /\ EndAt(m1, t) = p
        BY <1>6, <1>11, <2>2
    <3>2. TileFrame(m1, n, K, K, t, t, p, e, e)
        BY <1>3, <1>5, <1>6, <2>1, <3>1 DEF TileFrame
    <3> QED
        BY <3>2, FrameTile
  <2>3. t \in {t}
      OBVIOUS
  <2>4. EndAt(n, t) = p
      BY <1>6, <1>11, <2>2, <2>3
  <2> QED
      BY <2>2, <2>4
<1>12. /\ EndAt(n, p) = q /\ n.hdr[p].size = g
       /\ \A K : p \notin K => TileOK(n, K, p, e)
  <2>1. SameOn(m2, n, p, q)
      BY <1>5, <1>8
  <2>2. ASSUME NEW K, p \notin K PROVE TileOK(n, K, p, e) /\ EndAt(n, p) = EndAt(m2, p)
    <3>1. TileOK(m2, K, p, e) /\ EndAt(m2, p) = q
        BY <1>7, <2>2
    <3>2. TileFrame(m2, n, K, K, p, p, q, e, e)
        BY <1>5, <1>7, <2>1, <3>1 DEF TileFrame
    <3> QED
        BY <3>2, FrameTile
  <2>3. p \notin {}
      OBVIOUS
  <2>4. EndAt(n, p) = q
      BY <1>7, <2>2, <2>3
  <2>5. n.hdr[p] = m2.hdr[p]
      BY <1>1, <1>5, <1>7, <2>1 DEF SameOn
  <2>6. n.hdr[p].size = g
      BY <1>7, <2>5
  <2> QED
      BY <2>2, <2>4, <2>6
<1>13. n = Carved(k, t, fr, g, rest) /\ n.index = k.index
    BY <1>6, <1>7, <1>8 DEF n, m2, m1, p, q, Carved
<1> QED
    BY <1>8, <1>10, <1>11, <1>12, <1>13 DEF p, q, h

LEMMA CarveSound ==
    ASSUME NEW m, NEW H, NEW T, NEW e, NEW t, NEW fr, NEW g, NEW rest,
           CarveOK(m, H, T, e, t, fr, g, rest),
           NEW k, MemOK(k), k.hdr = m.hdr, k.ftr = m.ftr
    PROVE  LET n == Carved(k, t, fr, g, rest)
               K == CarvedHoles(H, t, fr, g, rest)
               V == CarvedTiles(T, t, fr, g, rest)
           IN  /\ MemOK(n) /\ n.index = k.index
               /\ Sound(n, K, V, e)
               /\ t + fr \in V \ K /\ n.hdr[t + fr].size = g
               /\ V \ K = (T \ H) \cup {t + fr}
               /\ \A u \in T : u # t => n.hdr[u] = m.hdr[u]
<1> USE SizesHold DEF Sizes
<1> DEFINE p == t + fr
           q == t + fr + g
           h == EndAt(m, t)
           n == Carved(k, t, fr, g, rest)
           K == CarvedHoles(H, t, fr, g, rest)
           V == CarvedTiles(T, t, fr, g, rest)
<1>1. /\ e \in Nat /\ MemOK(m) /\ Sound(m, H, T, e) /\ t \in H
      /\ fr \in Nat /\ g \in Nat /\ rest \in Nat
      /\ fr + g + rest = m.hdr[t].size
      /\ fr = 0 \/ fr >= HDR + FTR
      /\ g >= HDR + FTR
      /\ rest = 0 \/ rest >= HDR + FTR
      /\ h = e => rest > 0
    BY DEF CarveOK
<1>2. /\ t \in T /\ H \subseteq T /\ T \subseteq START .. e - 1 /\ T \subseteq Nat
      /\ \A u \in T \ H : EndAt(m, u) # e
      /\ \A u \in H : EndAt(m, u) \notin H
    BY <1>1 DEF Sound
<1>3. /\ t \in Nat /\ START <= t /\ h \in Nat /\ h <= e
      /\ \A u \in T : t < u => h <= u
    BY <1>1, <1>2, TileFacts
<1>4. h = q + rest /\ h = p + g + rest
    BY <1>1, <1>3 DEF EndAt
<1>5. p \in Nat /\ q \in Nat /\ t <= p /\ p < q /\ q <= h /\ (fr > 0 => t < p) /\ (fr = 0 => p = t)
      /\ (rest > 0 => q < h) /\ (rest = 0 => q = h) /\ q < e
    BY <1>1, <1>3, <1>4
<1>6. /\ MemOK(n) /\ n.index = k.index
      /\ SameOn(m, n, START, t) /\ SameOn(m, n, h, e)
      /\ fr > 0 => EndAt(n, t) = p /\ \A J : t \in J => TileOK(n, J, t, e)
      /\ EndAt(n, p) = q /\ n.hdr[p].size = g
      /\ \A J : p \notin J => TileOK(n, J, p, e)
      /\ rest > 0 => EndAt(n, q) = h /\ \A J : q \in J => TileOK(n, J, q, e)
    BY CarveMemory
<1>7. /\ \A u : u \in K <=> (u \in H /\ (fr > 0 \/ u # t)) \/ (rest > 0 /\ u = q)
      /\ \A u : u \in V <=> u \in T \/ u = p \/ (rest > 0 /\ u = q)
    BY <1>1 DEF CarvedHoles, CarvedTiles, BackHole
<1> HIDE DEF p, q, h, n, K, V
<1>8. \A u \in T : u < t \/ u = t \/ h <= u
    BY <1>2, <1>3
<1>9. /\ p \notin K /\ p \in V /\ V \subseteq Nat
      /\ fr > 0 => t \in K
      /\ rest > 0 => q \in K /\ q \in V
      /\ \A u \in V : u < t \/ u = t \/ u = p \/ (rest > 0 /\ u = q) \/ h <= u
      /\ t \in V
  <2>1. p \in T => p = t
      BY <1>3, <1>4, <1>5, <1>8
  <2>2. p \notin K
      BY <1>1, <1>2, <1>5, <1>7, <2>1
  <2>3. ASSUME NEW u \in V
        PROVE  u \in Nat /\ (u < t \/ u = t \/ u = p \/ (rest > 0 /\ u = q) \/ h <= u)
      BY <1>2, <1>5, <1>7, <1>8
  <2>4. p \in V /\ t \in V /\ (fr > 0 => t \in K) /\ (rest > 0 => q \in K /\ q \in V)
      BY <1>1, <1>2, <1>7
  <2> QED
      BY <2>2, <2>3, <2>4
<1>10. Region(n, K, V, t, p, e)
  <2>1. CASE fr = 0
      BY <1>5, <1>9, <2>1 DEF Region
  <2>2. CASE fr > 0
    <3>1. ASSUME NEW u \in V, t < u PROVE p <= u
        BY <1>3, <1>5, <1>9, <3>1
    <3> QED
        BY <1>3, <1>5, <1>6, <1>9, <2>2, <3>1, OneTile
  <2> QED
      BY <1>1, <2>1, <2>2
<1>11. Region(n, K, V, p, q, e)
  <2>1. ASSUME NEW u \in V, p < u PROVE q <= u
      BY <1>3, <1>5, <1>9, <2>1
  <2> QED
      BY <1>5, <1>6, <1>9, <2>1, OneTile
<1>12. Region(n, K, V, q, h, e)
  <2>1. CASE rest = 0
      BY <1>3, <1>5, <1>9, <2>1 DEF Region
  <2>2. CASE rest > 0
    <3>1. ASSUME NEW u \in V, q < u PROVE h <= u
        BY <1>3, <1>5, <1>9, <3>1
    <3> QED
        BY <1>3, <1>5, <1>6, <1>9, <2>2, <3>1, OneTile
  <2> QED
      BY <1>1, <2>1, <2>2
<1>13. Region(n, K, V, t, h, e)
  <2>1. Region(n, K, V, t, q, e)
    <3>1. t \in Nat /\ p \in Nat /\ q \in Nat /\ t <= p /\ p <= q /\ MemOK(n) /\ V \subseteq Nat
        BY <1>3, <1>5, <1>6, <1>9
    <3> QED
        BY <1>10, <1>11, <3>1, JoinRegion
  <2>2. t <= q
      BY <1>3, <1>5
  <2> QED
      BY <1>3, <1>5, <1>6, <1>9, <1>12, <2>1, <2>2, JoinRegion
<1>14. Replaced(m, n, H, K, T, V, t, h, e)
  <2>1. Region(m, H, T, START, t, e) /\ Region(m, H, T, h, e, e)
      BY <1>1, <1>2, Around DEF h
  <2>2. \A u \in Nat : u < t \/ h <= u => (u \in H <=> u \in K) /\ (u \in T <=> u \in V)
      BY <1>1, <1>3, <1>5, <1>7
  <2>3. t <= h
      BY <1>3, <1>5
  <2> QED
      BY <1>1, <1>2, <1>3, <1>6, <1>9, <1>13, <2>1, <2>2, <2>3 DEF Replaced
<1>15. Region(n, K, V, START, e, e)
    BY <1>14, ReplaceRegion
<1>16. ASSUME NEW u \in T, u # t
       PROVE  /\ n.hdr[u] = m.hdr[u] /\ EndAt(n, u) = EndAt(m, u)
              /\ EndAt(m, u) \in Nat
              /\ EndAt(m, u) <= t \/ h < EndAt(m, u)
  <2>1. u \in Nat /\ (u < t \/ h <= u) /\ u < e /\ START <= u
      BY <1>1, <1>2, <1>3, <1>8, <1>16
  <2>2. /\ n.hdr[u] = m.hdr[u] /\ EndAt(n, u) = EndAt(m, u)
        /\ u < t => EndAt(m, u) <= t
      BY <1>14, <2>1, ReplaceKeeps
  <2>3. u + HDR + FTR <= EndAt(m, u) /\ EndAt(m, u) \in Nat
      BY <1>1, TileFacts
  <2> QED
      BY <1>3, <2>1, <2>2, <2>3
<1>17. \A u \in V \ K : EndAt(n, u) # e
  <2>1. ASSUME NEW u \in V \ K PROVE EndAt(n, u) # e
    <3>1. u = p \/ (u \in T \ H /\ u # t)
        BY <1>1, <1>5, <1>7, <2>1
    <3>2. CASE u = p
        BY <1>5, <1>6, <1>1, <3>2
    <3>3. CASE u \in T \ H /\ u # t
        BY <1>2, <1>16, <3>3
    <3> QED
        BY <3>1, <3>2, <3>3
  <2> QED
      BY <2>1
<1>18. \A u \in K : EndAt(n, u) \notin K
  <2>1. ASSUME NEW u \in K PROVE EndAt(n, u) \notin K
    <3>1. CASE u \in H /\ u # t
      <4>1. EndAt(n, u) = EndAt(m, u) /\ EndAt(m, u) \notin H /\ EndAt(m, u) \in Nat
            /\ (EndAt(m, u) <= t \/ h < EndAt(m, u))
          BY <1>2, <1>16, <3>1
      <4>2. EndAt(m, u) # q
          BY <1>3, <1>5, <4>1
      <4> QED
          BY <1>7, <4>1, <4>2
    <3>2. CASE u = t /\ fr > 0
      <4>1. EndAt(n, u) = p
          BY <1>6, <3>2
      <4> QED
          BY <1>9, <4>1
    <3>3. CASE u = q /\ rest > 0
      <4>1. EndAt(n, u) = h /\ h \notin H /\ h # q
          BY <1>1, <1>2, <1>3, <1>5, <1>6, <3>3 DEF h
      <4> QED
          BY <1>7, <4>1
    <3> QED
        BY <1>7, <2>1, <3>1, <3>2, <3>3
  <2> QED
      BY <2>1
<1>19. K \subseteq V /\ V \subseteq START .. e - 1
  <2>1. p \in START .. e - 1 /\ q \in START .. e - 1
      BY <1>1, <1>3, <1>5
  <2>2. K \subseteq V
      BY <1>2, <1>7
  <2> QED
      BY <1>2, <1>7, <2>1, <2>2
<1>20. Sound(n, K, V, e)
    BY <1>15, <1>17, <1>18, <1>19 DEF Sound
<1>21. V \ K = (T \ H) \cup {p}
  <2>1. q \notin T \/ rest = 0
      BY <1>1, <1>2, <1>3, <1>5, <1>8
  <2>2. p = t \/ p \notin T
      BY <1>1, <1>2, <1>3, <1>5, <1>8
  <2>3. \A u : u \in V \ K <=> u \in (T \ H) \cup {p}
    <3>1. ASSUME NEW u, u \in V \ K PROVE u \in (T \ H) \cup {p}
        BY <1>1, <1>5, <1>7, <3>1
    <3>2. ASSUME NEW u, u \in T \ H PROVE u \in V \ K
        BY <1>1, <1>7, <2>1, <3>2
    <3>3. p \in V \ K
        BY <1>9
    <3> QED
        BY <3>1, <3>2, <3>3
  <2> QED
      BY <2>3
<1> QED
    BY <1>6, <1>9, <1>16, <1>20, <1>21 DEF p, n, K, V

\* A caller may write all over the payload of a tile.
LEMMA FillSound ==
    ASSUME NEW m, NEW H, NEW T, NEW e \in Nat, MemOK(m), Sound(m, H, T, e),
           NEW b \in T, NEW n \in Nat, HDR + n + FTR <= m.hdr[b].size
    PROVE  LET w == Wipe(m, b + HDR, n)
           IN  /\ MemOK(w) /\ w.index = m.index
               /\ Sound(w, H, T, e)
               /\ \A t \in T : w.hdr[t] = m.hdr[t]
<1> USE SizesHold DEF Sizes
<1> DEFINE a == b + HDR
           w == Wipe(m, a, n)
           h == EndAt(m, b)
<1>1. /\ TileOK(m, H, b, e)
      /\ b \in Nat /\ START <= b /\ h \in Nat /\ h <= e
      /\ \A u \in T : b < u => h <= u
    BY TileFacts
<1>2. h = b + m.hdr[b].size /\ m.hdr[b].size \in Nat /\ b \in DOMAIN m.hdr
    BY <1>1, SizeType DEF EndAt, TileOK
<1>3. a \in Nat /\ a = b + HDR /\ a + n <= h - FTR /\ h - FTR \in Nat /\ b <= h
    BY <1>1, <1>2
<1> HIDE DEF a, h
<1>4. MemOK(w) /\ w.index = m.index
    BY <1>3, WipeFacts
<1>5. \A lo, hi \in Nat : a + n <= lo \/ hi <= a => SameOn(m, w, lo, hi)
    BY <1>3, WipeFrame
<1> HIDE DEF w
<1>6. b \in DOMAIN w.hdr /\ w.hdr[b] = m.hdr[b]
  <2>1. SameOn(m, w, b, a)
      BY <1>1, <1>3, <1>5
  <2> QED
      BY <1>1, <1>2, <1>3, <2>1 DEF SameOn
<1>7. EndAt(w, b) = h
    BY <1>6, <1>2 DEF EndAt
<1>8. TileOK(w, H, b, e)
  <2>1. SameOn(m, w, h - FTR, h)
      BY <1>1, <1>3, <1>5
  <2>2. /\ h - FTR \in DOMAIN m.ftr <=> h - FTR \in DOMAIN w.ftr
        /\ h - FTR \in DOMAIN m.ftr => w.ftr[h - FTR] = m.ftr[h - FTR]
      BY <1>1, <1>3, <2>1 DEF SameOn
  <2>3. /\ m.hdr[b].hole = (b \in H) /\ m.hdr[b].size >= HDR + FTR
        /\ h - FTR \in DOMAIN m.ftr => Inside(H, b, m.ftr[h - FTR], h)
        /\ h # e => h - FTR \in DOMAIN m.ftr
      BY <1>1 DEF TileOK, h
  <2> QED
      BY <1>6, <1>7, <2>2, <2>3 DEF TileOK
<1>9. T \subseteq Nat /\ T \subseteq START .. e - 1 /\ H \subseteq T
    BY DEF Sound
<1>10. Replaced(m, w, H, H, T, T, b, h, e)
  <2>1. Region(m, H, T, START, b, e) /\ Region(m, H, T, h, e, e)
      BY Around DEF h
  <2>2. SameOn(m, w, START, b) /\ SameOn(m, w, h, e)
      BY <1>1, <1>3, <1>5
  <2>3. Region(w, H, T, b, h, e)
      BY <1>1, <1>7, <1>8, <1>9, OneTile
  <2> QED
      BY <1>1, <1>3, <1>4, <1>9, <2>1, <2>2, <2>3 DEF Replaced
<1>11. Region(w, H, T, START, e, e)
    BY <1>10, ReplaceRegion
<1>12. ASSUME NEW t \in T PROVE w.hdr[t] = m.hdr[t] /\ EndAt(w, t) = EndAt(m, t)
  <2>1. CASE t = b
      BY <1>6, <1>7, <2>1 DEF h
  <2>2. CASE t # b
    <3>1. (t < b \/ h <= t) /\ t < e /\ START <= t
        BY <1>1, <1>9, <2>2
    <3> QED
        BY <1>10, <3>1, ReplaceKeeps
  <2> QED
      BY <2>1, <2>2
<1>13. Sound(w, H, T, e)
  <2>1. \A t \in T \ H : EndAt(w, t) # e
      BY <1>12 DEF Sound
  <2>2. \A t \in H : EndAt(w, t) \notin H
      BY <1>9, <1>12 DEF Sound
  <2> QED
      BY <1>9, <1>11, <2>1, <2>2 DEF Sound
<1> QED
    BY <1>4, <1>12, <1>13 DEF w, a

-----------------------------------------------------------------------------
(* Finding a hole                                                          *)

LEMMA FindFacts ==
    ASSUME NEW m, MemOK(m), NEW size, NEW align
    PROVE  LET i == find_smallest_hole(m, size, align)
           IN  /\ Len(m.index) \in Nat
               /\ i \in 1 .. Len(m.index) + 1
               /\ \A k \in 1 .. i - 1 : ~Fits(m, m.index[k], size, align)
               /\ i <= Len(m.index) => Fits(m, m.index[i], size, align)
<1> DEFINE n == Len(m.index)
           P == {k \in 1 .. n : Fits(m, m.index[k], size, align)}
<1>1. n \in Nat
    BY SeqFacts DEF MemOK
<1>2. P \subseteq 1 .. n /\ \A k \in 1 .. n : k \in P <=> Fits(m, m.index[k], size, align)
    OBVIOUS
<1> HIDE DEF n, P
<1>3. PICK j \in 1 .. n + 1 : /\ \A k \in 1 .. j - 1 : k \notin P
                              /\ j <= n => j \in P
    BY <1>1, <1>2, FirstHit
<1>4. (\A k \in 1 .. j - 1 : k \in 1 .. n) /\ (j <= n => j \in 1 .. n)
    BY <1>1
<1>5. /\ \A k \in 1 .. j - 1 : ~Fits(m, m.index[k], size, align)
      /\ j <= n => Fits(m, m.index[j], size, align)
    BY Zenon, <1>2, <1>3, <1>4
<1>6. \E l \in 1 .. Len(m.index) + 1 :
            /\ \A k \in 1 .. l - 1 : ~Fits(m, m.index[k], size, align)
            /\ l <= Len(m.index) => Fits(m, m.index[l], size, align)
    BY Zenon, <1>5 DEF n
<1> QED
    BY Zenon, <1>1, <1>6 DEF find_smallest_hole, n

LEMMA DivMod ==
    ASSUME NEW n \in Nat, NEW d \in Nat, d > 0
    PROVE  /\ n = d * (n \div d) + (n % d)
           /\ n \div d \in Nat /\ n % d \in Nat /\ n % d < d
OBVIOUS

LEMMA ModUnique ==
    ASSUME NEW d \in Nat, d > 0, NEW q \in Nat, NEW r \in Nat, r < d
    PROVE  (d * q + r) % d = r /\ (d * q + r) \div d = q
<1>1. (d * q + r) % d = r
    OBVIOUS
<1>2. (d * q + r) \div d = q
    OBVIOUS
<1> QED
    BY <1>1, <1>2

LEMMA UFacts == \A n \in Nat : n <= MAX_END => U(n) = n
BY HeapAssumption DEF U

LEMMA SFacts == \A n \in Nat : n < MAX_END => S(n) = n
BY HeapAssumption DEF S

\* Where an aligned block is cut, and what that leaves in front of it.
LEMMA AlignFacts ==
    ASSUME NEW a \in Nat, (a % PAGE) + 2 * HDR + FTR <= PAGE
    PROVE  /\ FrontSize(a) \in Nat /\ FrontSize(a) >= HDR + FTR
           /\ AlignOffset(a) = FrontSize(a)
           /\ AlignedAt(a) = a + FrontSize(a)
           /\ FrontSize(a) <= PAGE
<1> USE SizesHold DEF Sizes
<1> DEFINE r == a % PAGE
<1>1. r \in Nat /\ r + 2 * HDR + FTR <= PAGE
    OBVIOUS
<1> DEFINE q == a \div PAGE
<1>5. a = PAGE * q + r /\ q \in Nat
    BY DivMod
<1> HIDE DEF q, r
<1>2. (a + HDR) % PAGE = r + HDR
  <2>1. r + HDR \in Nat /\ r + HDR < PAGE
      BY <1>1
  <2> DEFINE x == r + HDR
  <2>4. x \in Nat /\ x < PAGE /\ q \in Nat /\ PAGE \in Nat /\ PAGE > 0
      BY <1>5, <2>1
  <2> HIDE DEF x
  <2>5. (PAGE * q + x) % PAGE = x
      BY ONLY <2>4, ModUnique
  <2>2. (PAGE * q + (r + HDR)) % PAGE = r + HDR
      BY <2>5 DEF x
  <2>3. a + HDR = PAGE * q + (r + HDR)
      BY <1>1, <1>5
  <2> QED
      BY <2>2, <2>3
<1>3. PAGE <= MAX_END
    BY HeapAssumption
<1>4. FrontSize(a) = PAGE - r - HDR
  <2>1. PAGE - r - HDR \in Nat /\ PAGE - r - HDR <= MAX_END
      BY <1>1, <1>3, HeapAssumption
  <2> QED
      BY <2>1, UFacts DEF FrontSize, r
<1> QED
    BY <1>1, <1>2, <1>4 DEF AlignOffset, AlignedAt, r

-----------------------------------------------------------------------------
(* alloc                                                                   *)

LEMMA NowFields == Now.hdr = hdr /\ Now.ftr = ftr /\ Now.index = index
BY MemFields DEF Now

\* A hole of the index as alloc sees it.
LEMMA HoleFacts ==
    ASSUME MemInv, EndInv, NEW t \in Holes
    PROVE  /\ t \in Nat /\ START <= t /\ t \in DOMAIN hdr
           /\ SizeOf(Now, t) = hdr[t].size /\ hdr[t].size \in Nat
           /\ hdr[t].size < MAX_END
           /\ t + hdr[t].size <= end
           /\ IsLast(t) <=> EndAt(Now, t) = end
           /\ EndAt(Now, t) = t + hdr[t].size
<1> USE SizesHold DEF Sizes
<1>1. MemOK(Now) /\ Sound(Now, Holes, Tiles, end) /\ t \in Tiles /\ end \in Nat /\ end <= MAX_END
    BY DEF MemInv, EndInv, Tiles
<1>2. /\ TileOK(Now, Holes, t, end) /\ t \in Nat /\ START <= t /\ EndAt(Now, t) <= end
    BY <1>1, TileFacts
<1>3. t \in DOMAIN Now.hdr /\ Now.hdr[t].size \in Nat
    BY <1>1, <1>2, SizeType DEF TileOK
<1>4. t \in DOMAIN hdr /\ hdr[t].size \in Nat
    BY <1>3, NowFields
<1>5. SizeOf(Now, t) = hdr[t].size /\ EndAt(Now, t) = t + hdr[t].size
    BY <1>4, NowFields DEF SizeOf, EndAt
<1>6. MAX_END \in Nat
    BY HeapAssumption
<1> QED
    BY <1>1, <1>2, <1>4, <1>5, <1>6 DEF IsLast

\* What alloc does with hole i, in terms of Carved.
Takes(i, size, align, fr, g, rest, k) ==
    /\ fr \in Nat /\ g \in Nat /\ rest \in Nat
    /\ CarveOK(Now, Holes, Tiles, end, index[i], fr, g, rest)
    /\ g >= Gross(size)
    /\ MemOK(k) /\ k.hdr = hdr /\ k.ftr = ftr /\ Injective(k.index)
    /\ Items(k.index) = IF fr > 0 THEN Holes ELSE Holes \ {index[i]}
    /\ LET n == Carved(k, index[i], fr, g, rest)
       IN  Taken(Now, i, size, align) =
              [mem |-> IF rest > 0 THEN insert(n, index[i] + fr + g) ELSE n,
               ptr |-> index[i] + fr + HDR]

TakeOK(i, size, align) ==
    /\ MemInv /\ EndInv
    /\ i \in 1 .. Len(index) /\ size \in Nat /\ align \in BOOLEAN
    /\ Fits(Now, index[i], Gross(size), align)
    /\ CutSafe(index[i], SizeOf(Now, index[i]), size, align)

LEMMA CutBackIs ==
    ASSUME NEW m, NEW q \in Nat, NEW rest \in Nat, end \in Nat, q + rest <= end
    PROVE  CutBack(m, q, rest) = insert(WriteTile(m, q, TRUE, rest), q)
<1>1. q + rest - FTR < end
    BY SizesHold DEF Sizes
<1> QED
    BY <1>1 DEF CutBack, WriteTile

LEMMA TakePlain ==
    ASSUME NEW i, NEW size, TakeOK(i, size, FALSE)
    PROVE  \E fr, g, rest, k : Takes(i, size, FALSE, fr, g, rest, k)
<1> USE SizesHold DEF Sizes
<1> DEFINE t == index[i]
           o == hdr[t].size
           w == o - Gross(size) < HDR + FTR
           g == IF w THEN o ELSE Gross(size)
           rest == o - g
           k == remove(Now, i)
<1>1. /\ MemInv /\ EndInv /\ i \in 1 .. Len(index) /\ size \in Nat
      /\ Fits(Now, t, Gross(size), FALSE)
      /\ CutSafe(t, SizeOf(Now, t), size, FALSE)
    BY DEF TakeOK
<1>2. /\ MemOK(Now) /\ Injective(index) /\ Sound(Now, Holes, Tiles, end)
      /\ end \in Nat /\ end <= MAX_END /\ index \in Seq(Nat) /\ Now.index = index
    BY <1>1, NowFields DEF MemInv, EndInv, MemOK
<1>3. DOMAIN index = 1 .. Len(index) /\ Len(index) \in Nat /\ t \in Holes /\ Holes = Items(index)
    BY <1>1, <1>2, SeqFacts DEF Holes, Items
<1>4. /\ t \in Nat /\ START <= t /\ t \in DOMAIN hdr
      /\ SizeOf(Now, t) = o /\ o \in Nat /\ o < MAX_END /\ t + o <= end
      /\ IsLast(t) <=> EndAt(Now, t) = end
      /\ EndAt(Now, t) = t + o
    BY <1>1, <1>3, HoleFacts
<1>5. o >= Gross(size) /\ Gross(size) = size + HDR + FTR
    BY <1>1, <1>4 DEF Fits, Gross
<1>6. IsLast(t) => o - Gross(size) >= HDR + FTR
    BY <1>1, <1>4, <1>5 DEF CutSafe
<1> HIDE DEF o
<1>7. /\ g \in Nat /\ rest \in Nat /\ 0 + g + rest = o /\ g >= HDR + FTR /\ g >= Gross(size)
      /\ rest = 0 \/ rest >= HDR + FTR
      /\ IsLast(t) => rest > 0
    BY <1>1, <1>4, <1>5, <1>6
<1>8. U(o - Gross(size)) = o - Gross(size) /\ U(rest) = rest
  <2>1. o - Gross(size) \in Nat /\ o - Gross(size) <= MAX_END /\ rest <= MAX_END
      BY <1>1, <1>4, <1>5, <1>7, HeapAssumption
  <2> QED
      BY <1>7, <2>1, UFacts
<1>9. TakesWhole(o, Gross(size)) = w
    BY <1>8 DEF TakesWhole
<1>10. /\ MemOK(k) /\ k.hdr = hdr /\ k.ftr = ftr /\ Injective(k.index)
       /\ Items(k.index) = Holes \ {t}
  <2>1. MemOK(Now) /\ Injective(Now.index) /\ i \in 1 .. Len(Now.index)
      BY <1>1, <1>2
  <2>2. /\ MemOK(k) /\ k.hdr = Now.hdr /\ k.ftr = Now.ftr /\ Injective(k.index)
        /\ Items(k.index) = Items(Now.index) \ {Now.index[i]}
      BY ONLY <2>1, RemoveMem
  <2> HIDE DEF k
  <2> QED
      BY <1>2, <1>3, <2>2, NowFields
<1> HIDE DEF k, g, rest, w, t
<1> DEFINE n == Carved(k, t, 0, g, rest)
           b == PutFooter(PutHeader(k, t, FALSE, g), t + HDR + (g - HDR - FTR), t)
<1>11. Taken(Now, i, size, FALSE) =
            [mem |-> IF rest > 0 THEN CutBack(b, t + g, rest) ELSE b, ptr |-> t + HDR]
  <2>1. Now.index[i] = t
      BY <1>2 DEF t
  <2>2. (IF TakesWhole(o, Gross(size)) THEN o ELSE Gross(size)) = g
      BY <1>9 DEF g
  <2>3. U(o - g) = rest
      BY <1>8 DEF rest
  <2> QED
      BY <1>4, <2>1, <2>2, <2>3 DEF Taken, k
<1>12. b = WriteTile(k, t, FALSE, g)
  <2>1. t + HDR + (g - HDR - FTR) = t + g - FTR
      BY <1>4, <1>7
  <2> QED
      BY <2>1 DEF WriteTile
<1>13. t + 0 = t /\ t + 0 + g = t + g /\ t + g \in Nat /\ (t + g) + rest <= end
    BY <1>2, <1>4, <1>7
<1>14. n = WriteBack(b, t + g, rest)
  <2>1. WriteFront(k, t, 0) = k
      BY DEF WriteFront
  <2>2. n = WriteBack(WriteTile(k, t, FALSE, g), t + g, rest)
      BY ONLY <1>13, <2>1 DEF Carved, n
  <2> QED
      BY ONLY <1>12, <2>2
<1>15. Taken(Now, i, size, FALSE) =
            [mem |-> IF rest > 0 THEN insert(n, t + 0 + g) ELSE n, ptr |-> t + 0 + HDR]
  <2>1. CASE rest > 0
    <3>1. n = WriteTile(b, t + g, TRUE, rest)
        BY <1>14, <2>1 DEF WriteBack
    <3> HIDE DEF n, b
    <3>2. CutBack(b, t + g, rest) = insert(n, t + g)
        BY <1>2, <1>7, <1>13, <3>1, CutBackIs
    <3> QED
        BY <1>11, <1>13, <2>1, <3>2
  <2>2. CASE ~(rest > 0)
    <3>1. n = b
        BY <1>14, <2>2 DEF WriteBack
    <3> HIDE DEF n, b
    <3> QED
        BY <1>11, <1>13, <2>2, <3>1
  <2> QED
      BY <2>1, <2>2
<1>16. CarveOK(Now, Holes, Tiles, end, t, 0, g, rest)
  <2>1. Now.hdr[t].size = o
      BY NowFields DEF o
  <2> QED
      BY <1>2, <1>3, <1>4, <1>7, <2>1 DEF CarveOK
<1>17. Takes(i, size, FALSE, 0, g, rest, k)
  <2> HIDE DEF n, b
  <2>1. Items(k.index) = IF 0 > 0 THEN Holes ELSE Holes \ {t}
      BY <1>10
  <2>2. CarveOK(Now, Holes, Tiles, end, index[i], 0, g, rest)
      BY <1>16 DEF t
  <2>3. Items(k.index) = IF 0 > 0 THEN Holes ELSE Holes \ {index[i]}
      BY <2>1 DEF t
  <2>4. Taken(Now, i, size, FALSE) =
            [mem |-> IF rest > 0 THEN insert(Carved(k, index[i], 0, g, rest), index[i] + 0 + g)
                                 ELSE Carved(k, index[i], 0, g, rest),
             ptr |-> index[i] + 0 + HDR]
      BY <1>15 DEF t, n
  <2> QED
      BY <1>7, <1>10, <2>2, <2>3, <2>4 DEF Takes
<1> QED
    BY <1>17

LEMMA TakeAligned ==
    ASSUME NEW i, NEW size, TakeOK(i, size, TRUE)
    PROVE  \E fr, g, rest, k : Takes(i, size, TRUE, fr, g, rest, k)
<1> USE SizesHold DEF Sizes
<1> DEFINE t == index[i]
           o == hdr[t].size
           fr == FrontSize(t)
           g == Gross(size)
           rest == o - fr - g
<1>1. /\ MemInv /\ EndInv /\ i \in 1 .. Len(index) /\ size \in Nat
      /\ Fits(Now, t, g, TRUE)
      /\ CutSafe(t, SizeOf(Now, t), size, TRUE)
    BY DEF TakeOK
<1>2. /\ MemOK(Now) /\ Injective(index) /\ Sound(Now, Holes, Tiles, end)
      /\ end \in Nat /\ end <= MAX_END /\ index \in Seq(Nat) /\ Now.index = index
    BY <1>1, NowFields DEF MemInv, EndInv, MemOK
<1>3. DOMAIN index = 1 .. Len(index) /\ Len(index) \in Nat /\ t \in Holes /\ Holes = Items(index)
    BY <1>1, <1>2, SeqFacts DEF Holes, Items
<1>4. /\ t \in Nat /\ START <= t /\ t \in DOMAIN hdr
      /\ SizeOf(Now, t) = o /\ o \in Nat /\ o < MAX_END /\ t + o <= end
      /\ IsLast(t) <=> EndAt(Now, t) = end
      /\ EndAt(Now, t) = t + o
    BY <1>1, <1>3, HoleFacts
<1> HIDE DEF o, t
<1>5. (t % PAGE) + 2 * HDR + FTR <= PAGE
    BY <1>1 DEF CutSafe
<1>6. /\ fr \in Nat /\ fr >= HDR + FTR /\ AlignOffset(t) = fr
      /\ AlignedAt(t) = t + fr /\ fr <= PAGE
    BY <1>4, <1>5, AlignFacts
<1>7. g = size + HDR + FTR /\ g \in Nat /\ g >= HDR + FTR
    BY <1>1 DEF Gross
<1>8. o - fr >= g
    BY <1>1, <1>4, <1>6, SFacts DEF Fits
<1>9. /\ rest = 0 \/ rest >= HDR + FTR
      /\ IsLast(t) => rest >= HDR + FTR
  <2> DEFINE x == o - g - fr
  <2>1. /\ IsLast(t) => x >= HDR + FTR
        /\ x = 0 \/ x >= HDR + FTR
      BY <1>1, <1>4, <1>6 DEF CutSafe
  <2>2. x = rest
      BY <1>4, <1>6, <1>7
  <2> QED
      BY <2>1, <2>2
<1> HIDE DEF fr, g
<1>10. rest \in Nat /\ fr + g + rest = o /\ (IsLast(t) => rest > 0)
    BY <1>4, <1>6, <1>7, <1>8, <1>9
<1>11. /\ U(o - g) = o - g /\ U(o - fr) = o - fr /\ U(o - fr - g) = rest
       /\ ~TakesWhole(o, g)
  <2>1. MAX_END \in Nat
      BY HeapAssumption
  <2>2. /\ o - g \in Nat /\ o - g <= MAX_END /\ o - fr \in Nat /\ o - fr <= MAX_END
        /\ rest <= MAX_END /\ ~(o - g < HDR + FTR)
      BY <1>4, <1>6, <1>7, <1>8, <1>10, <2>1
  <2>3. U(o - g) = o - g /\ U(o - fr) = o - fr /\ U(rest) = rest
      BY <1>10, <2>2, UFacts
  <2> QED
      BY <2>2, <2>3 DEF TakesWhole
<1> HIDE DEF rest
<1> DEFINE c == CutFront(Now, t)
           b == PutFooter(PutHeader(c, t + fr, FALSE, g), t + fr + HDR + (g - HDR - FTR), t + fr)
           n == Carved(Now, t, fr, g, rest)
<1>12. c = WriteTile(Now, t, TRUE, fr)
  <2>1. c = PutFooter(PutHeader(Now, t, TRUE, fr), AlignedAt(t) - FTR, t)
      BY DEF CutFront, fr
  <2>2. AlignedAt(t) - FTR = t + fr - FTR
      BY <1>4, <1>6
  <2> QED
      BY ONLY <2>1, <2>2 DEF WriteTile
<1>13. Taken(Now, i, size, TRUE) =
            [mem |-> IF rest > 0 THEN CutBack(b, t + fr + g, rest) ELSE b,
             ptr |-> t + fr + HDR]
  <2>1. Now.index[i] = t
      BY <1>2 DEF t
  <2>2. (IF TakesWhole(o, Gross(size)) THEN o ELSE Gross(size)) = g
      BY <1>11 DEF g
  <2>3. SizeOf(c, t) = fr
    <3>1. Wrote(Now, c, t, TRUE, fr)
        BY <1>2, <1>4, <1>6, <1>12, WriteTileFacts
    <3> HIDE DEF c
    <3> QED
        BY <3>1 DEF Wrote, SizeOf
  <2>4. U(U(o - SizeOf(c, t)) - g) = rest
      BY <1>11, <2>3
  <2> QED
      BY <1>4, <1>6, <2>1, <2>2, <2>4 DEF Taken, c
<1>14. b = WriteTile(c, t + fr, FALSE, g)
  <2>1. t + fr + HDR + (g - HDR - FTR) = t + fr + g - FTR
      BY <1>4, <1>6, <1>7
  <2> QED
      BY <2>1 DEF WriteTile
<1>15. n = WriteBack(b, t + fr + g, rest)
  <2>1. WriteFront(Now, t, fr) = c
    <3>1. fr > 0
        BY <1>6
    <3> QED
        BY ONLY <3>1, <1>12 DEF WriteFront
  <2> QED
      BY ONLY <1>14, <2>1 DEF Carved, n
<1>16. t + fr + g \in Nat /\ (t + fr + g) + rest <= end
    BY SMTT(30), <1>2, <1>4, <1>6, <1>7, <1>10
<1>17. Taken(Now, i, size, TRUE) =
            [mem |-> IF rest > 0 THEN insert(n, t + fr + g) ELSE n, ptr |-> t + fr + HDR]
  <2>1. CASE rest > 0
    <3>1. n = WriteTile(b, t + fr + g, TRUE, rest)
        BY <1>15, <2>1 DEF WriteBack
    <3> HIDE DEF n, b
    <3>2. CutBack(b, t + fr + g, rest) = insert(n, t + fr + g)
        BY <1>2, <1>10, <1>16, <3>1, CutBackIs
    <3> QED
        BY <1>13, <2>1, <3>2
  <2>2. CASE ~(rest > 0)
    <3>1. n = b
        BY <1>15, <2>2 DEF WriteBack
    <3> HIDE DEF n, b
    <3> QED
        BY <1>13, <2>2, <3>1
  <2> QED
      BY <2>1, <2>2
<1>18. CarveOK(Now, Holes, Tiles, end, t, fr, g, rest)
  <2>1. Now.hdr[t].size = o
      BY NowFields DEF o
  <2> QED
      BY <1>2, <1>3, <1>4, <1>6, <1>7, <1>9, <1>10, <2>1 DEF CarveOK
<1>19. Takes(i, size, TRUE, fr, g, rest, Now)
  <2> HIDE DEF n, b, c
  <2>1. CarveOK(Now, Holes, Tiles, end, index[i], fr, g, rest)
      BY <1>18 DEF t
  <2>2. Items(Now.index) = IF fr > 0 THEN Holes ELSE Holes \ {index[i]}
      BY <1>2, <1>3, <1>6
  <2>3. Taken(Now, i, size, TRUE) =
            [mem |-> IF rest > 0 THEN insert(Carved(Now, index[i], fr, g, rest), index[i] + fr + g)
                                 ELSE Carved(Now, index[i], fr, g, rest),
             ptr |-> index[i] + fr + HDR]
      BY <1>17 DEF t, n
  <2>4. MemOK(Now) /\ Now.hdr = hdr /\ Now.ftr = ftr /\ Injective(Now.index)
      BY <1>2, NowFields
  <2>5. fr \in Nat /\ g \in Nat /\ rest \in Nat /\ g >= Gross(size)
      BY <1>6, <1>7, <1>10 DEF g
  <2> QED
      BY <2>1, <2>2, <2>3, <2>4, <2>5 DEF Takes
<1> QED
    BY <1>19

\* Memory m is that of a sound heap that ends at e, with the blocks of B in use.
Heaped(m, e, B) ==
    /\ MemOK(m) /\ Injective(m.index)
    /\ Items(m.index) \cap B = {}
    /\ Sound(m, Items(m.index), Items(m.index) \cup B, e)

LEMMA NowHeaped == MemInv => Heaped(Now, end, Blocks) /\ Items(index) = Holes
<1> SUFFICES ASSUME MemInv PROVE Heaped(Now, end, Blocks) /\ Items(index) = Holes
    OBVIOUS
<1>1. MemOK(Now) /\ Injective(index) /\ Now.index = index /\ index \in Seq(Nat)
    BY NowFields DEF MemInv, MemOK
<1>2. Items(index) = Holes
    BY <1>1, SeqFacts DEF Items, Holes
<1> QED
    BY <1>1, <1>2 DEF Heaped, MemInv, Tiles

LEMMA NextHeaped ==
    ASSUME NEW m, NEW e, NEW B, Heaped(m, e, B),
           hdr' = m.hdr, ftr' = m.ftr, index' = m.index, end' = e, Blocks' = B
    PROVE  MemInv' /\ Now' = m /\ Holes' = Items(m.index)
<1>1. MemOK(m) /\ m = Mem(m.hdr, m.ftr, m.index) /\ m.index \in Seq(Nat)
    BY DEF Heaped, MemOK
<1>2. Now' = m
    BY <1>1 DEF Now
<1>3. Holes' = Items(m.index)
    BY <1>1, SeqFacts DEF Holes, Items
<1>4. Tiles' = Items(m.index) \cup B
    BY <1>3 DEF Tiles
<1> QED
    BY <1>1, <1>2, <1>3, <1>4 DEF Heaped, MemInv

\* alloc's result and the memory after the caller filled its block or did not.
Filled(t, size, fill) == IF fill THEN Wipe(t.mem, t.ptr, size) ELSE t.mem
NewBlock(m, ptr, b, size) ==
    /\ Heaped(m, end, Blocks \cup {b})
    /\ b \in Nat /\ ptr = b + HDR /\ b \notin Blocks
    /\ m.hdr[b].size \in Nat /\ m.hdr[b].size >= Gross(size)
    /\ \A u \in Blocks : m.hdr[u] = hdr[u]

LEMMA TakeHeaped ==
    ASSUME NEW i, NEW size, NEW align, TakeOK(i, size, align), NEW fill
    PROVE  LET t == Taken(Now, i, size, align)
           IN  NewBlock(Filled(t, size, fill), t.ptr, Header(t.ptr), size)
<1> USE SizesHold DEF Sizes
<1>1. PICK fr, g, rest, k : Takes(i, size, align, fr, g, rest, k)
  <2>1. align \in BOOLEAN
      BY DEF TakeOK
  <2>2. CASE align = TRUE
      BY <2>2, TakeAligned
  <2>3. CASE align = FALSE
      BY <2>3, TakePlain
  <2> QED
      BY <2>1, <2>2, <2>3
<1> DEFINE a == index[i]
           n == Carved(k, a, fr, g, rest)
           p == a + fr
           q == a + fr + g
           K == CarvedHoles(Holes, a, fr, g, rest)
           V == CarvedTiles(Tiles, a, fr, g, rest)
           w == IF rest > 0 THEN insert(n, q) ELSE n
           t == Taken(Now, i, size, align)
<1>2. /\ fr \in Nat /\ g \in Nat /\ rest \in Nat /\ g >= Gross(size) /\ size \in Nat
      /\ CarveOK(Now, Holes, Tiles, end, a, fr, g, rest)
      /\ MemOK(k) /\ k.hdr = hdr /\ k.ftr = ftr /\ Injective(k.index)
      /\ Items(k.index) = IF fr > 0 THEN Holes ELSE Holes \ {a}
      /\ t = [mem |-> w, ptr |-> p + HDR]
    BY <1>1 DEF Takes, TakeOK
<1>3. MemInv /\ EndInv /\ end \in Nat /\ Holes \cap Blocks = {} /\ Tiles = Holes \cup Blocks
    BY DEF TakeOK, EndInv, MemInv, Tiles
<1>4. a \in Holes /\ a \in Nat
    BY <1>2, TileFacts DEF CarveOK, Sound
<1> HIDE DEF a, t
<1>5. /\ MemOK(n) /\ n.index = k.index
      /\ Sound(n, K, V, end)
      /\ p \in V \ K /\ n.hdr[p].size = g
      /\ V \ K = (Tiles \ Holes) \cup {p}
      /\ \A u \in Tiles : u # a => n.hdr[u] = Now.hdr[u]
  <2>1. k.hdr = Now.hdr /\ k.ftr = Now.ftr
      BY <1>2, NowFields
  <2> QED
      BY ONLY <1>2, <2>1, CarveSound
<1>6. p \in Nat /\ q \in Nat /\ Gross(size) = size + HDR + FTR
    BY <1>2, <1>4 DEF Gross
<1> HIDE DEF n
<1>7. K = Items(k.index) \cup BackHole(q, rest)
    BY <1>2 DEF CarvedHoles
<1>8. K \subseteq V
    BY <1>5 DEF Sound
<1>9. Tiles \ Holes = Blocks
    BY <1>3
<1>10. V = K \cup (Blocks \cup {p}) /\ K \cap (Blocks \cup {p}) = {}
    BY <1>5, <1>8, <1>9
<1>11. p \notin Blocks
  <2>1. CASE fr = 0
      BY <1>3, <1>4, <1>2, <2>1
  <2>2. CASE fr > 0
    <3>1. /\ MemOK(Now) /\ Sound(Now, Holes, Tiles, end) /\ a \in Tiles
          /\ fr + g + rest = Now.hdr[a].size
        BY <1>2, <1>3, <1>4 DEF CarveOK
    <3>2. \A u \in Tiles : a < u => EndAt(Now, a) <= u
        BY <1>3, <3>1, TileFacts
    <3>3. EndAt(Now, a) = a + (fr + g + rest)
        BY <3>1 DEF EndAt
    <3>4. p < EndAt(Now, a) /\ a < p
        BY <1>2, <1>4, <1>6, <2>2, <3>3
    <3> QED
        BY <1>2, <1>3, <1>4, <1>6, <3>2, <3>3, <3>4
  <2> QED
      BY <1>2, <2>1, <2>2
<1> HIDE DEF K, V
<1>12. /\ MemOK(w) /\ w.hdr = n.hdr /\ w.ftr = n.ftr /\ Items(w.index) = K
       /\ Injective(w.index)
  <2>1. CASE rest > 0
    <3>1. BackHole(q, rest) = {q}
        BY <2>1 DEF BackHole
    <3>2. q \notin Items(n.index)
      <4>1. CarveOK(Now, Holes, Tiles, end, a, fr, g, rest)
          BY <1>2
      <4>2. /\ MemOK(Now) /\ Sound(Now, Holes, Tiles, end) /\ a \in Tiles
            /\ fr + g + rest = Now.hdr[a].size
          BY <1>3, <1>4, <4>1 DEF CarveOK
      <4>3. \A u \in Tiles : a < u => EndAt(Now, a) <= u
          BY <1>3, <4>2, TileFacts
      <4>4. EndAt(Now, a) = a + (fr + g + rest)
          BY <4>2 DEF EndAt
      <4>5. q < EndAt(Now, a) /\ a < q
          BY <1>2, <1>4, <1>6, <2>1, <4>4
      <4>6. q \notin Tiles
          BY <1>2, <1>3, <1>4, <1>6, <4>3, <4>4, <4>5
      <4> QED
          BY <1>2, <1>3, <1>5, <4>6
    <3>3. MemOK(n) /\ q \in Nat
        BY <1>5, <1>6
    <3> HIDE DEF q
    <3>4. w = insert(n, q)
        BY <2>1
    <3> HIDE DEF w
    <3>5. /\ MemOK(w) /\ w.hdr = n.hdr /\ w.ftr = n.ftr
          /\ Items(w.index) = Items(n.index) \cup {q}
          /\ Injective(n.index) /\ q \notin Items(n.index) => Injective(w.index)
        BY ONLY <3>3, <3>4, InsertMem
    <3> QED
        BY <1>2, <1>5, <1>7, <3>1, <3>2, <3>5
  <2>2. CASE ~(rest > 0)
    <3>1. BackHole(q, rest) = {}
        BY <2>2 DEF BackHole
    <3>2. w = n
        BY <2>2
    <3> HIDE DEF w
    <3> QED
        BY <1>2, <1>5, <1>7, <3>1, <3>2
  <2> QED
      BY <2>1, <2>2
<1> HIDE DEF w
<1>13. Heaped(w, end, Blocks \cup {p})
  <2>1. Sound(w, K, V, end)
      BY <1>5, <1>12 DEF Sound, Region, TileOK, EndAt
  <2> QED
      BY <1>10, <1>12, <2>1 DEF Heaped
<1>14. w.hdr[p].size = g /\ \A u \in Blocks : w.hdr[u] = hdr[u]
  <2>1. \A u \in Blocks : u \in Tiles /\ u # a
      BY <1>3, <1>4
  <2> QED
      BY <1>5, <1>12, <2>1, NowFields
<1>15. t.mem = w /\ t.ptr = p + HDR /\ Header(t.ptr) = p
    BY <1>2, <1>6 DEF Header
<1> DEFINE f == Wipe(w, p + HDR, size)
<1>16. /\ Heaped(f, end, Blocks \cup {p})
       /\ f.hdr[p].size = g /\ \A u \in Blocks : f.hdr[u] = hdr[u]
  <2>1. /\ MemOK(w) /\ Injective(w.index) /\ Items(w.index) \cap (Blocks \cup {p}) = {}
        /\ Sound(w, Items(w.index), Items(w.index) \cup (Blocks \cup {p}), end)
      BY <1>13 DEF Heaped
  <2>2. HDR + size + FTR <= w.hdr[p].size
      BY <1>2, <1>6, <1>14
  <2> DEFINE H == Items(w.index)
             T == Items(w.index) \cup (Blocks \cup {p})
  <2>3. p \in T /\ \A u \in Blocks : u \in T
      OBVIOUS
  <2>4. Sound(w, H, T, end) /\ MemOK(w) /\ size \in Nat /\ end \in Nat
      BY <1>2, <1>3, <2>1
  <2> HIDE DEF H, T
  <2>5. /\ MemOK(f) /\ f.index = w.index
        /\ Sound(f, H, T, end)
        /\ \A u \in T : f.hdr[u] = w.hdr[u]
      BY ONLY <2>2, <2>3, <2>4, FillSound
  <2> HIDE DEF f
  <2>6. Heaped(f, end, Blocks \cup {p})
      BY <2>1, <2>5 DEF Heaped, H, T
  <2> QED
      BY <1>14, <2>3, <2>5, <2>6
<1> HIDE DEF f
<1> DEFINE m == IF fill THEN f ELSE w
<1>17. /\ Heaped(m, end, Blocks \cup {p})
       /\ m.hdr[p].size = g /\ \A u \in Blocks : m.hdr[u] = hdr[u]
    BY <1>13, <1>14, <1>16
<1> HIDE DEF m, p
<1>18. m = IF fill THEN Wipe(t.mem, t.ptr, size) ELSE t.mem
    BY <1>15 DEF m, f
<1>19. /\ Heaped(m, end, Blocks \cup {p})
       /\ p \in Nat /\ t.ptr = p + HDR /\ p \notin Blocks
       /\ m.hdr[p].size \in Nat /\ m.hdr[p].size >= Gross(size)
       /\ \A u \in Blocks : m.hdr[u] = hdr[u]
    BY <1>2, <1>6, <1>11, <1>15, <1>17
<1> HIDE DEF m
<1> QED
  <2>1. Header(t.ptr) = p
      BY <1>15
  <2>2. NewBlock(m, t.ptr, p, size)
      BY <1>19 DEF NewBlock
  <2>3. m = Filled(t, size, fill)
      BY <1>18 DEF Filled
  <2> QED
      BY <2>1, <2>2, <2>3 DEF t

-----------------------------------------------------------------------------
(* The steps of alloc                                                      *)

LEMMA TakeStep ==
    ASSUME IInv, NEW fill \in BOOLEAN, alloc_take(fill), client' = client
    PROVE  /\ IInv'
           /\ \E p \in Nat : p \notin DOMAIN live /\ live' = At(live, p, req.size)
<1> USE SizesHold DEF Sizes
<1> DEFINE i == HoleFor(req)
           t == Taken(Now, i, req.size, req.align)
           m == IF fill THEN Wipe(t.mem, t.ptr, req.size) ELSE t.mem
           b == Header(t.ptr)
<1>1. /\ req # NoReq /\ i <= Len(index)
      /\ hdr' = m.hdr /\ ftr' = m.ftr /\ index' = m.index
      /\ live' = At(live, t.ptr, req.size)
      /\ req' = NoReq /\ end' = end /\ backed' = backed /\ fault' = fault
    BY DEF alloc_take
<1>2. /\ MemInv /\ EndInv /\ LiveInv /\ NoFault /\ client \in Clients
      /\ req.size \in Nat /\ req.align \in BOOLEAN
      /\ AllocSafe(req.size, req.align)
    BY <1>1 DEF IInv, ReqInv
<1>3. MemOK(Now) /\ Now.index = index
    BY <1>2, NowFields DEF MemInv
<1>4. i \in 1 .. Len(index) /\ Fits(Now, index[i], Gross(req.size), req.align)
  <2>1. /\ Len(Now.index) \in Nat /\ i \in 1 .. Len(Now.index) + 1
        /\ i <= Len(Now.index) => Fits(Now, Now.index[i], Gross(req.size), req.align)
      BY <1>3, FindFacts DEF HoleFor
  <2> HIDE DEF i
  <2> QED
      BY <1>1, <1>3, <2>1
<1>5. CutSafe(index[i], SizeOf(Now, index[i]), req.size, req.align)
    BY <1>1, <1>2 DEF AllocSafe, HoleFor
<1> HIDE DEF i
<1>6. TakeOK(i, req.size, req.align)
    BY <1>2, <1>4, <1>5 DEF TakeOK
<1>7. /\ Heaped(m, end, Blocks \cup {b})
      /\ b \in Nat /\ t.ptr = b + HDR /\ b \notin Blocks
      /\ m.hdr[b].size \in Nat /\ m.hdr[b].size >= Gross(req.size)
      /\ \A u \in Blocks : m.hdr[u] = hdr[u]
  <2>1. m = Filled(t, req.size, fill)
      BY DEF Filled
  <2>2. NewBlock(Filled(t, req.size, fill), t.ptr, Header(t.ptr), req.size)
      BY <1>6, TakeHeaped
  <2> QED
      BY ONLY <2>1, <2>2 DEF NewBlock, b
<1> HIDE DEF m, t
<1> DEFINE p == t.ptr
<1>8. p \in Nat /\ Header(p) = b
    BY <1>7
<1>9. DOMAIN live' = DOMAIN live \cup {p}
    BY <1>1 DEF At
<1>10. p \notin DOMAIN live
    BY <1>7, <1>8 DEF Blocks
<1>11. Blocks' = Blocks \cup {b}
  <2>1. Blocks' = {Header(x) : x \in DOMAIN live'}
      BY DEF Blocks, Header
  <2>2. Blocks' = {Header(x) : x \in DOMAIN live} \cup {Header(p)}
      BY <1>9, <2>1
  <2> QED
      BY <1>8, <2>2 DEF Blocks
<1> HIDE DEF b, p
<1>12. MemInv'
    BY <1>1, <1>7, <1>11, NextHeaped
<1>13. EndInv'
    BY <1>1, <1>2 DEF EndInv
<1>14. LiveInv'
  <2> DEFINE l == At(live, p, req.size)
  <2>1. /\ l = [x \in DOMAIN l |-> l[x]] /\ DOMAIN l = DOMAIN live \cup {p}
        /\ l[p] = req.size
        /\ \A x \in DOMAIN live : x # p => l[x] = live[x]
      BY DEF At
  <2>2. live' = l
      BY <1>1 DEF p
  <2> HIDE DEF l
  <2>3. ASSUME NEW x \in DOMAIN l
        PROVE  l[x] \in Nat /\ m.hdr[Header(x)].size >= Gross(l[x])
    <3>1. CASE x = p
        BY <1>2, <1>7, <1>8, <2>1, <3>1
    <3>2. CASE x # p
      <4>1. x \in DOMAIN live /\ l[x] = live[x] /\ Header(x) \in Blocks
          BY <2>1, <3>2 DEF Blocks
      <4>2. m.hdr[Header(x)] = hdr[Header(x)]
          BY <1>7, <4>1
      <4> QED
          BY <1>2, <4>1, <4>2 DEF LiveInv
    <3> QED
        BY <3>1, <3>2
  <2>4. DOMAIN l \subseteq Nat
      BY <1>2, <1>8, <2>1 DEF LiveInv
  <2> QED
      BY <1>1, <2>1, <2>2, <2>3, <2>4 DEF LiveInv, Header, Gross
<1>15. ReqInv'
    BY <1>1 DEF ReqInv, NoReq
<1>16. IInv'
    BY <1>1, <1>2, <1>12, <1>13, <1>14, <1>15 DEF IInv, NoFault
<1> QED
    BY <1>1, <1>8, <1>10, <1>16 DEF p

LEMMA RequestStep ==
    ASSUME IInv, Disciplined, NEW size \in Nat, NEW align \in BOOLEAN,
           Request(size, align), client' = client
    PROVE  IInv'
<1>1. /\ AllocSafe(size, align) /\ fault = "none"
      /\ req' = [size |-> size, align |-> align]
      /\ UNCHANGED <<hdr, ftr, index, end, backed, live, fault>>
    BY DEF Request, alloc, Idle
<1>2. MemInv /\ EndInv /\ LiveInv /\ NoFault /\ client \in Clients
    BY DEF IInv
<1>3. MemInv'
    BY <1>1, <1>2 DEF MemInv, Now, Holes, Tiles, Blocks, Header
<1>4. EndInv'
    BY <1>1, <1>2 DEF EndInv
<1>5. LiveInv'
    BY <1>1, <1>2 DEF LiveInv, Header, Gross
<1>6. ReqInv'
  <2>1. req' \in [size : Nat, align : BOOLEAN] /\ req'.size = size /\ req'.align = align
      BY <1>1
  <2>2. Now' = Now /\ Length' = Length /\ TopHole' = TopHole
      BY <1>1 DEF Now, Length, TopHole
  <2>3. \A a, n, s, l : CutSafe(a, n, s, l)' = CutSafe(a, n, s, l)
      BY <1>1, <2>2 DEF CutSafe, IsLast
  <2> QED
      BY <1>1, <2>1, <2>2, <2>3 DEF ReqInv, AllocSafe, ExpandSafe, IsLast
<1> QED
    BY <1>1, <1>2, <1>3, <1>4, <1>5, <1>6 DEF IInv, NoFault

-----------------------------------------------------------------------------
(* The last tile                                                           *)

\* Memory w has the tiles of m before t, and t as its last tile.
Upto(X, t) == {u \in X : u < t} \cup {t}
Cut(m, w, H, T, e, t, f) ==
    /\ e \in Nat /\ f \in Nat
    /\ MemOK(m) /\ Sound(m, H, T, e) /\ t \in T
    /\ t \in H \/ \A u \in H : EndAt(m, u) # t
    /\ MemOK(w) /\ SameOn(m, w, START, t)
    /\ TileOK(w, Upto(H, t), t, f) /\ EndAt(w, t) = f

LEMMA CutSound ==
    ASSUME NEW m, NEW w, NEW H, NEW T, NEW e, NEW t, NEW f, Cut(m, w, H, T, e, t, f)
    PROVE  /\ Sound(w, Upto(H, t), Upto(T, t), f)
           /\ \A u \in T : u < t => w.hdr[u] = m.hdr[u]
<1> USE SizesHold DEF Sizes
<1> DEFINE K == Upto(H, t)
           V == Upto(T, t)
<1>1. /\ e \in Nat /\ f \in Nat
      /\ MemOK(m) /\ Sound(m, H, T, e) /\ t \in T
      /\ t \in H \/ \A u \in H : EndAt(m, u) # t
      /\ MemOK(w) /\ SameOn(m, w, START, t)
      /\ TileOK(w, K, t, f) /\ EndAt(w, t) = f
    BY DEF Cut
<1>2. T \subseteq START .. e - 1 /\ T \subseteq Nat /\ H \subseteq T
    BY <1>1 DEF Sound
<1>3. t \in Nat /\ START <= t /\ t < e
    BY <1>1, <1>2
<1>4. K = {u \in H : u < t} \cup {t} /\ V = {u \in T : u < t} \cup {t}
    BY DEF Upto
<1> HIDE DEF K, V
<1>5. K \subseteq V /\ V \subseteq Nat
    BY <1>2, <1>3, <1>4
<1>6. t + HDR + FTR <= f
  <2>1. t \in DOMAIN w.hdr /\ w.hdr[t].size >= HDR + FTR /\ f = t + w.hdr[t].size
      BY <1>1 DEF TileOK, EndAt
  <2>2. w.hdr[t].size \in Nat
      BY <1>1, <2>1, SizeType
  <2> QED
      BY <1>3, <2>1, <2>2
<1>7. Region(w, K, V, START, t, f)
  <2>1. Region(m, H, T, START, t, e)
      BY <1>1, Around
  <2>2. \A u \in Nat : START <= u /\ u < t => (u \in H <=> u \in K) /\ (u \in T <=> u \in V)
      BY <1>3, <1>4
  <2>3. RegionFrame(m, w, H, K, T, V, START, t, e, f)
      BY <1>1, <1>2, <1>3, <1>5, <2>1, <2>2 DEF RegionFrame
  <2> QED
      BY <2>3, FrameRegion
<1>8. Region(w, K, V, t, f, f)
  <2>1. t \in V /\ \A u \in V : t < u => f <= u
      BY <1>2, <1>3, <1>4
  <2> QED
      BY <1>1, <1>3, <1>5, <2>1, OneTile
<1>9. Region(w, K, V, START, f, f)
  <2>1. t <= f
      BY <1>1, <1>3, <1>6
  <2> QED
      BY <1>1, <1>3, <1>5, <1>7, <1>8, <2>1, JoinRegion
<1>10. ASSUME NEW u \in T, u < t
       PROVE  w.hdr[u] = m.hdr[u] /\ EndAt(w, u) = EndAt(m, u) /\ EndAt(m, u) <= t /\ EndAt(m, u) \in Nat
  <2>1. /\ TileOK(m, H, u, e) /\ u \in Nat /\ START <= u /\ EndAt(m, u) \in Nat
        /\ u + HDR + FTR <= EndAt(m, u) /\ EndAt(m, u) <= t
      BY <1>1, <1>10, TileFacts
  <2>2. u \in DOMAIN m.hdr /\ u + HDR <= t
      BY <1>3, <2>1 DEF TileOK
  <2>3. w.hdr[u] = m.hdr[u]
      BY <1>1, <2>1, <2>2 DEF SameOn
  <2> QED
      BY <2>1, <2>3 DEF EndAt
<1>11. ASSUME NEW u \in V \ K PROVE EndAt(w, u) # f
  <2>1. u \in T /\ u < t
      BY <1>4, <1>11
  <2> QED
      BY <1>1, <1>3, <1>6, <1>10, <2>1
<1>12. ASSUME NEW u \in K PROVE EndAt(w, u) \notin K
  <2>1. CASE u = t
      BY <1>1, <1>2, <1>3, <1>4, <1>6, <2>1
  <2>2. CASE u # t
    <3>1. u \in H /\ u \in T /\ u < t
        BY <1>2, <1>4, <1>12, <2>2
    <3>2. EndAt(m, u) \notin H
        BY <1>1, <3>1 DEF Sound
    <3>3. EndAt(m, u) # t
        BY <1>1, <3>1, <3>2
    <3> QED
        BY <1>4, <1>10, <3>1, <3>2, <3>3
  <2> QED
      BY <2>1, <2>2
<1>13. V \subseteq START .. f - 1
  <2>1. ASSUME NEW u \in V PROVE u \in START .. f - 1
    <3>1. u \in Nat /\ START <= u /\ u <= t
        BY <1>2, <1>3, <1>4
    <3> QED
        BY <1>1, <1>3, <1>6, <3>1
  <2> QED
      BY <2>1
<1>14. Sound(w, K, V, f)
    BY <1>5, <1>9, <1>11, <1>12, <1>13 DEF Sound
<1> QED
    BY <1>10, <1>14 DEF K, V

\* A hole gets a new size and a footer to match it.
Resized(m, t, n) == PutFooter(SetSize(m, t, n), t + n - FTR, t)

LEMMA ResizedFacts ==
    ASSUME NEW m, MemOK(m), NEW t \in DOMAIN m.hdr, START <= t, m.hdr[t].hole = TRUE,
           NEW n \in Nat, n >= HDR + FTR
    PROVE  LET w == Resized(m, t, n)
           IN  /\ MemOK(w) /\ w.index = m.index /\ SameOn(m, w, START, t)
               /\ EndAt(w, t) = t + n /\ w.hdr[t].size = n
               /\ \A H, e : t \in H => TileOK(w, H, t, e)
<1> USE SizesHold DEF Sizes
<1> DEFINE s == SetSize(m, t, n)
           f == t + n - FTR
           w == PutFooter(s, f, t)
<1>1. t \in Nat
    BY DEF MemOK
<1>2. /\ MemOK(s) /\ s.ftr = m.ftr /\ s.index = m.index
      /\ DOMAIN s.hdr = DOMAIN m.hdr
      /\ s.hdr[t].size = n /\ s.hdr[t].hole = TRUE
      /\ \A x \in DOMAIN m.hdr : x # t => s.hdr[x] = m.hdr[x]
    BY SetSizeFacts
<1>3. f \in Nat /\ START <= f /\ t + HDR <= f /\ f + FTR = t + n
    BY <1>1
<1> HIDE DEF s, f
<1>4. /\ MemOK(w) /\ w.index = s.index
      /\ f \in DOMAIN w.ftr /\ w.ftr[f] = t
      /\ \A lo, hi \in Nat : f + FTR <= lo \/ hi <= f => SameOn(s, w, lo, hi)
  <2>1. MemOK(s) /\ f \in Nat /\ START <= f /\ t \in Nat
      BY <1>1, <1>2, <1>3
  <2> QED
      BY ONLY <2>1, PutFooterFacts
<1> HIDE DEF w
<1>5. t \in DOMAIN w.hdr /\ w.hdr[t] = s.hdr[t]
  <2>1. SameOn(s, w, t, t + HDR)
      BY <1>1, <1>3, <1>4
  <2> QED
      BY <1>1, <1>2, <2>1 DEF SameOn
<1>6. SameOn(m, w, START, t)
  <2>1. SameOn(m, s, START, t)
      BY <1>1, <1>2 DEF SameOn
  <2>2. SameOn(s, w, START, t)
      BY <1>1, <1>3, <1>4
  <2> QED
      BY <1>1, <2>1, <2>2, SameOnTrans
<1>7. EndAt(w, t) = t + n /\ w.hdr[t].size = n /\ EndAt(w, t) - FTR = f
    BY <1>1, <1>2, <1>5 DEF EndAt, f
<1>8. ASSUME NEW H, NEW e, t \in H PROVE TileOK(w, H, t, e)
    BY <1>2, <1>4, <1>5, <1>7, <1>8 DEF TileOK, Inside
<1>9. w = Resized(m, t, n)
    BY DEF Resized, w, s, f
<1> QED
    BY <1>2, <1>4, <1>6, <1>7, <1>8, <1>9

-----------------------------------------------------------------------------
(* Pages                                                                   *)

LEMMA MulMono ==
    ASSUME NEW d \in Nat, d > 0, NEW a \in Nat, NEW b \in Nat
    PROVE  /\ d * a \in Nat /\ d * (a + b) = d * a + d * b
           /\ a < b => d * a + d <= d * b
           /\ a <= b => d * a <= d * b
<1>1. d * a \in Nat /\ d * (a + b) = d * a + d * b
    OBVIOUS
<1>2. ASSUME a < b PROVE d * a + d <= d * b
  <2>1. PICK c \in Nat : b = a + 1 + c
    <3>1. b - a - 1 \in Nat /\ b = a + 1 + (b - a - 1)
        BY <1>2
    <3> QED
        BY <3>1
  <2>2. d * b = d * a + d + d * c /\ d * c \in Nat
      BY <2>1
  <2> QED
      BY <2>2
<1> QED
    BY <1>1, <1>2

\* The pages of whole page ranges.
LEMMA WholePages ==
    ASSUME NEW n \in Nat, n % PAGE = 0
    PROVE  \E q \in Nat : n = PAGE * q
<1>1. PAGE \in Nat /\ PAGE > 0
    BY SizesHold DEF Sizes
<1>2. n = PAGE * (n \div PAGE) + (n % PAGE) /\ n \div PAGE \in Nat
    BY <1>1, DivMod
<1>3. n = PAGE * (n \div PAGE)
    BY <1>1, <1>2
<1> QED
    BY <1>2, <1>3

LEMMA PageOf ==
    ASSUME NEW q \in Nat, NEW r \in Nat, r < PAGE
    PROVE  /\ (PAGE * q + r) \div PAGE = q /\ (PAGE * q) \div PAGE = q
           /\ (PAGE * q) % PAGE = 0
<1>1. PAGE \in Nat /\ PAGE > 0
    BY SizesHold DEF Sizes
<1>2. (PAGE * q + r) \div PAGE = q
    BY <1>1, ModUnique
<1>3. 0 \in Nat /\ 0 < PAGE
    BY <1>1
<1>4. (PAGE * q + 0) \div PAGE = q /\ (PAGE * q + 0) % PAGE = 0
    BY ONLY <1>1, <1>3, ModUnique
<1>5. PAGE * q + 0 = PAGE * q
    BY <1>1
<1> QED
    BY <1>2, <1>4, <1>5

\* expand gives a frame to every page between the old and the new end.
LEMMA ExpandBacked ==
    ASSUME NEW old \in Nat, NEW new \in Nat, old % PAGE = 0, new % PAGE = 0, old <= new
    PROVE  \A x \in START \div PAGE .. (START + new) \div PAGE - 1 :
              \/ x \in START \div PAGE .. (START + old) \div PAGE - 1
              \/ x \in ExpandPages(old, new)
<1>0. PAGE \in Nat /\ PAGE > 0 /\ START \in Nat
    BY SizesHold DEF Sizes
<1>1. PICK s \in Nat : START = PAGE * s
    BY <1>0, WholePages, HeapAssumption
<1>2. PICK a \in Nat : old = PAGE * a
    BY WholePages
<1>3. PICK b \in Nat : new = PAGE * b
    BY WholePages
<1>4. START + old = PAGE * (s + a) /\ START + new = PAGE * (s + b)
    BY <1>0, <1>1, <1>2, <1>3, MulMono
<1>5. START \div PAGE = s /\ (START + old) \div PAGE = s + a /\ (START + new) \div PAGE = s + b
  <2>1. s + a \in Nat /\ s + b \in Nat /\ 0 \in Nat /\ 0 < PAGE
      BY <1>0
  <2>2. \A q \in Nat : (PAGE * q) \div PAGE = q
      BY <2>1, PageOf
  <2> QED
      BY <1>1, <1>4, <2>1, <2>2
<1>6. ASSUME NEW x \in Nat, s + a <= x, x < s + b PROVE x \in ExpandPages(old, new)
  <2> DEFINE c == x - s
             d == x - (s + a)
             i == PAGE * c
  <2>1. c \in Nat /\ a <= c /\ c < b /\ d \in Nat /\ c = a + d /\ s + c = x
      BY <1>6
  <2> HIDE DEF c, d
  <2>2. i \in Nat /\ old <= i /\ i + PAGE <= new /\ i = old + PAGE * d /\ PAGE * d \in Nat
      BY <1>0, <1>2, <1>3, <2>1, MulMono
  <2>3. (i - old) % PAGE = 0
    <3>1. i - old = PAGE * d
        BY <2>2
    <3>2. (PAGE * d) % PAGE = 0
      <4>1. 0 \in Nat /\ 0 < PAGE
          BY <1>0
      <4> QED
          BY <2>1, <4>1, PageOf
    <3> QED
        BY <3>1, <3>2
  <2>4. (START + i) \div PAGE = x
    <3>1. START + i = PAGE * x
        BY <1>0, <1>1, <2>1, MulMono
    <3>2. 0 \in Nat /\ 0 < PAGE
        BY <1>0
    <3> QED
        BY <3>1, <3>2, PageOf
  <2>5. i \in {j \in old .. new - 1 : (j - old) % PAGE = 0}
      BY <1>0, <2>2, <2>3
  <2> QED
      BY <2>4, <2>5 DEF ExpandPages
<1> QED
    BY <1>5, <1>6

\* Every address of the heap lies in one of its pages.
LEMMA PageInside ==
    ASSUME NEW len \in Nat, len % PAGE = 0, NEW a \in Nat, START <= a, a < START + len
    PROVE  a \div PAGE \in START \div PAGE .. (START + len) \div PAGE - 1
<1>0. PAGE \in Nat /\ PAGE > 0 /\ START \in Nat /\ 0 \in Nat /\ 0 < PAGE
    BY SizesHold DEF Sizes
<1>1. PICK s \in Nat : START = PAGE * s
    BY <1>0, WholePages, HeapAssumption
<1>2. PICK b \in Nat : len = PAGE * b
    BY WholePages
<1>3. START + len = PAGE * (s + b) /\ s + b \in Nat
    BY <1>0, <1>1, <1>2, MulMono
<1>4. START \div PAGE = s /\ (START + len) \div PAGE = s + b
    BY <1>0, <1>1, <1>3, PageOf
<1> DEFINE x == a \div PAGE
           r == a % PAGE
<1>5. a = PAGE * x + r /\ x \in Nat /\ r \in Nat /\ r < PAGE
    BY <1>0, DivMod
<1> HIDE DEF x, r
<1>6. s <= x
  <2>1. CASE x < s
    <3>1. PAGE * x + PAGE <= PAGE * s
        BY <1>0, <1>5, <2>1, MulMono
    <3>2. PAGE * x \in Nat
        BY <1>0, <1>5, MulMono
    <3> QED
        BY <1>0, <1>1, <1>5, <3>1, <3>2
  <2> QED
      BY <1>5, <2>1
<1>7. x < s + b
  <2>1. CASE s + b <= x
    <3>1. PAGE * (s + b) <= PAGE * x /\ PAGE * x \in Nat
        BY <1>0, <1>3, <1>5, <2>1, MulMono
    <3> QED
        BY <1>0, <1>3, <1>5, <3>1
  <2> QED
      BY <1>3, <1>5, <2>1
<1>8. x \in s .. (s + b) - 1
    BY <1>3, <1>5, <1>6, <1>7
<1> QED
    BY <1>4, <1>8 DEF x

\* contract takes no frame of a page below the new end.
LEMMA ContractKeeps ==
    ASSUME NEW old \in Nat, NEW new \in Nat, new % PAGE = 0,
           NEW x \in START \div PAGE .. (START + new) \div PAGE - 1
    PROVE  x \notin ContractPages(old, new)
<1>0. PAGE \in Nat /\ PAGE > 0 /\ START \in Nat /\ 0 \in Nat /\ 0 < PAGE
    BY SizesHold DEF Sizes
<1>1. PICK s \in Nat : START = PAGE * s
    BY <1>0, WholePages, HeapAssumption
<1>2. PICK b \in Nat : new = PAGE * b
    BY WholePages
<1>3. START + new = PAGE * (s + b) /\ s + b \in Nat
    BY <1>0, <1>1, <1>2, MulMono
<1>4. START \div PAGE = s /\ (START + new) \div PAGE = s + b
    BY <1>0, <1>1, <1>3, PageOf
<1>5. x \in Nat /\ x < s + b
    BY <1>4
<1>6. ASSUME NEW j \in new + 1 .. old - PAGE PROVE (START + j) \div PAGE # x
  <2> DEFINE y == (START + j) \div PAGE
             r == (START + j) % PAGE
  <2>1. START + j \in Nat /\ START + j > START + new
      BY <1>0, <1>6
  <2>2. START + j = PAGE * y + r /\ y \in Nat /\ r \in Nat /\ r < PAGE
      BY <1>0, <2>1, DivMod
  <2> HIDE DEF y, r
  <2>3. CASE y = x
    <3>1. PAGE * y + PAGE <= PAGE * (s + b) /\ PAGE * y \in Nat
        BY <1>0, <1>3, <1>5, <2>2, <2>3, MulMono
    <3> QED
        BY <1>0, <1>3, <2>1, <2>2, <3>1
  <2> QED
      BY <2>3 DEF y
<1> QED
    BY <1>6 DEF ContractPages

LEMMA ExpandSizeFacts ==
    ASSUME NEW n \in Nat PROVE ExpandSize(n) \in Nat /\ n <= ExpandSize(n)
<1>0. PAGE \in Nat /\ PAGE > 0
    BY SizesHold DEF Sizes
<1> DEFINE r == n % PAGE
<1>1. r \in Nat /\ r < PAGE /\ r <= n
    BY <1>0, DivMod
<1> HIDE DEF r
<1>2. n - r + PAGE \in Nat /\ n <= n - r + PAGE
    BY <1>0, <1>1
<1> QED
    BY <1>2 DEF ExpandSize, r

-----------------------------------------------------------------------------
(* expand                                                                  *)

\* The request that found no hole and what expand makes of the heap.
GrowOK(size, align) ==
    /\ MemInv /\ EndInv /\ size \in Nat /\ align \in BOOLEAN
    /\ ExpandSafe(size, align)
NewLength(size) == ExpandSize(Length + Gross(size))

LEMMA TopHoleFacts ==
    ASSUME NEW size, NEW align, GrowOK(size, align)
    PROVE  LET new == NewLength(size)
               t == TopHole
               n == hdr[t].size + new - Length
           IN  /\ t \in Holes /\ \A u \in Holes : u <= t
               /\ t \in Nat /\ START <= t /\ t \in DOMAIN hdr /\ hdr[t].size \in Nat
               /\ t + hdr[t].size = end /\ EndAt(Now, t) = end
               /\ new \in Nat /\ new % PAGE = 0 /\ Length + Gross(size) <= new
               /\ START + new <= MAX_END /\ Length \in Nat
               /\ n \in Nat /\ n >= Gross(size) /\ n >= HDR + FTR /\ n < MAX_END
               /\ t + n = START + new
               /\ SizeOf(Now, t) = hdr[t].size
               /\ CutSafe(t, n, size, align)
<1> USE SizesHold DEF Sizes
<1> DEFINE new == NewLength(size)
           t == TopHole
           o == hdr[t].size
           n == o + new - Length
<1>1. MemInv /\ EndInv /\ size \in Nat /\ ExpandSafe(size, align)
    BY DEF GrowOK
<1>2. /\ index # <<>> /\ IsLast(t) /\ new % PAGE = 0 /\ START + new <= MAX_END
      /\ CutSafe(t, SizeOf(Now, t) + new - Length, size, align)
    BY <1>1 DEF ExpandSafe, NewLength
<1>3. index \in Seq(Nat)
    BY <1>1, NowFields DEF MemInv, MemOK
<1>4. Len(index) \in Nat /\ DOMAIN index = 1 .. Len(index) /\ \A k \in 1 .. Len(index) : index[k] \in Nat
    BY <1>3, SeqFacts
<1>5. Holes # {} /\ Holes \in SUBSET Nat
  <2>1. Len(index) # 0
      BY <1>2, <1>3, EmptySeq
  <2>2. 1 \in DOMAIN index
      BY <1>4, <2>1
  <2> QED
      BY <1>4, <2>2 DEF Holes
<1>6. \A u \in Holes : u <= MAX_END
  <2>1. ASSUME NEW u \in Holes PROVE u <= MAX_END
    <3>1. u \in Nat /\ hdr[u].size \in Nat /\ u + hdr[u].size <= end
        BY <1>1, HoleFacts
    <3>2. end \in Nat /\ end <= MAX_END /\ MAX_END \in Nat
        BY <1>1, HeapAssumption DEF EndInv
    <3> QED
        BY <3>1, <3>2
  <2> QED
      BY <2>1
<1>7. \E a \in Holes : \A u \in Holes : u <= a
    BY <1>5, <1>6, GreatestNumber, HeapAssumption
<1>8. \E a \in {index[k] : k \in DOMAIN index} : \A k \in DOMAIN index : index[k] <= a
    BY <1>7 DEF Holes
<1>9. t \in {index[k] : k \in DOMAIN index} /\ \A k \in DOMAIN index : index[k] <= t
    BY Zenon, <1>8 DEF TopHole
<1>10. t \in Holes /\ \A u \in Holes : u <= t
    BY <1>9 DEF Holes
<1> HIDE DEF t
<1>11. /\ t \in Nat /\ START <= t /\ t \in DOMAIN hdr
       /\ SizeOf(Now, t) = o /\ o \in Nat
       /\ IsLast(t) <=> EndAt(Now, t) = end
       /\ EndAt(Now, t) = t + o
    BY <1>1, <1>10, HoleFacts
<1>12. Length \in Nat /\ START + Length = end /\ Gross(size) \in Nat /\ Gross(size) >= HDR + FTR
  <2>1. end \in Nat /\ START + MIN_SIZE <= end /\ MIN_SIZE \in Nat
      BY <1>1, HeapAssumption DEF EndInv
  <2> QED
      BY <1>1, <2>1 DEF Length, Gross
<1>13. new \in Nat /\ Length + Gross(size) <= new
    BY <1>12, ExpandSizeFacts DEF NewLength
<1> HIDE DEF new, o
<1>14. t + o = end
    BY <1>2, <1>11
<1>15. /\ n \in Nat /\ n >= Gross(size) /\ n >= HDR + FTR /\ t + n = START + new
       /\ n < MAX_END
  <2>1. MAX_END \in Nat
      BY HeapAssumption
  <2> QED
      BY <1>2, <1>11, <1>12, <1>13, <1>14, <2>1
<1> QED
    BY <1>2, <1>10, <1>11, <1>12, <1>13, <1>14, <1>15 DEF t, new, o

LEMMA GrownHeaped ==
    ASSUME NEW size, NEW align, GrowOK(size, align)
    PROVE  LET new == NewLength(size)
               m == Grown(Now, new - Length)
               n == hdr[TopHole].size + new - Length
           IN  /\ Heaped(m, START + new, Blocks) /\ m.index = index
               /\ m.hdr[TopHole].size = n /\ TopHole \in DOMAIN m.hdr
               /\ \A u \in Tiles : u # TopHole => m.hdr[u] = hdr[u] /\ u \in DOMAIN m.hdr
<1> USE SizesHold DEF Sizes
<1> DEFINE new == NewLength(size)
           t == TopHole
           n == hdr[t].size + new - Length
           m == Grown(Now, new - Length)
           w == Resized(Now, t, n)
<1>1. /\ t \in Holes /\ \A u \in Holes : u <= t
      /\ t \in Nat /\ START <= t /\ t \in DOMAIN hdr /\ hdr[t].size \in Nat
      /\ t + hdr[t].size = end /\ EndAt(Now, t) = end
      /\ new \in Nat /\ START + new <= MAX_END /\ Length \in Nat /\ Length + Gross(size) <= new
      /\ n \in Nat /\ n >= Gross(size) /\ n >= HDR + FTR /\ n < MAX_END
      /\ t + n = START + new
      /\ SizeOf(Now, t) = hdr[t].size
    BY TopHoleFacts
<1>2. MemInv /\ EndInv /\ size \in Nat /\ index # <<>>
    BY DEF GrowOK, ExpandSafe
<1>3. /\ MemOK(Now) /\ Sound(Now, Holes, Tiles, end) /\ t \in Tiles /\ end \in Nat
      /\ Tiles = Holes \cup Blocks /\ Holes \cap Blocks = {} /\ Injective(index)
    BY <1>1, <1>2 DEF MemInv, Tiles, EndInv
<1>4. m = w
  <2>1. SizeOf(Now, t) + (new - Length) = n
      BY <1>1
  <2>2. U(SizeOf(Now, t) + (new - Length)) = n
      BY <1>1, <2>1, UFacts, HeapAssumption
  <2> HIDE DEF n
  <2> QED
      BY <1>2, <2>2 DEF Grown, Resized
<1> HIDE DEF n, new, m, t
<1>5. t \in DOMAIN Now.hdr /\ Now.hdr[t].hole = TRUE
  <2>1. TileOK(Now, Holes, t, end)
      BY <1>3, TileFacts
  <2> QED
      BY <1>1, <2>1 DEF TileOK
<1>6. /\ MemOK(w) /\ w.index = Now.index /\ SameOn(Now, w, START, t)
      /\ EndAt(w, t) = t + n /\ w.hdr[t].size = n
      /\ \A H, e : t \in H => TileOK(w, H, t, e)
    BY <1>1, <1>3, <1>5, ResizedFacts
<1> HIDE DEF w
<1>7. Cut(Now, w, Holes, Tiles, end, t, START + new)
  <2>1. t \in Upto(Holes, t)
      BY DEF Upto
  <2>2. TileOK(w, Upto(Holes, t), t, START + new)
      BY <1>6, <2>1
  <2> QED
      BY <1>1, <1>3, <1>6, <2>2 DEF Cut
<1>8. \A u \in Tiles : u <= t
  <2>1. \A u \in Tiles : t < u => EndAt(Now, t) <= u
      BY <1>3, TileFacts
  <2>2. Tiles \subseteq START .. end - 1
      BY <1>3 DEF Sound
  <2> QED
      BY <1>1, <1>3, <2>1, <2>2
<1>9. Upto(Holes, t) = Holes /\ Upto(Tiles, t) = Tiles
  <2>1. Tiles \subseteq Nat /\ Holes \subseteq Tiles
      BY <1>3 DEF Sound
  <2> QED
      BY <1>1, <1>3, <1>8, <2>1 DEF Upto
<1>10. /\ Sound(w, Holes, Tiles, START + new)
       /\ \A u \in Tiles : u < t => w.hdr[u] = Now.hdr[u]
    BY <1>7, <1>9, CutSound
<1>11. Items(index) = Holes /\ w.index = index
    BY <1>2, <1>6, NowHeaped, NowFields
<1>12. Heaped(w, START + new, Blocks)
    BY <1>3, <1>6, <1>10, <1>11 DEF Heaped
<1>13. \A u \in Tiles : u \in DOMAIN w.hdr
  <2>1. ASSUME NEW u \in Tiles PROVE u \in DOMAIN w.hdr
    <3>1. START + new \in Nat
        BY <1>1
    <3>2. TileOK(w, Holes, u, START + new)
        BY <1>6, <1>10, <3>1, TileFacts
    <3> QED
        BY <3>2 DEF TileOK
  <2> QED
      BY <2>1
<1>14. \A u \in Tiles : u # t => w.hdr[u] = hdr[u]
  <2>1. Tiles \subseteq Nat
      BY <1>3 DEF Sound
  <2> QED
      BY <1>1, <1>8, <1>10, <2>1, NowFields
<1> QED
    BY <1>3, <1>4, <1>6, <1>11, <1>12, <1>13, <1>14 DEF m, n, new, t

LEMMA ExpandStep ==
    ASSUME IInv, alloc_expand, client' = client
    PROVE  IInv' /\ live' = live
<1> USE SizesHold DEF Sizes
<1> DEFINE size == req.size
           align == req.align
           new == NewLength(size)
           m == Grown(Now, new - Length)
           t == TopHole
           n == hdr[t].size + new - Length
<1>1. /\ req # NoReq /\ HoleFor(req) > Len(index)
      /\ end' = START + new /\ backed' = backed \cup ExpandPages(Length, new)
      /\ hdr' = m.hdr /\ ftr' = m.ftr /\ index' = m.index
      /\ live' = live /\ req' = req /\ fault' = fault
    BY DEF alloc_expand, NewLength
<1>2. /\ MemInv /\ EndInv /\ LiveInv /\ NoFault /\ client \in Clients
      /\ req \in [size : Nat, align : BOOLEAN] /\ size \in Nat /\ align \in BOOLEAN
      /\ AllocSafe(size, align)
    BY <1>1 DEF IInv, ReqInv
<1>3. MemOK(Now) /\ Now.index = index
    BY <1>2, NowFields DEF MemInv
<1>4. Len(index) \in Nat /\ \A k \in 1 .. Len(index) : ~Fits(Now, index[k], Gross(size), align)
  <2> DEFINE i == find_smallest_hole(Now, Gross(size), align)
  <2>1. /\ Len(Now.index) \in Nat /\ i \in 1 .. Len(Now.index) + 1
        /\ \A k \in 1 .. i - 1 : ~Fits(Now, Now.index[k], Gross(size), align)
      BY <1>3, FindFacts
  <2>2. i > Len(index)
      BY <1>1 DEF HoleFor
  <2> HIDE DEF i
  <2>3. i = Len(index) + 1 /\ i - 1 = Len(index)
      BY <1>3, <2>1, <2>2
  <2> QED
      BY <1>3, <2>1, <2>3
<1>5. GrowOK(size, align)
  <2>1. ~(find_smallest_hole(Now, Gross(size), align) <= Len(index))
    <3>1. find_smallest_hole(Now, Gross(size), align) \in Int
        BY <1>3, FindFacts
    <3>2. find_smallest_hole(Now, Gross(size), align) > Len(index)
        BY <1>1 DEF HoleFor
    <3> QED
        BY <1>4, <3>1, <3>2
  <2>2. ExpandSafe(size, align)
      BY <1>2, <2>1 DEF AllocSafe
  <2> QED
      BY <1>2, <2>2 DEF GrowOK
<1> HIDE DEF size, align
<1>6. /\ t \in Holes /\ t \in Nat /\ t \in DOMAIN hdr /\ hdr[t].size \in Nat
      /\ t + hdr[t].size = end
      /\ new \in Nat /\ new % PAGE = 0 /\ Length + Gross(size) <= new /\ Length \in Nat
      /\ START + new <= MAX_END
      /\ n \in Nat /\ n >= Gross(size) /\ n < MAX_END /\ t + n = START + new
      /\ SizeOf(Now, t) = hdr[t].size /\ EndAt(Now, t) = end
      /\ CutSafe(t, n, size, align)
    BY <1>5, TopHoleFacts
<1>7. /\ Heaped(m, START + new, Blocks) /\ m.index = index
      /\ m.hdr[t].size = n /\ t \in DOMAIN m.hdr
      /\ \A u \in Tiles : u # t => m.hdr[u] = hdr[u] /\ u \in DOMAIN m.hdr
    BY <1>5, GrownHeaped
<1> HIDE DEF m, new, t, n
<1>8. Blocks' = Blocks
    BY <1>1 DEF Blocks, Header
<1>9. MemInv' /\ Now' = m /\ Holes' = Items(m.index)
    BY <1>1, <1>7, <1>8, NextHeaped
<1>10. EndInv'
  <2>1. /\ end \in Nat /\ START + MIN_SIZE <= end /\ MIN_SIZE \in Nat
        /\ (end - START) % PAGE = 0
        /\ START \div PAGE .. end \div PAGE - 1 \subseteq backed
      BY <1>2, HeapAssumption DEF EndInv
  <2>2. end = START + Length /\ Length % PAGE = 0 /\ Gross(size) \in Nat
      BY <1>2, <2>1 DEF Length, Gross, size
  <2>3. Length <= new
      BY <1>6, <2>2
  <2>4. START + new \in Nat /\ START + MIN_SIZE <= START + new /\ (START + new) - START = new
      BY <1>6, <2>1, <2>2, <2>3
  <2>5. START \div PAGE .. (START + new) \div PAGE - 1 \subseteq backed'
    <3>1. \A x \in START \div PAGE .. (START + new) \div PAGE - 1 :
              \/ x \in START \div PAGE .. (START + Length) \div PAGE - 1
              \/ x \in ExpandPages(Length, new)
        BY <1>6, <2>2, <2>3, ExpandBacked
    <3>2. START \div PAGE .. (START + Length) \div PAGE - 1 \subseteq backed
        BY <2>1, <2>2
    <3> QED
        BY <1>1, <3>1, <3>2
  <2> QED
      BY <1>1, <1>6, <2>4, <2>5 DEF EndInv
<1>11. LiveInv'
  <2>1. ASSUME NEW p \in DOMAIN live PROVE m.hdr[Header(p)] = hdr[Header(p)]
    <3>1. Header(p) \in Blocks
        BY DEF Blocks
    <3>2. Header(p) \in Tiles /\ Header(p) # t
        BY <1>2, <1>6, <3>1 DEF MemInv, Tiles
    <3> QED
        BY <1>7, <3>2
  <2> QED
      BY <1>1, <1>2, <2>1 DEF LiveInv, Header, Gross
<1>12. IsLast(t)
    BY <1>6 DEF IsLast
<1>13. Fits(m, t, Gross(size), align) /\ SizeOf(m, t) = n
  <2>1. SizeOf(m, t) = n
      BY <1>7 DEF SizeOf
  <2>2. CASE align = FALSE
      BY <1>6, <2>1, <2>2 DEF Fits
  <2>3. CASE align = TRUE
    <3>1. /\ (t % PAGE) + 2 * HDR + FTR <= PAGE
          /\ \/ n - Gross(size) - AlignOffset(t) = 0
             \/ n - Gross(size) - AlignOffset(t) >= HDR + FTR
        BY <1>6, <2>3 DEF CutSafe
    <3>2. AlignOffset(t) \in Nat /\ S(n) = n /\ Gross(size) \in Nat
        BY <1>2, <1>6, <3>1, AlignFacts, SFacts DEF Gross, size
    <3>3. S(n) - AlignOffset(t) >= Gross(size)
        BY <1>6, <3>1, <3>2
    <3> QED
        BY <2>1, <2>3, <3>3 DEF Fits
  <2> QED
      BY <1>2, <2>1, <2>2, <2>3 DEF align
<1> DEFINE j == find_smallest_hole(m, Gross(size), align)
<1>14. /\ j \in 1 .. Len(index) + 1
       /\ \A k \in 1 .. j - 1 : ~Fits(m, index[k], Gross(size), align)
       /\ j <= Len(index) => Fits(m, index[j], Gross(size), align)
  <2>1. MemOK(m)
      BY <1>7 DEF Heaped
  <2> QED
      BY <1>7, <2>1, FindFacts
<1> HIDE DEF j
<1>15. DOMAIN index = 1 .. Len(index)
    BY <1>2, NowFields, SeqFacts DEF MemInv, MemOK
<1>16. j <= Len(index)
  <2>1. PICK k \in 1 .. Len(index) : index[k] = t
      BY <1>6, <1>15 DEF Holes
  <2> QED
      BY <1>4, <1>13, <1>14, <2>1
<1>17. index[j] = t
  <2>1. CASE index[j] # t
    <3>1. j \in 1 .. Len(index)
        BY <1>4, <1>14, <1>16
    <3>2. index[j] \in Tiles
        BY <1>15, <3>1 DEF Tiles, Holes
    <3>3. m.hdr[index[j]] = hdr[index[j]] /\ index[j] \in DOMAIN m.hdr
        BY <1>7, <2>1, <3>2
    <3>4. index[j] \in DOMAIN hdr
        BY <1>2, <1>15, <3>1, HoleFacts DEF Holes
    <3>5. SizeOf(m, index[j]) = SizeOf(Now, index[j])
        BY <3>3, <3>4, NowFields DEF SizeOf
    <3>6. Fits(Now, index[j], Gross(size), align)
        BY <1>14, <1>16, <3>5 DEF Fits
    <3> QED
        BY <1>4, <3>1, <3>6
  <2> QED
      BY <2>1
<1>18. ReqInv'
  <2> DEFINE rest == n - Gross(size) - (IF align THEN AlignOffset(t) ELSE 0)
  <2>1. /\ rest >= HDR + FTR
        /\ align => /\ (t % PAGE) + 2 * HDR + FTR <= PAGE
                    /\ rest = 0 \/ rest >= HDR + FTR
      BY <1>6, <1>12 DEF CutSafe
  <2>2. /\ req'.size = size /\ req'.align = align /\ Now' = m /\ index' = index
        /\ req' \in [size : Nat, align : BOOLEAN]
      BY <1>1, <1>2, <1>7, <1>9 DEF size, align
  <2>3. find_smallest_hole(Now', Gross(req'.size), req'.align) = j
      BY <2>2 DEF j
  <2> QED
      BY <1>13, <1>16, <1>17, <2>1, <2>2, <2>3 DEF ReqInv, AllocSafe, CutSafe
<1> QED
    BY <1>1, <1>2, <1>9, <1>10, <1>11, <1>18 DEF IInv, NoFault

-----------------------------------------------------------------------------
(* free                                                                    *)

LEMMA LeftNeighbour ==
    ASSUME NEW m, NEW H, NEW T, NEW e \in Nat, MemOK(m), Sound(m, H, T, e),
           NEW b \in T, b # START
    PROVE  \E l \in T : l < b /\ EndAt(m, l) = b
<1> USE SizesHold DEF Sizes
<1>1. T \subseteq START .. e - 1 /\ Region(m, H, T, START, e, e)
    BY DEF Sound
<1>2. b \in Nat /\ START < b /\ b < e
    BY <1>1
<1>3. START \in T
    BY <1>1, <1>2 DEF Region
<1> DEFINE L == {u \in T : u < b}
<1>4. L \in SUBSET Nat /\ L # {} /\ \A y \in L : y <= b
  <2>1. START \in L
      BY <1>2, <1>3
  <2>2. T \subseteq Nat
      BY <1>1
  <2>3. \A y \in L : y \in Nat /\ y <= b
      BY <1>2, <2>2
  <2> QED
      BY <2>1, <2>3
<1>5. PICK l \in L : \A y \in L : y <= l
    BY <1>2, <1>4, GreatestNumber
<1>6. /\ EndAt(m, l) \in Nat /\ l \in Nat /\ l + HDR + FTR <= EndAt(m, l)
      /\ EndAt(m, l) \in T \/ EndAt(m, l) = e
      /\ EndAt(m, l) <= b
    BY <1>2, <1>5, TileFacts
<1>7. EndAt(m, l) = b
  <2>1. CASE EndAt(m, l) # b
    <3>1. EndAt(m, l) \in L
        BY <1>2, <1>6, <2>1
    <3> QED
        BY <1>5, <1>6, <3>1
  <2> QED
      BY <2>1
<1> QED
    BY <1>5, <1>7

\* Block b becomes part of hole t: b itself or the hole that ends where b starts.
MergedHoles(H, t)    == H \cup {t}
MergedTiles(T, b, t) == (T \ {b}) \cup {t}
Merged(m, w, H, T, e, b, t) ==
    /\ e \in Nat /\ MemOK(m) /\ Sound(m, H, T, e) /\ b \in T \ H
    /\ \/ t = b /\ \A u \in H : EndAt(m, u) # b
       \/ t \in H /\ EndAt(m, t) = b
    /\ EndAt(m, b) \notin H
    /\ MemOK(w) /\ SameOn(m, w, START, t) /\ SameOn(m, w, EndAt(m, b), e)
    /\ TileOK(w, H \cup {t}, t, e) /\ EndAt(w, t) = EndAt(m, b)

LEMMA MergeSound ==
    ASSUME NEW m, NEW w, NEW H, NEW T, NEW e, NEW b, NEW t, Merged(m, w, H, T, e, b, t)
    PROVE  /\ Sound(w, MergedHoles(H, t), MergedTiles(T, b, t), e)
           /\ \A u \in T : u # t /\ u # b => w.hdr[u] = m.hdr[u]
<1> USE SizesHold DEF Sizes
<1> DEFINE K == H \cup {t}
           V == (T \ {b}) \cup {t}
           h == EndAt(m, b)
<1>1. /\ e \in Nat /\ MemOK(m) /\ Sound(m, H, T, e) /\ b \in T /\ b \notin H
      /\ \/ t = b /\ \A u \in H : EndAt(m, u) # b
         \/ t \in H /\ EndAt(m, t) = b
      /\ h \notin H
      /\ MemOK(w) /\ SameOn(m, w, START, t) /\ SameOn(m, w, h, e)
      /\ TileOK(w, K, t, e) /\ EndAt(w, t) = h
    BY DEF Merged
<1>2. T \subseteq START .. e - 1 /\ T \subseteq Nat /\ H \subseteq T
    BY <1>1 DEF Sound
<1>3. /\ b \in Nat /\ START <= b /\ h \in Nat /\ b + HDR + FTR <= h /\ h <= e
      /\ h \in T \/ h = e
      /\ \A u \in T : b < u => h <= u
    BY <1>1, TileFacts
<1>4. t \in T /\ t \in Nat /\ START <= t /\ t <= b
      /\ \A u \in T : t < u => u = b \/ h <= u
  <2>1. CASE t = b
      BY <1>1, <1>3, <2>1
  <2>2. CASE t \in H /\ EndAt(m, t) = b
    <3>1. /\ t \in T /\ t \in Nat /\ START <= t /\ t + HDR + FTR <= b
          /\ \A u \in T : t < u => b <= u
        BY <1>1, <1>2, <2>2, TileFacts
    <3> QED
        BY <1>2, <1>3, <3>1
  <2> QED
      BY <1>1, <2>1, <2>2
<1>5. b < h /\ h # e
  <2>1. \A u \in T \ H : EndAt(m, u) # e
      BY <1>1 DEF Sound
  <2> QED
      BY <1>1, <1>3, <2>1
<1> HIDE DEF h
<1>6. V \subseteq Nat /\ K \subseteq V /\ V \subseteq T /\ t \in V
    BY <1>1, <1>2, <1>4
<1>7. Replaced(m, w, H, K, T, V, t, h, e)
  <2>1. Region(m, H, T, START, t, e) /\ Region(m, H, T, h, e, e)
      BY <1>1, <1>4, Around DEF h
  <2>2. Region(w, K, V, t, h, e)
    <3>1. \A u \in V : t < u => h <= u
        BY <1>1, <1>4
    <3> QED
        BY <1>1, <1>3, <1>4, <1>6, <3>1, OneTile
  <2>3. \A u \in Nat : u < t \/ h <= u => (u \in H <=> u \in K) /\ (u \in T <=> u \in V)
      BY <1>3, <1>4, <1>5
  <2>4. t <= h
      BY <1>3, <1>4, <1>5
  <2> QED
      BY <1>1, <1>2, <1>3, <1>4, <1>6, <2>1, <2>2, <2>3, <2>4 DEF Replaced
<1>8. Region(w, K, V, START, e, e)
    BY <1>7, ReplaceRegion
<1>9. ASSUME NEW u \in T, u # t, u # b
      PROVE  w.hdr[u] = m.hdr[u] /\ EndAt(w, u) = EndAt(m, u)
  <2>1. (u < t \/ h <= u) /\ u < e /\ START <= u
      BY <1>1, <1>2, <1>4, <1>9
  <2> QED
      BY <1>7, <2>1, ReplaceKeeps
<1>10. ASSUME NEW u \in V \ K PROVE EndAt(w, u) # e
  <2>1. u \in T /\ u \notin H /\ u # t /\ u # b
      BY <1>6, <1>10
  <2> QED
      BY <1>1, <1>9, <2>1 DEF Sound
<1>11. ASSUME NEW u \in K PROVE EndAt(w, u) \notin K
  <2>1. CASE u = t
      BY <1>1, <1>3, <1>4, <1>5, <2>1
  <2>2. CASE u # t
    <3>1. u \in H /\ u \in T /\ u # b
        BY <1>1, <1>2, <1>11, <2>2
    <3>2. EndAt(m, u) \notin H /\ EndAt(w, u) = EndAt(m, u)
        BY <1>1, <1>9, <2>2, <3>1 DEF Sound
    <3>3. EndAt(m, u) # t
        BY <1>1, <3>1, <3>2
    <3> QED
        BY <3>2, <3>3
  <2> QED
      BY <2>1, <2>2
<1>12. Sound(w, K, V, e)
    BY <1>2, <1>6, <1>8, <1>10, <1>11 DEF Sound
<1> QED
    BY <1>9, <1>12 DEF K, V, MergedHoles, MergedTiles

\* Block b becomes part of hole t, and so does the hole r that starts where b ends.
Joined(m, w, H, T, e, b, t, r) ==
    /\ e \in Nat /\ MemOK(m) /\ Sound(m, H, T, e) /\ b \in T \ H
    /\ \/ t = b /\ \A u \in H : EndAt(m, u) # b
       \/ t \in H /\ EndAt(m, t) = b
    /\ r \in H /\ EndAt(m, b) = r
    /\ MemOK(w) /\ SameOn(m, w, START, t) /\ SameOn(m, w, EndAt(m, r), e)
    /\ TileOK(w, (H \ {r}) \cup {t}, t, e) /\ EndAt(w, t) = EndAt(m, r)
JoinedHoles(H, t, r)    == (H \ {r}) \cup {t}
JoinedTiles(T, b, t, r) == (T \ {b, r}) \cup {t}

LEMMA JoinSound ==
    ASSUME NEW m, NEW w, NEW H, NEW T, NEW e, NEW b, NEW t, NEW r, Joined(m, w, H, T, e, b, t, r)
    PROVE  /\ Sound(w, JoinedHoles(H, t, r), JoinedTiles(T, b, t, r), e)
           /\ \A u \in T : u # t /\ u # b /\ u # r => w.hdr[u] = m.hdr[u]
<1> USE SizesHold DEF Sizes
<1> DEFINE K == (H \ {r}) \cup {t}
           V == (T \ {b, r}) \cup {t}
           z == EndAt(m, r)
<1>1. /\ e \in Nat /\ MemOK(m) /\ Sound(m, H, T, e) /\ b \in T /\ b \notin H
      /\ \/ t = b /\ \A u \in H : EndAt(m, u) # b
         \/ t \in H /\ EndAt(m, t) = b
      /\ r \in H /\ EndAt(m, b) = r
      /\ MemOK(w) /\ SameOn(m, w, START, t) /\ SameOn(m, w, z, e)
      /\ TileOK(w, K, t, e) /\ EndAt(w, t) = z
    BY DEF Joined
<1>2. T \subseteq START .. e - 1 /\ T \subseteq Nat /\ H \subseteq T
    BY <1>1 DEF Sound
<1>3. /\ b \in Nat /\ START <= b /\ r \in Nat /\ b + HDR + FTR <= r
      /\ \A u \in T : b < u => r <= u
    BY <1>1, TileFacts
<1>4. /\ r \in T /\ z \in Nat /\ r + HDR + FTR <= z /\ z <= e
      /\ \A u \in T : r < u => z <= u
    BY <1>1, <1>2, TileFacts
<1>5. z \notin H
    BY <1>1 DEF Sound
<1>6. t \in T /\ t \in Nat /\ START <= t /\ t <= b
      /\ \A u \in T : t < u => u = b \/ r <= u
  <2>1. CASE t = b
      BY <1>1, <1>3, <2>1
  <2>2. CASE t \in H /\ EndAt(m, t) = b
    <3>1. /\ t \in T /\ t \in Nat /\ START <= t /\ t + HDR + FTR <= b
          /\ \A u \in T : t < u => b <= u
        BY <1>1, <1>2, <2>2, TileFacts
    <3> QED
        BY <1>2, <1>3, <3>1
  <2> QED
      BY <1>1, <2>1, <2>2
<1> HIDE DEF z
<1>7. \A u \in T : t < u => u = b \/ u = r \/ z <= u
    BY <1>2, <1>4, <1>6
<1>8. V \subseteq Nat /\ K \subseteq V /\ V \subseteq T /\ t \in V /\ t < r
    BY <1>1, <1>2, <1>3, <1>6
<1>9. Replaced(m, w, H, K, T, V, t, z, e)
  <2>1. Region(m, H, T, START, t, e) /\ Region(m, H, T, z, e, e)
      BY <1>1, <1>4, <1>6, Around DEF z
  <2>2. Region(w, K, V, t, z, e)
    <3>1. \A u \in V : t < u => z <= u
        BY <1>7, <1>8
    <3> QED
        BY <1>1, <1>4, <1>6, <1>8, <3>1, OneTile
  <2>3. \A u \in Nat : u < t \/ z <= u => (u \in H <=> u \in K) /\ (u \in T <=> u \in V)
    <3>1. ASSUME NEW u \in Nat, u < t \/ z <= u PROVE u # t /\ u # b /\ u # r
        BY <1>3, <1>4, <1>6, <1>8, <3>1
    <3> QED
        BY <3>1
  <2>4. t <= z
      BY <1>3, <1>4, <1>6
  <2> QED
      BY <1>1, <1>2, <1>4, <1>6, <1>8, <2>1, <2>2, <2>3, <2>4 DEF Replaced
<1>10. Region(w, K, V, START, e, e)
    BY <1>9, ReplaceRegion
<1>11. ASSUME NEW u \in T, u # t, u # b, u # r
       PROVE  w.hdr[u] = m.hdr[u] /\ EndAt(w, u) = EndAt(m, u)
  <2>1. (u < t \/ z <= u) /\ u < e /\ START <= u
      BY <1>1, <1>2, <1>6, <1>7, <1>11
  <2> QED
      BY <1>9, <2>1, ReplaceKeeps
<1>12. ASSUME NEW u \in V \ K PROVE EndAt(w, u) # e
  <2>1. u \in T /\ u \notin H /\ u # t /\ u # b /\ u # r
      BY <1>1, <1>8, <1>12
  <2> QED
      BY <1>1, <1>11, <2>1 DEF Sound
<1>13. ASSUME NEW u \in K PROVE EndAt(w, u) \notin K
  <2>1. CASE u = t
      BY <1>1, <1>3, <1>4, <1>5, <1>6, <2>1
  <2>2. CASE u # t
    <3>1. u \in H /\ u \in T /\ u # b /\ u # r
        BY <1>1, <1>2, <1>13, <2>2
    <3>2. EndAt(m, u) \notin H /\ EndAt(w, u) = EndAt(m, u)
        BY <1>1, <1>11, <2>2, <3>1 DEF Sound
    <3>3. EndAt(m, u) # t
        BY <1>1, <3>1, <3>2
    <3> QED
        BY <3>2, <3>3
  <2> QED
      BY <2>1, <2>2
<1>14. Sound(w, K, V, e)
    BY <1>2, <1>8, <1>10, <1>12, <1>13 DEF Sound
<1> QED
    BY <1>11, <1>14 DEF K, V, JoinedHoles, JoinedTiles

\* The two writes of free that change one field of a header or a footer.
MarkHole(m, a) == [m EXCEPT !.hdr[a].hole = TRUE]
Repoint(m, x, h) == [m EXCEPT !.ftr = IF x \in DOMAIN @ THEN [@ EXCEPT ![x] = h] ELSE @]

LEMMA MarkHoleFacts ==
    ASSUME NEW m, MemOK(m), NEW a \in DOMAIN m.hdr
    PROVE  LET w == MarkHole(m, a)
           IN  /\ MemOK(w) /\ w.ftr = m.ftr /\ w.index = m.index
               /\ DOMAIN w.hdr = DOMAIN m.hdr
               /\ w.hdr[a].size = m.hdr[a].size /\ w.hdr[a].hole = TRUE
               /\ \A x \in DOMAIN m.hdr : x # a => w.hdr[x] = m.hdr[x]
<1> DEFINE h == [m.hdr EXCEPT ![a] = [@ EXCEPT !.hole = TRUE]]
           w == MarkHole(m, a)
<1>1. w = Mem(h, m.ftr, m.index)
    BY MemShape DEF MarkHole
<1>2. w.hdr = h /\ w.ftr = m.ftr /\ w.index = m.index
    BY <1>1, MemFields
<1>3. m.hdr[a] \in [hole : BOOLEAN, size : Nat] /\ m.hdr = [x \in DOMAIN m.hdr |-> m.hdr[x]]
    BY DEF MemOK
<1>4. DOMAIN h = DOMAIN m.hdr /\ h = [x \in DOMAIN h |-> h[x]]
    BY <1>3
<1>5. \A x \in DOMAIN m.hdr : x # a => h[x] = m.hdr[x]
    BY <1>3
<1>6. h[a] = [m.hdr[a] EXCEPT !.hole = TRUE]
    BY <1>3
<1>7. h[a] \in [hole : BOOLEAN, size : Nat] /\ h[a].size = m.hdr[a].size /\ h[a].hole = TRUE
    BY <1>3, <1>6
<1> HIDE DEF h, w
<1>8. MemOK(w)
  <2>1. w = Mem(w.hdr, w.ftr, w.index)
      BY <1>1, <1>2
  <2>2. /\ DOMAIN h \subseteq Nat
        /\ \A x \in DOMAIN h : h[x] \in [hole : BOOLEAN, size : Nat]
      BY <1>4, <1>5, <1>7 DEF MemOK
  <2> QED
      BY <1>2, <1>4, <2>1, <2>2 DEF MemOK
<1> QED
    BY <1>2, <1>4, <1>5, <1>7, <1>8 DEF w

LEMMA RepointFacts ==
    ASSUME NEW m, MemOK(m), NEW x \in DOMAIN m.ftr, NEW h \in Nat
    PROVE  LET w == Repoint(m, x, h)
           IN  /\ MemOK(w) /\ w.hdr = m.hdr /\ w.index = m.index
               /\ DOMAIN w.ftr = DOMAIN m.ftr /\ w.ftr[x] = h
               /\ \A y \in DOMAIN m.ftr : y # x => w.ftr[y] = m.ftr[y]
<1> DEFINE f == [m.ftr EXCEPT ![x] = h]
           w == Repoint(m, x, h)
<1>1. w = Mem(m.hdr, f, m.index)
    BY MemShape DEF Repoint
<1>2. w.hdr = m.hdr /\ w.ftr = f /\ w.index = m.index
    BY <1>1, MemFields
<1>3. m.ftr = [y \in DOMAIN m.ftr |-> m.ftr[y]]
    BY DEF MemOK
<1>4. /\ DOMAIN f = DOMAIN m.ftr /\ f = [y \in DOMAIN f |-> f[y]] /\ f[x] = h
      /\ \A y \in DOMAIN m.ftr : y # x => f[y] = m.ftr[y]
    BY <1>3
<1> HIDE DEF f, w
<1>5. MemOK(w)
  <2>1. w = Mem(w.hdr, w.ftr, w.index)
      BY <1>1, <1>2
  <2>2. DOMAIN f \subseteq Nat /\ \A y \in DOMAIN f : y >= START /\ f[y] \in Nat
      BY <1>4 DEF MemOK
  <2> QED
      BY <1>2, <1>4, <2>1, <2>2 DEF MemOK
<1> QED
    BY <1>2, <1>4, <1>5 DEF w

FreeOK(p) == MemInv /\ EndInv /\ LiveInv /\ p \in DOMAIN live /\ FreeSafe(p)

\* A block in use and what lies to its right.
LEMMA BlockFacts ==
    ASSUME NEW p, MemInv, EndInv, LiveInv, p \in DOMAIN live
    PROVE  LET b == Header(p)
               h == EndAt(Now, b)
           IN  /\ p \in Nat /\ b \in Blocks /\ b \in Tiles \ Holes
               /\ b \in Nat /\ START <= b /\ b \in DOMAIN hdr /\ hdr[b].size \in Nat
               /\ h = b + hdr[b].size /\ b + HDR + FTR <= h
               /\ h \in Nat /\ h < end /\ h \in Tiles
               /\ Footer(p) = h - FTR /\ RightOf(p) = h
               /\ h - FTR \in DOMAIN ftr /\ ftr[h - FTR] = b
               /\ MergesRight(p) <=> h \in Holes
<1> USE SizesHold DEF Sizes
<1> DEFINE b == Header(p)
           h == EndAt(Now, b)
<1>1. /\ MemOK(Now) /\ Sound(Now, Holes, Tiles, end) /\ Holes \cap Blocks = {}
      /\ Tiles = Holes \cup Blocks /\ end \in Nat
    BY DEF MemInv, EndInv, Tiles
<1>2. p \in Nat /\ b \in Blocks /\ b \in Tiles /\ b \notin Holes
    BY <1>1 DEF LiveInv, Blocks
<1>3. /\ TileOK(Now, Holes, b, end)
      /\ b \in Nat /\ START <= b /\ h \in Nat
      /\ b + HDR + FTR <= h /\ h <= end
      /\ h \in Tiles \/ h = end
    BY <1>1, <1>2, TileFacts
<1>4. h # end
    BY <1>1, <1>2 DEF Sound
<1>5. b \in DOMAIN hdr /\ hdr[b].size \in Nat /\ h = b + hdr[b].size
  <2>1. b \in DOMAIN Now.hdr
      BY <1>3 DEF TileOK
  <2>2. Now.hdr[b].size \in Nat
      BY <1>1, <2>1, SizeType
  <2> QED
      BY <2>1, <2>2, NowFields DEF EndAt
<1>6. h - FTR \in DOMAIN ftr /\ ftr[h - FTR] = b
    BY <1>2, <1>3, <1>4, NowFields DEF TileOK, Inside
<1> HIDE DEF b, h
<1>7. Footer(p) = h - FTR /\ RightOf(p) = h
  <2>1. Footer(p) = b + hdr[b].size - FTR
      BY DEF Footer, b
  <2> QED
      BY <1>3, <1>5, <2>1 DEF RightOf
<1>8. MergesRight(p) <=> h \in Holes
  <2>1. TileOK(Now, Holes, h, end)
      BY <1>1, <1>3, <1>4, TileFacts
  <2>2. h \in DOMAIN hdr /\ hdr[h].hole = (h \in Holes)
      BY <2>1, NowFields DEF TileOK
  <2> QED
      BY <1>7, <2>2 DEF MergesRight
<1> QED
    BY <1>1, <1>2, <1>3, <1>4, <1>5, <1>6, <1>7, <1>8 DEF b, h

\* What lies to its left: within the discipline, the footer there points back to
\* the tile that ends here.
LEMMA LeftFacts ==
    ASSUME NEW p, FreeOK(p)
    PROVE  LET b == Header(p)
               f == b - FTR
           IN  /\ f \in DOMAIN ftr => ftr[f] \in DOMAIN hdr
               /\ MergesLeft(p) => /\ ftr[f] \in Holes /\ EndAt(Now, ftr[f]) = b
                                   /\ ftr[f] < b
               /\ ~MergesLeft(p) => \A u \in Holes : EndAt(Now, u) # b
<1> USE SizesHold DEF Sizes
<1> DEFINE b == Header(p)
           f == b - FTR
<1>0. MemInv /\ EndInv /\ LiveInv /\ p \in DOMAIN live /\ FreeSafe(p)
    BY DEF FreeOK
<1>1. /\ MemOK(Now) /\ Sound(Now, Holes, Tiles, end) /\ end \in Nat
      /\ Tiles = Holes \cup Blocks
    BY <1>0 DEF MemInv, EndInv, Tiles
<1>2. b \in Tiles /\ b \in Nat /\ START <= b /\ b < end
  <2> DEFINE h == EndAt(Now, b)
  <2>1. /\ b \in Tiles /\ b \in Nat /\ START <= b
        /\ b + HDR + FTR <= h /\ h \in Nat /\ h < end
      BY <1>0, BlockFacts
  <2> HIDE DEF b, h
  <2> QED
      BY <1>1, <2>1
<1> HIDE DEF b
<1>3. CASE b = START
  <2>1. f \notin DOMAIN ftr
      BY <1>1, <1>3, NowFields DEF MemOK
  <2>2. \A u \in Holes : EndAt(Now, u) # b
    <3>1. ASSUME NEW u \in Holes PROVE EndAt(Now, u) # b
      <4>1. u \in Nat /\ START <= u /\ EndAt(Now, u) \in Nat /\ u + HDR + FTR <= EndAt(Now, u)
          BY <1>1, TileFacts
      <4> QED
          BY <1>3, <4>1
    <3> QED
        BY <3>1
  <2>3. ~MergesLeft(p)
      BY <2>1 DEF MergesLeft, b
  <2> QED
      BY <2>1, <2>2, <2>3 DEF b
<1>4. CASE b # START
  <2>1. PICK l \in Tiles : l < b /\ EndAt(Now, l) = b
      BY <1>1, <1>2, <1>4, LeftNeighbour
  <2>2. TileOK(Now, Holes, l, end) /\ l \in Nat
      BY <1>1, <2>1, TileFacts
  <2>3. /\ l \in DOMAIN hdr /\ hdr[l].hole = (l \in Holes)
        /\ f \in DOMAIN ftr /\ ftr[f] = l
    <3>1. /\ l \in DOMAIN hdr /\ hdr[l].hole = (l \in Holes)
          /\ f \in DOMAIN ftr /\ Inside(Holes, l, ftr[f], b)
        BY <1>2, <2>1, <2>2, NowFields DEF TileOK
    <3>2. ftr[f] \in Tiles
        BY <1>0, <3>1 DEF FreeSafe, b
    <3>3. ~(l < ftr[f] /\ ftr[f] < b)
      <4> DEFINE y == ftr[f]
      <4>1. y \in Nat /\ b \in Nat /\ (l < y => b <= y)
          BY <1>1, <1>2, <2>1, <3>2, TileFacts
      <4> HIDE DEF y
      <4> QED
          BY <4>1 DEF y
    <3> QED
        BY <3>1, <3>3 DEF Inside
  <2>4. MergesLeft(p) <=> l \in Holes
      BY <2>3 DEF MergesLeft, b
  <2>5. ASSUME NEW u \in Holes, EndAt(Now, u) = b PROVE u = l
    <3>1. u \in Tiles /\ u \in Nat
        BY <1>1, TileFacts
    <3>2. u < b /\ EndAt(Now, u) \in Nat
      <4>1. u + HDR + FTR <= EndAt(Now, u)
          BY <1>1, <3>1, TileFacts
      <4> QED
          BY <1>2, <2>5, <3>1, <4>1
    <3>3. CASE u < l
      <4>1. EndAt(Now, u) <= l
          BY <1>1, <2>1, <3>1, <3>3, TileFacts
      <4> QED
          BY <1>2, <2>1, <2>2, <2>5, <4>1
    <3>4. CASE l < u
      <4>1. EndAt(Now, l) <= u
          BY <1>1, <2>1, <3>1, <3>4, TileFacts
      <4> QED
          BY <1>2, <2>1, <2>2, <3>1, <3>2, <4>1
    <3> QED
        BY <2>2, <3>1, <3>3, <3>4
  <2> QED
      BY <2>1, <2>3, <2>4, <2>5 DEF b
<1> QED
    BY <1>3, <1>4 DEF b

\* free never reads anything but its own data.
LEMMA NoFreeFault ==
    ASSUME NEW p, FreeOK(p)
    PROVE  FreeFault(p) = "none"
<1> USE SizesHold DEF Sizes
<1> DEFINE b == Header(p)
           h == EndAt(Now, b)
<1>0. MemInv /\ EndInv /\ LiveInv /\ p \in DOMAIN live
    BY DEF FreeOK
<1>1. b - FTR \in DOMAIN ftr => ftr[b - FTR] \in DOMAIN hdr
    BY LeftFacts
<1>2. /\ b \in Nat /\ START <= b /\ b + HDR + FTR <= h /\ h \in Nat /\ h < end
      /\ RightOf(p) = h
      /\ MergesRight(p) <=> h \in Holes
    BY <1>0, BlockFacts
<1> HIDE DEF b, h
<1>3. h \div PAGE \in backed
  <2>1. /\ end \in Nat /\ START + MIN_SIZE <= end /\ MIN_SIZE \in Nat
        /\ (end - START) % PAGE = 0
        /\ START \div PAGE .. end \div PAGE - 1 \subseteq backed
      BY <1>0, HeapAssumption DEF EndInv
  <2> DEFINE len == end - START
  <2>2. len \in Nat /\ START + len = end /\ len % PAGE = 0
      BY <2>1
  <2> HIDE DEF len
  <2>3. START <= h /\ h < START + len
      BY <1>2, <2>2
  <2>4. h \div PAGE \in START \div PAGE .. (START + len) \div PAGE - 1
      BY <1>2, <2>2, <2>3, PageInside
  <2> QED
      BY <2>1, <2>2, <2>4
<1>4. MergesRight(p) => index # <<>>
    BY <1>2 DEF Holes
<1> QED
    BY <1>1, <1>2, <1>3, <1>4 DEF FreeFault, b

\* The hole that free makes, before it looks to the right: t starts it, w is the
\* memory then.
Freeing(p, w, t) ==
    LET b == Header(p)
        h == EndAt(Now, b)
    IN  /\ t \in Nat /\ START <= t /\ t <= b /\ t \in Tiles
        /\ \/ t = b /\ ~MergesLeft(p) /\ \A u \in Holes : EndAt(Now, u) # b
           \/ t \in Holes /\ MergesLeft(p) /\ EndAt(Now, t) = b
        /\ MemOK(w) /\ w.index = index
        /\ t \in DOMAIN w.hdr /\ w.hdr[t].hole = TRUE /\ w.hdr[t].size = h - t
        /\ SameOn(Now, w, START, t) /\ SameOn(Now, w, h, end)
        /\ h - FTR \in DOMAIN w.ftr /\ w.ftr[h - FTR] = t

LEMMA LeftMerge ==
    ASSUME NEW p, FreeOK(p)
    PROVE  LET l == Left(MarkHole(Now, Header(p)), p)
           IN  Freeing(p, l.mem, l.header) /\ l.header = MergedHeader(p)
<1> USE SizesHold DEF Sizes
<1> DEFINE b == Header(p)
           h == EndAt(Now, b)
           m == MarkHole(Now, b)
           l == Left(m, p)
<1>0. MemInv /\ EndInv /\ LiveInv /\ p \in DOMAIN live
    BY DEF FreeOK
<1>1. MemOK(Now) /\ Sound(Now, Holes, Tiles, end) /\ end \in Nat /\ end <= MAX_END
    BY <1>0 DEF MemInv, EndInv
<1>2. /\ b \in Nat /\ START <= b /\ b \in DOMAIN hdr /\ hdr[b].size \in Nat
      /\ b \in Tiles \ Holes
      /\ h = b + hdr[b].size /\ b + HDR + FTR <= h /\ h \in Nat /\ h < end
      /\ Footer(p) = h - FTR
      /\ h - FTR \in DOMAIN ftr /\ ftr[h - FTR] = b
    BY <1>0, BlockFacts
<1>3. b \in DOMAIN Now.hdr /\ Now.hdr[b].size = hdr[b].size
    BY <1>2, NowFields
<1> HIDE DEF h
<1>4. /\ MemOK(m) /\ m.ftr = Now.ftr /\ m.index = Now.index
      /\ DOMAIN m.hdr = DOMAIN Now.hdr
      /\ m.hdr[b].size = Now.hdr[b].size /\ m.hdr[b].hole = TRUE
      /\ \A x \in DOMAIN Now.hdr : x # b => m.hdr[x] = Now.hdr[x]
    BY <1>1, <1>3, MarkHoleFacts
<1> HIDE DEF m
<1>5. CASE ~MergesLeft(p)
  <2>1. l = [mem |-> m, header |-> b]
      BY <1>5 DEF Left
  <2>2. l.mem = m /\ l.header = b
      BY <2>1
  <2>3. \A u \in Holes : EndAt(Now, u) # b
      BY <1>5, LeftFacts
  <2> HIDE DEF b, l
  <2>4. m.hdr[b].size = h - b
      BY <1>2, <1>3, <1>4
  <2>5. SameOn(Now, m, START, b) /\ SameOn(Now, m, h, end)
      BY <1>2, <1>4 DEF SameOn
  <2>6. /\ b \in DOMAIN m.hdr /\ m.index = index
        /\ h - FTR \in DOMAIN m.ftr /\ m.ftr[h - FTR] = b
      BY <1>2, <1>3, <1>4, NowFields
  <2>7. Freeing(p, m, b)
      BY <1>2, <1>4, <1>5, <2>3, <2>4, <2>5, <2>6 DEF Freeing, b, h
  <2> QED
      BY <1>5, <2>2, <2>7 DEF MergedHeader, l, b, m
<1>6. CASE MergesLeft(p)
  <2> DEFINE t == ftr[b - FTR]
  <2>1. t \in Holes /\ EndAt(Now, t) = b /\ t < b
      BY <1>6, LeftFacts
  <2>2. /\ t \in Nat /\ START <= t /\ t \in DOMAIN hdr
        /\ SizeOf(Now, t) = hdr[t].size /\ hdr[t].size \in Nat
        /\ EndAt(Now, t) = t + hdr[t].size
        /\ t \in Tiles
      BY <1>0, <2>1, HoleFacts DEF Tiles
  <2>3. m.ftr[b - FTR] = t
      BY <1>4, NowFields
  <2> HIDE DEF t
  <2>4. SizeOf(m, t) = hdr[t].size /\ SizeOf(m, b) = hdr[b].size
    <3>1. t # b /\ t \in DOMAIN Now.hdr /\ Now.hdr[t] = hdr[t]
        BY <1>2, <2>1, <2>2, NowFields
    <3> QED
        BY <1>3, <1>4, <3>1 DEF SizeOf
  <2>5. U(SizeOf(m, t) + SizeOf(m, b)) = h - t /\ h - t \in Nat
    <3>1. MAX_END \in Nat
        BY HeapAssumption
    <3>2. hdr[t].size + hdr[b].size = h - t /\ h - t \in Nat /\ h - t <= MAX_END
        BY <1>1, <1>2, <2>1, <2>2, <3>1
    <3> QED
        BY <2>4, <3>2, UFacts
  <2> DEFINE s == SetSize(m, t, h - t)
             w == Repoint(s, h - FTR, t)
  <2>6. l = [mem |-> w, header |-> t]
    <3>1. l = [mem |-> [SetSize(m, t, U(SizeOf(m, t) + SizeOf(m, b)))
                          EXCEPT !.ftr = IF Footer(p) \in DOMAIN @
                                         THEN [@ EXCEPT ![Footer(p)] = t] ELSE @],
               header |-> t]
        BY <1>6, <2>3 DEF Left
    <3> QED
        BY ONLY <1>2, <2>5, <3>1 DEF Repoint, w, s
  <2>7. l.mem = w /\ l.header = t
      BY <2>6
  <2> HIDE DEF l, b
  <2>8. t \in DOMAIN m.hdr /\ m.hdr[t].hole = TRUE
    <3>1. TileOK(Now, Holes, t, end)
        BY <1>1, <2>2, TileFacts
    <3>2. t \in DOMAIN Now.hdr /\ Now.hdr[t].hole = TRUE
        BY <2>1, <3>1 DEF TileOK
    <3> QED
        BY <1>2, <1>4, <2>1, <3>2
  <2>9. /\ MemOK(s) /\ s.ftr = m.ftr /\ s.index = m.index
        /\ DOMAIN s.hdr = DOMAIN m.hdr
        /\ s.hdr[t].size = h - t /\ s.hdr[t].hole = m.hdr[t].hole
        /\ \A x \in DOMAIN m.hdr : x # t => s.hdr[x] = m.hdr[x]
    <3>1. MemOK(m) /\ t \in DOMAIN m.hdr /\ h - t \in Nat
        BY <1>4, <2>5, <2>8
    <3> DEFINE n == h - t
    <3>2. n \in Nat
        BY <3>1
    <3> HIDE DEF n
    <3>3. /\ MemOK(SetSize(m, t, n)) /\ SetSize(m, t, n).ftr = m.ftr
          /\ SetSize(m, t, n).index = m.index
          /\ DOMAIN SetSize(m, t, n).hdr = DOMAIN m.hdr
          /\ SetSize(m, t, n).hdr[t].size = n
          /\ SetSize(m, t, n).hdr[t].hole = m.hdr[t].hole
          /\ \A x \in DOMAIN m.hdr : x # t => SetSize(m, t, n).hdr[x] = m.hdr[x]
        BY ONLY <3>1, <3>2, SetSizeFacts
    <3> QED
        BY <3>3 DEF n
  <2> HIDE DEF s
  <2>10. h - FTR \in DOMAIN s.ftr
      BY <1>2, <1>4, <2>9, NowFields
  <2>11. /\ MemOK(w) /\ w.hdr = s.hdr /\ w.index = s.index
         /\ DOMAIN w.ftr = DOMAIN s.ftr /\ w.ftr[h - FTR] = t
         /\ \A y \in DOMAIN s.ftr : y # h - FTR => w.ftr[y] = s.ftr[y]
      BY <2>2, <2>9, <2>10, RepointFacts
  <2> HIDE DEF w
  <2>12. \A x \in DOMAIN Now.hdr : x # t /\ x # b => x \in DOMAIN w.hdr /\ w.hdr[x] = Now.hdr[x]
      BY <1>4, <2>9, <2>11
  <2>13. /\ DOMAIN w.ftr = DOMAIN Now.ftr
         /\ \A y \in DOMAIN Now.ftr : y # h - FTR => w.ftr[y] = Now.ftr[y]
      BY <1>4, <2>9, <2>11
  <2>14. SameOn(Now, w, START, t) /\ SameOn(Now, w, h, end)
      BY <1>2, <2>1, <2>2, <2>12, <2>13 DEF SameOn
  <2>15. /\ t \in DOMAIN w.hdr /\ w.hdr[t].hole = TRUE /\ w.hdr[t].size = h - t
         /\ w.index = index
      BY <1>4, <2>8, <2>9, <2>11, NowFields
  <2>16. t <= b /\ h - FTR \in DOMAIN w.ftr
      BY <1>2, <2>1, <2>2, <2>10, <2>11
  <2>17. Freeing(p, w, t)
      BY <1>6, <2>1, <2>2, <2>11, <2>14, <2>15, <2>16 DEF Freeing, b, h
  <2> QED
      BY <1>6, <2>7, <2>17 DEF MergedHeader, l, b, m, t
<1> QED
    BY <1>5, <1>6

\* The allocator's data after free, with the blocks that are left.
Given(p, m, e) ==
    /\ Heaped(m, e, Blocks \ {Header(p)})
    /\ \A u \in Blocks \ {Header(p)} : m.hdr[u] = hdr[u]

LEMMA FreedPlain ==
    ASSUME NEW p, FreeOK(p), ~MergesRight(p)
    PROVE  Given(p, Freed(p).mem, end) /\ Freed(p).end = end
<1> USE SizesHold DEF Sizes
<1> DEFINE b == Header(p)
           h == EndAt(Now, b)
           l == Left(MarkHole(Now, b), p)
           w == l.mem
           t == l.header
           m2 == IF MergesLeft(p) THEN w ELSE insert(w, t)
<1>0. MemInv /\ EndInv /\ LiveInv /\ p \in DOMAIN live
    BY DEF FreeOK
<1>1. /\ MemOK(Now) /\ Sound(Now, Holes, Tiles, end) /\ end \in Nat /\ Injective(index)
      /\ Tiles = Holes \cup Blocks /\ Holes \cap Blocks = {} /\ START + Length = end
    BY <1>0 DEF MemInv, EndInv, Tiles, Length
<1>2. /\ b \in Nat /\ b \in Blocks /\ b \in Tiles \ Holes
      /\ h \in Nat /\ h < end /\ b + HDR + FTR <= h
      /\ Footer(p) = h - FTR /\ h \notin Holes
    BY <1>0, BlockFacts
<1>3. Freeing(p, w, t)
    BY LeftMerge
<1>4. Freed(p) = [mem |-> m2, end |-> end]
  <2>1. Right(w, p, t) = [mem |-> w, footer |-> h - FTR]
      BY <1>2 DEF Right
  <2>2. h - FTR + FTR # end
      BY <1>1, <1>2
  <2> HIDE DEF h
  <2>3. Right(w, p, t).mem = w /\ Right(w, p, t).footer + FTR # end
      BY <2>1, <2>2
  <2> QED
      BY <1>1, <2>3 DEF Freed, MarkHole
<1> HIDE DEF b, h, l, w, t
<1>5. /\ t \in Nat /\ START <= t /\ t <= b /\ t \in Tiles
      /\ \/ t = b /\ ~MergesLeft(p) /\ \A u \in Holes : EndAt(Now, u) # b
         \/ t \in Holes /\ MergesLeft(p) /\ EndAt(Now, t) = b
      /\ MemOK(w) /\ w.index = index
      /\ t \in DOMAIN w.hdr /\ w.hdr[t].hole = TRUE /\ w.hdr[t].size = h - t
      /\ SameOn(Now, w, START, t) /\ SameOn(Now, w, h, end)
      /\ h - FTR \in DOMAIN w.ftr /\ w.ftr[h - FTR] = t
    BY <1>3 DEF Freeing, b, h
<1>6. EndAt(w, t) = h
    BY <1>2, <1>5 DEF EndAt
<1>7. TileOK(w, Holes \cup {t}, t, end)
  <2>1. w.hdr[t].size >= HDR + FTR
      BY <1>2, <1>5
  <2> QED
      BY <1>5, <1>6, <2>1 DEF TileOK, Inside
<1>8. Merged(Now, w, Holes, Tiles, end, b, t)
    BY <1>1, <1>2, <1>5, <1>6, <1>7 DEF Merged, h
<1>9. /\ Sound(w, Holes \cup {t}, (Tiles \ {b}) \cup {t}, end)
      /\ \A u \in Tiles : u # t /\ u # b => w.hdr[u] = Now.hdr[u]
  <2>1. /\ Sound(w, MergedHoles(Holes, t), MergedTiles(Tiles, b, t), end)
        /\ \A u \in Tiles : u # t /\ u # b => w.hdr[u] = Now.hdr[u]
      BY <1>8, MergeSound
  <2> QED
      BY <2>1 DEF MergedHoles, MergedTiles
<1>10. Items(w.index) = Holes /\ Injective(w.index)
    BY <1>0, <1>1, <1>5, NowHeaped
<1>11. /\ MemOK(m2) /\ m2.hdr = w.hdr /\ m2.ftr = w.ftr /\ Injective(m2.index)
       /\ Items(m2.index) = Holes \cup {t}
  <2>1. CASE MergesLeft(p)
      BY <1>5, <1>10, <2>1
  <2>2. CASE ~MergesLeft(p)
    <3>1. m2 = insert(w, t) /\ t \notin Items(w.index)
        BY <1>2, <1>5, <1>10, <2>2
    <3>2. /\ MemOK(insert(w, t)) /\ insert(w, t).hdr = w.hdr /\ insert(w, t).ftr = w.ftr
          /\ Items(insert(w, t).index) = Items(w.index) \cup {t}
          /\ Injective(w.index) /\ t \notin Items(w.index) => Injective(insert(w, t).index)
        BY <1>5, InsertMem
    <3> QED
        BY <1>10, <3>1, <3>2
  <2> QED
      BY <2>1, <2>2
<1> HIDE DEF m2
<1>12. Sound(m2, Holes \cup {t}, (Tiles \ {b}) \cup {t}, end)
    BY <1>9, <1>11 DEF Sound, Region, TileOK, EndAt
<1>13. /\ (Tiles \ {b}) \cup {t} = (Holes \cup {t}) \cup (Blocks \ {b})
       /\ (Holes \cup {t}) \cap (Blocks \ {b}) = {}
    BY <1>1, <1>2, <1>5
<1>14. Heaped(m2, end, Blocks \ {b})
    BY <1>11, <1>12, <1>13 DEF Heaped
<1>15. \A u \in Blocks \ {b} : m2.hdr[u] = hdr[u]
  <2>1. \A u \in Blocks \ {b} : u \in Tiles /\ u # t /\ u # b
      BY <1>1, <1>5
  <2> QED
      BY <1>9, <1>11, <2>1, NowFields
<1>16. Freed(p).mem = m2 /\ Freed(p).end = end
    BY <1>4
<1> QED
    BY <1>14, <1>15, <1>16 DEF Given, b

\* A right merge into a hole that is not the last one: the footer at its end keeps
\* pointing where it did, which is now inside the merged hole.
LEMMA FreedMiddle ==
    ASSUME NEW p, FreeOK(p), MergesRight(p), ~IsLast(RightOf(p))
    PROVE  Given(p, Freed(p).mem, end) /\ Freed(p).end = end
<1> USE SizesHold DEF Sizes
<1> DEFINE b == Header(p)
           h == EndAt(Now, b)
           z == EndAt(Now, h)
           l == Left(MarkHole(Now, b), p)
           w == l.mem
           t == l.header
           i == PositionOf(h, index)
           s == SetSize(w, t, z - t)
           k == remove(s, i)
           m2 == IF MergesLeft(p) THEN k ELSE insert(k, t)
<1>0. MemInv /\ EndInv /\ LiveInv /\ p \in DOMAIN live
    BY DEF FreeOK
<1>1. /\ MemOK(Now) /\ Sound(Now, Holes, Tiles, end) /\ end \in Nat /\ Injective(index)
      /\ Tiles = Holes \cup Blocks /\ Holes \cap Blocks = {} /\ START + Length = end
      /\ end <= MAX_END /\ MAX_END \in Nat
    BY <1>0, HeapAssumption DEF MemInv, EndInv, Tiles, Length
<1>2. /\ b \in Nat /\ b \in Blocks /\ b \in Tiles \ Holes
      /\ h \in Nat /\ h < end /\ b + HDR + FTR <= h
      /\ RightOf(p) = h /\ h \in Holes
    BY <1>0, BlockFacts
<1>3. Freeing(p, w, t)
    BY LeftMerge
<1>4. /\ hdr[h].size \in Nat /\ h \in DOMAIN hdr /\ z = h + hdr[h].size /\ z # end
      /\ h + HDR + FTR <= z /\ z <= end /\ z \in Nat
  <2>1. /\ hdr[h].size \in Nat /\ h \in DOMAIN hdr /\ z = h + hdr[h].size
        /\ IsLast(h) <=> z = end
      BY <1>0, <1>2, HoleFacts
  <2>2. h + HDR + FTR <= z /\ z <= end /\ z \in Nat
      BY <1>1, <1>2, TileFacts
  <2> QED
      BY <1>2, <2>1, <2>2
<1>5. z - FTR \in DOMAIN ftr /\ Inside(Holes, h, ftr[z - FTR], z)
  <2>1. TileOK(Now, Holes, h, end)
      BY <1>1, <1>2, TileFacts
  <2> QED
      BY <1>4, <2>1, NowFields DEF TileOK
<1> HIDE DEF b, h, z, l, w, t
<1>6. /\ t \in Nat /\ START <= t /\ t <= b /\ t \in Tiles
      /\ \/ t = b /\ ~MergesLeft(p) /\ \A u \in Holes : EndAt(Now, u) # b
         \/ t \in Holes /\ MergesLeft(p) /\ EndAt(Now, t) = b
      /\ MemOK(w) /\ w.index = index
      /\ t \in DOMAIN w.hdr /\ w.hdr[t].hole = TRUE /\ w.hdr[t].size = h - t
      /\ SameOn(Now, w, START, t) /\ SameOn(Now, w, h, end)
    BY <1>3 DEF Freeing, b, h
<1>7. SizeOf(w, h) = z - h /\ SizeOf(w, t) = h - t
  <2>1. h \in DOMAIN w.hdr /\ w.hdr[h] = hdr[h]
      BY <1>1, <1>2, <1>4, <1>6, NowFields DEF SameOn
  <2> QED
      BY <1>1, <1>2, <1>4, <1>6, <2>1 DEF SizeOf
<1>8. U(SizeOf(w, t) + SizeOf(w, h)) = z - t /\ z - t \in Nat
  <2>1. (h - t) + (z - h) = z - t /\ z - t \in Nat /\ z - t <= MAX_END
      BY <1>1, <1>2, <1>4, <1>6
  <2> QED
      BY <1>7, <2>1, UFacts
<1>9. i \in 1 .. Len(index) /\ index[i] = h /\ index \in Seq(Nat)
  <2>1. index \in Seq(Nat) /\ h \in Items(index)
      BY <1>0, <1>1, <1>2, NowHeaped, NowFields DEF MemOK
  <2> QED
      BY <2>1, PositionFacts
<1>10. /\ MemOK(s) /\ s.ftr = w.ftr /\ s.index = w.index
       /\ DOMAIN s.hdr = DOMAIN w.hdr
       /\ s.hdr[t].size = z - t /\ s.hdr[t].hole = TRUE
       /\ \A x \in DOMAIN w.hdr : x # t => s.hdr[x] = w.hdr[x]
  <2> DEFINE c == z - t
  <2>1. MemOK(w) /\ t \in DOMAIN w.hdr /\ c \in Nat
      BY <1>6, <1>8
  <2> HIDE DEF c
  <2> DEFINE v == SetSize(w, t, c)
  <2>2. /\ MemOK(v) /\ v.ftr = w.ftr /\ v.index = w.index
        /\ DOMAIN v.hdr = DOMAIN w.hdr
        /\ v.hdr[t].size = c /\ v.hdr[t].hole = w.hdr[t].hole
        /\ \A x \in DOMAIN w.hdr : x # t => v.hdr[x] = w.hdr[x]
      BY ONLY <2>1, SetSizeFacts
  <2>3. v = s
      BY DEF c
  <2> HIDE DEF v, s
  <2> QED
      BY <1>6, <2>2, <2>3 DEF c
<1> HIDE DEF s, i
<1>11. /\ MemOK(k) /\ k.hdr = s.hdr /\ k.ftr = s.ftr
       /\ Items(k.index) = Holes \ {h} /\ Injective(k.index)
  <2>1. MemOK(s) /\ Injective(s.index) /\ i \in 1 .. Len(s.index) /\ s.index = index
      BY <1>1, <1>6, <1>9, <1>10
  <2>2. /\ MemOK(k) /\ k.hdr = s.hdr /\ k.ftr = s.ftr
        /\ Items(k.index) = Items(s.index) \ {s.index[i]} /\ Injective(k.index)
      BY ONLY <2>1, RemoveMem
  <2>3. Items(index) = Holes
      BY <1>0, NowHeaped
  <2> HIDE DEF k
  <2> QED
      BY <1>9, <2>1, <2>2, <2>3
<1>12. Freed(p) = [mem |-> m2, end |-> end]
  <2>1. RightMerged(w, t, h) = k
      BY <1>6, <1>8 DEF RightMerged, k, s, i
  <2> HIDE DEF k
  <2>2. Right(w, p, t) = [mem |-> k, footer |-> h + (z - h) - FTR]
      BY <1>2, <1>7, <2>1 DEF Right
  <2>3. h + (z - h) - FTR + FTR # end
      BY <1>1, <1>2, <1>4
  <2>4. Right(w, p, t).mem = k /\ Right(w, p, t).footer + FTR # end
      BY <2>2, <2>3
  <2> QED
      BY <1>1, <2>4 DEF Freed, MarkHole, w, t, l, b
<1> HIDE DEF k
<1>13. /\ t \in DOMAIN k.hdr /\ k.hdr[t].size = z - t /\ k.hdr[t].hole = TRUE
       /\ EndAt(k, t) = z /\ t < h
  <2>1. t \in DOMAIN k.hdr /\ k.hdr[t].size = z - t /\ k.hdr[t].hole = TRUE
      BY <1>6, <1>10, <1>11
  <2> QED
      BY <1>2, <1>4, <1>6, <2>1 DEF EndAt
<1>14. SameOn(Now, k, START, t) /\ SameOn(Now, k, z, end)
  <2>1. SameOn(w, k, START, t) /\ SameOn(w, k, z, end)
      BY <1>2, <1>4, <1>6, <1>10, <1>11, <1>13 DEF SameOn
  <2>2. SameOn(Now, w, z, end)
      BY <1>1, <1>2, <1>4, <1>6, SameOnPart
  <2> QED
      BY <1>1, <1>4, <1>6, <2>1, <2>2, SameOnTrans
<1>15. z - FTR \in DOMAIN k.ftr /\ k.ftr[z - FTR] = ftr[z - FTR]
  <2> DEFINE a == z - FTR
  <2>1. a \in Nat /\ h <= a /\ a + FTR <= end
      BY <1>1, <1>2, <1>4
  <2> HIDE DEF a
  <2>2. a \in DOMAIN w.ftr /\ w.ftr[a] = ftr[a]
      BY <1>5, <1>6, <2>1, NowFields DEF SameOn, a
  <2> QED
      BY <1>10, <1>11, <2>2 DEF a
<1>16. TileOK(k, (Holes \ {h}) \cup {t}, t, end)
  <2>1. k.hdr[t].size >= HDR + FTR
      BY <1>2, <1>4, <1>6, <1>13
  <2>2. Inside((Holes \ {h}) \cup {t}, t, k.ftr[z - FTR], z)
    <3> DEFINE y == ftr[z - FTR]
    <3>1. y = h \/ (h < y /\ y < z)
        BY <1>5 DEF Inside
    <3>2. y \in Nat
        BY <1>1, <1>5, NowFields DEF MemOK
    <3>3. k.ftr[z - FTR] = y
        BY <1>15
    <3> HIDE DEF y
    <3>4. t < y /\ y < z
        BY <1>2, <1>4, <1>6, <1>13, <3>1, <3>2
    <3> QED
        BY <3>3, <3>4 DEF Inside
  <2> QED
      BY <1>13, <1>15, <2>1, <2>2 DEF TileOK
<1>17. Joined(Now, k, Holes, Tiles, end, b, t, h)
    BY <1>1, <1>2, <1>6, <1>11, <1>13, <1>14, <1>16 DEF Joined, h, z
<1>18. /\ Sound(k, (Holes \ {h}) \cup {t}, (Tiles \ {b, h}) \cup {t}, end)
       /\ \A u \in Tiles : u # t /\ u # b /\ u # h => k.hdr[u] = Now.hdr[u]
  <2>1. /\ Sound(k, JoinedHoles(Holes, t, h), JoinedTiles(Tiles, b, t, h), end)
        /\ \A u \in Tiles : u # t /\ u # b /\ u # h => k.hdr[u] = Now.hdr[u]
      BY <1>17, JoinSound
  <2> QED
      BY <2>1 DEF JoinedHoles, JoinedTiles
<1>19. /\ MemOK(m2) /\ m2.hdr = k.hdr /\ m2.ftr = k.ftr /\ Injective(m2.index)
       /\ Items(m2.index) = (Holes \ {h}) \cup {t}
  <2>1. CASE MergesLeft(p)
    <3>1. t \in Holes /\ t # h
        BY <1>2, <1>6, <1>13, <2>1
    <3> QED
        BY <1>11, <2>1, <3>1
  <2>2. CASE ~MergesLeft(p)
    <3>1. m2 = insert(k, t) /\ t \notin Items(k.index)
        BY <1>2, <1>6, <1>11, <2>2
    <3>2. /\ MemOK(insert(k, t)) /\ insert(k, t).hdr = k.hdr /\ insert(k, t).ftr = k.ftr
          /\ Items(insert(k, t).index) = Items(k.index) \cup {t}
          /\ Injective(k.index) /\ t \notin Items(k.index) => Injective(insert(k, t).index)
        BY <1>6, <1>11, InsertMem
    <3> QED
        BY <1>11, <3>1, <3>2
  <2> QED
      BY <2>1, <2>2
<1> HIDE DEF m2
<1>20. Sound(m2, (Holes \ {h}) \cup {t}, (Tiles \ {b, h}) \cup {t}, end)
    BY <1>18, <1>19 DEF Sound, Region, TileOK, EndAt
<1>21. /\ (Tiles \ {b, h}) \cup {t} = ((Holes \ {h}) \cup {t}) \cup (Blocks \ {b})
       /\ ((Holes \ {h}) \cup {t}) \cap (Blocks \ {b}) = {}
    BY <1>1, <1>2, <1>6
<1>22. Heaped(m2, end, Blocks \ {b})
    BY <1>19, <1>20, <1>21 DEF Heaped
<1>23. \A u \in Blocks \ {b} : m2.hdr[u] = hdr[u]
  <2>1. \A u \in Blocks \ {b} : u \in Tiles /\ u # t /\ u # b /\ u # h
      BY <1>1, <1>2, <1>6
  <2> QED
      BY <1>18, <1>19, <2>1, NowFields
<1>24. Freed(p).mem = m2 /\ Freed(p).end = end
    BY <1>12
<1> QED
    BY <1>22, <1>23, <1>24 DEF Given, b

\* contract goes down to the minimum size, whatever the rounding does to a
\* length below it.
LEMMA ContractSizeFacts ==
    ASSUME NEW x \in Nat, x < MIN_SIZE PROVE ContractSize(x) = MIN_SIZE
<1>0. /\ PAGE \in Nat /\ PAGE > 0 /\ MIN_SIZE \in Nat /\ MIN_SIZE % PAGE = 0
    BY HeapAssumption
<1> DEFINE q == x \div PAGE
           r == x % PAGE
<1>1. x = PAGE * q + r /\ q \in Nat /\ r \in Nat /\ r < PAGE
    BY <1>0, DivMod
<1>2. PICK z \in Nat : MIN_SIZE = PAGE * z
    BY <1>0, WholePages
<1> HIDE DEF q, r
<1>3. q < z
  <2>1. CASE z <= q
    <3>1. PAGE * z <= PAGE * q /\ PAGE * z \in Nat /\ PAGE * q \in Nat
        BY <1>0, <1>1, <2>1, MulMono
    <3> QED
        BY <1>0, <1>1, <1>2, <3>1
  <2> QED
      BY <1>1, <2>1
<1>4. ASSUME q % 2 = 1, ~(2 * PAGE < MIN_SIZE) PROVE 2 * PAGE = MIN_SIZE
  <2>1. q # 0
      BY <1>4
  <2>2. 2 \in Nat /\ 2 <= z
      BY <1>1, <1>3, <2>1
  <2>3. PAGE * 2 <= PAGE * z
      BY <1>0, <2>2, MulMono
  <2> QED
      BY <1>0, <1>2, <1>4, <2>3
<1>5. CASE q % 2 = 1
  <2>1. ContractSize(x) = IF 2 * PAGE < MIN_SIZE THEN MIN_SIZE ELSE 2 * PAGE
      BY <1>5 DEF ContractSize, q
  <2> QED
      BY <1>4, <1>5, <2>1
<1>6. CASE q % 2 # 1
  <2>1. ContractSize(x) = IF x < MIN_SIZE THEN MIN_SIZE ELSE x
      BY <1>6 DEF ContractSize, q
  <2> QED
      BY <2>1
<1> QED
    BY <1>5, <1>6

LEMMA FreedLast ==
    ASSUME NEW p, FreeOK(p), MergesRight(p), IsLast(RightOf(p))
    PROVE  Given(p, Freed(p).mem, START + MIN_SIZE) /\ Freed(p).end = START + MIN_SIZE
<1> USE SizesHold DEF Sizes
<1> DEFINE b == Header(p)
           h == EndAt(Now, b)
           l == Left(MarkHole(Now, b), p)
           w == l.mem
           t == l.header
           i == PositionOf(h, index)
           s == SetSize(w, t, end - t)
           k == remove(s, i)
           n == START + MIN_SIZE - t
           m1 == Resized(k, t, n)
           m2 == IF MergesLeft(p) THEN m1 ELSE insert(m1, t)
<1>0. MemInv /\ EndInv /\ LiveInv /\ p \in DOMAIN live /\ FreeSafe(p)
    BY DEF FreeOK
<1>1. /\ MemOK(Now) /\ Sound(Now, Holes, Tiles, end) /\ end \in Nat /\ Injective(index)
      /\ Tiles = Holes \cup Blocks /\ Holes \cap Blocks = {} /\ Length = end - START
      /\ end <= MAX_END /\ START + MIN_SIZE <= end
      /\ MAX_END \in Nat /\ MIN_SIZE \in Nat
    BY <1>0, HeapAssumption DEF MemInv, EndInv, Tiles, Length
<1>2. /\ b \in Nat /\ b \in Blocks /\ b \in Tiles \ Holes
      /\ h \in Nat /\ h < end /\ b + HDR + FTR <= h
      /\ RightOf(p) = h /\ h \in Holes
    BY <1>0, BlockFacts
<1>3. Freeing(p, w, t) /\ t = MergedHeader(p)
    BY LeftMerge
<1>4. IsLast(h) /\ t - START + HDR + FTR <= MIN_SIZE
    BY <1>0, <1>2, <1>3 DEF FreeSafe
<1>5. /\ hdr[h].size \in Nat /\ h \in DOMAIN hdr
      /\ EndAt(Now, h) = h + hdr[h].size /\ EndAt(Now, h) = end
      /\ h + HDR + FTR <= end
  <2>1. /\ hdr[h].size \in Nat /\ h \in DOMAIN hdr /\ EndAt(Now, h) = end
        /\ EndAt(Now, h) = h + hdr[h].size
      BY <1>0, <1>2, <1>4, HoleFacts
  <2>2. h + HDR + FTR <= EndAt(Now, h)
      BY <1>1, <1>2, TileFacts
  <2> QED
      BY <2>1, <2>2
<1> HIDE DEF b, h, l, w, t
<1>6. /\ t \in Nat /\ START <= t /\ t <= b /\ t \in Tiles
      /\ \/ t = b /\ ~MergesLeft(p) /\ \A u \in Holes : EndAt(Now, u) # b
         \/ t \in Holes /\ MergesLeft(p) /\ EndAt(Now, t) = b
      /\ MemOK(w) /\ w.index = index
      /\ t \in DOMAIN w.hdr /\ w.hdr[t].hole = TRUE /\ w.hdr[t].size = h - t
      /\ SameOn(Now, w, START, t) /\ SameOn(Now, w, h, end)
    BY <1>3 DEF Freeing, b, h
<1>7. SizeOf(w, h) = end - h /\ SizeOf(w, t) = h - t
  <2>1. h \in DOMAIN w.hdr /\ w.hdr[h] = hdr[h]
      BY <1>1, <1>2, <1>5, <1>6, NowFields DEF SameOn
  <2> QED
      BY <1>1, <1>2, <1>5, <1>6, <2>1 DEF SizeOf
<1>8. U(SizeOf(w, t) + SizeOf(w, h)) = end - t /\ end - t \in Nat
  <2>1. (h - t) + (end - h) = end - t /\ end - t \in Nat /\ end - t <= MAX_END
      BY <1>1, <1>2, <1>6
  <2> QED
      BY <1>7, <2>1, UFacts
<1>9. /\ n \in Nat /\ n >= HDR + FTR /\ t + n = START + MIN_SIZE
      /\ (end - t) - (Length - MIN_SIZE) = n /\ n <= MAX_END
      /\ U(n) = n /\ U(t + n - FTR) = t + n - FTR
  <2>1. /\ n \in Nat /\ n >= HDR + FTR /\ t + n = START + MIN_SIZE
        /\ (end - t) - (Length - MIN_SIZE) = n /\ n <= MAX_END
      BY <1>1, <1>4, <1>6
  <2> HIDE DEF n
  <2>2. t + n - FTR \in Nat /\ t + n - FTR <= MAX_END
      BY <1>1, <1>6, <2>1
  <2> QED
      BY <2>1, <2>2, UFacts
<1>10. i \in 1 .. Len(index) /\ index[i] = h /\ index \in Seq(Nat)
  <2>1. index \in Seq(Nat) /\ h \in Items(index)
      BY <1>0, <1>1, <1>2, NowHeaped, NowFields DEF MemOK
  <2> QED
      BY <2>1, PositionFacts
<1>11. /\ MemOK(s) /\ s.ftr = w.ftr /\ s.index = w.index
       /\ DOMAIN s.hdr = DOMAIN w.hdr
       /\ s.hdr[t].size = end - t /\ s.hdr[t].hole = TRUE
       /\ \A x \in DOMAIN w.hdr : x # t => s.hdr[x] = w.hdr[x]
  <2> DEFINE c == end - t
  <2>1. MemOK(w) /\ t \in DOMAIN w.hdr /\ c \in Nat
      BY <1>6, <1>8
  <2> HIDE DEF c
  <2> DEFINE v == SetSize(w, t, c)
  <2>2. /\ MemOK(v) /\ v.ftr = w.ftr /\ v.index = w.index
        /\ DOMAIN v.hdr = DOMAIN w.hdr
        /\ v.hdr[t].size = c /\ v.hdr[t].hole = w.hdr[t].hole
        /\ \A x \in DOMAIN w.hdr : x # t => v.hdr[x] = w.hdr[x]
      BY ONLY <2>1, SetSizeFacts
  <2>3. v = s
      BY DEF c
  <2> HIDE DEF v, s
  <2> QED
      BY <1>6, <2>2, <2>3 DEF c
<1> HIDE DEF s, i
<1>12. /\ MemOK(k) /\ k.hdr = s.hdr /\ k.ftr = s.ftr
       /\ Items(k.index) = Holes \ {h} /\ Injective(k.index)
  <2>1. MemOK(s) /\ Injective(s.index) /\ i \in 1 .. Len(s.index) /\ s.index = index
      BY <1>1, <1>6, <1>10, <1>11
  <2>2. /\ MemOK(k) /\ k.hdr = s.hdr /\ k.ftr = s.ftr
        /\ Items(k.index) = Items(s.index) \ {s.index[i]} /\ Injective(k.index)
      BY ONLY <2>1, RemoveMem
  <2>3. Items(index) = Holes
      BY <1>0, NowHeaped
  <2> HIDE DEF k
  <2> QED
      BY <1>10, <2>1, <2>2, <2>3
<1>13. Freed(p) = [mem |-> m2, end |-> START + MIN_SIZE]
  <2>1. RightMerged(w, t, h) = k
      BY <1>6, <1>8 DEF RightMerged, k, s, i
  <2> HIDE DEF k
  <2>2. Right(w, p, t) = [mem |-> k, footer |-> h + (end - h) - FTR]
      BY <1>2, <1>7, <2>1 DEF Right
  <2>3. h + (end - h) - FTR + FTR = end
      BY <1>1, <1>2
  <2>4. Right(w, p, t).mem = k /\ Right(w, p, t).footer + FTR = end
      BY <2>2, <2>3
  <2>5. ContractSize(t - START) = MIN_SIZE
    <3>1. t - START \in Nat /\ t - START < MIN_SIZE
        BY <1>1, <1>4, <1>6
    <3> QED
        BY <3>1, ContractSizeFacts
  <2>6. Contracted(k, t, h, Length - MIN_SIZE) = m1
    <3>1. SizeOf(k, t) = end - t
        BY <1>6, <1>11, <1>12 DEF SizeOf
    <3>2. U(SizeOf(k, t) - (Length - MIN_SIZE)) = n /\ n > 0 /\ U(t + n - FTR) = t + n - FTR
        BY <1>9, <3>1
    <3> HIDE DEF n
    <3> QED
        BY <3>2 DEF Contracted, Resized
  <2> HIDE DEF m1
  <2> QED
      BY <1>2, <2>4, <2>5, <2>6 DEF Freed, MarkHole, w, t, l, b
<1> HIDE DEF k, n
<1>14. /\ MemOK(m1) /\ m1.index = k.index /\ SameOn(k, m1, START, t)
       /\ EndAt(m1, t) = t + n
       /\ \A H, e : t \in H => TileOK(m1, H, t, e)
  <2>1. MemOK(k) /\ t \in DOMAIN k.hdr /\ START <= t /\ k.hdr[t].hole = TRUE
      BY <1>6, <1>11, <1>12
  <2>2. n \in Nat /\ n >= HDR + FTR
      BY <1>9
  <2> QED
      BY ONLY <2>1, <2>2, ResizedFacts
<1> HIDE DEF m1
<1>15. SameOn(Now, m1, START, t)
  <2>1. SameOn(w, k, START, t)
      BY <1>6, <1>11, <1>12 DEF SameOn
  <2>2. SameOn(Now, k, START, t)
      BY <1>6, <2>1, SameOnTrans
  <2> QED
      BY <1>6, <1>14, <2>2, SameOnTrans
<1>16. Cut(Now, m1, Holes, Tiles, end, t, START + MIN_SIZE)
  <2>1. t \in Upto(Holes, t)
      BY DEF Upto
  <2>2. TileOK(m1, Upto(Holes, t), t, START + MIN_SIZE) /\ START + MIN_SIZE \in Nat
      BY <1>1, <1>14, <2>1
  <2>3. EndAt(m1, t) = START + MIN_SIZE
      BY <1>9, <1>14
  <2>4. t \in Holes \/ \A u \in Holes : EndAt(Now, u) # t
      BY <1>6
  <2> QED
      BY <1>1, <1>6, <1>14, <1>15, <2>2, <2>3, <2>4 DEF Cut
<1>17. /\ Sound(m1, Upto(Holes, t), Upto(Tiles, t), START + MIN_SIZE)
       /\ \A u \in Tiles : u < t => m1.hdr[u] = Now.hdr[u]
    BY <1>16, CutSound
<1>18. ASSUME NEW u \in Tiles PROVE u < t \/ u = t \/ u = b \/ u = h
  <2>1. u \in Nat /\ u < end
      BY <1>1 DEF Sound
  <2>2. b < u => h <= u
      BY <1>1, <1>2, TileFacts DEF h
  <2>3. h < u => end <= u
      BY <1>1, <1>2, <1>5, TileFacts
  <2>4. t < u => b <= u
    <3>1. CASE t = b
        BY <1>2, <2>1, <3>1
    <3>2. CASE EndAt(Now, t) = b
        BY <1>1, <1>6, <3>2, TileFacts
    <3> QED
        BY <1>6, <3>1, <3>2
  <2> QED
      BY <1>1, <1>2, <1>6, <2>1, <2>2, <2>3, <2>4
<1>19. h \notin Upto(Holes, t) /\ h # t /\ h # b /\ ~(h < t) /\ (b = t \/ ~(b < t))
    BY <1>2, <1>6 DEF Upto
<1>20. Upto(Holes, t) = (Holes \ {h}) \cup {t}
  <2>1. ASSUME NEW u \in Holes, u # h PROVE u < t \/ u = t
      BY <1>1, <1>2, <1>18, <2>1
  <2> QED
      BY <1>19, <2>1 DEF Upto
<1>21. Upto(Tiles, t) = Upto(Holes, t) \cup (Blocks \ {b})
  <2>1. ASSUME NEW u \in Blocks, u # b PROVE u < t
    <3>1. u \in Tiles /\ u \notin Holes
        BY <1>1, <2>1
    <3> QED
        BY <1>2, <1>6, <1>18, <2>1, <3>1
  <2>2. ASSUME NEW u \in Tiles, u < t PROVE u \in Holes \/ u \in Blocks \ {b}
      BY <1>1, <1>2, <1>6, <2>2
  <2> QED
      BY <1>1, <2>1, <2>2 DEF Upto
<1>22. /\ MemOK(m2) /\ m2.hdr = m1.hdr /\ m2.ftr = m1.ftr /\ Injective(m2.index)
       /\ Items(m2.index) = Upto(Holes, t)
  <2>1. CASE MergesLeft(p)
    <3>1. t \in Holes
        BY <1>6, <2>1
    <3> QED
        BY <1>12, <1>14, <1>19, <1>20, <2>1, <3>1
  <2>2. CASE ~MergesLeft(p)
    <3>1. m2 = insert(m1, t) /\ t \notin Items(m1.index)
        BY <1>2, <1>6, <1>12, <1>14, <2>2
    <3>2. /\ MemOK(insert(m1, t)) /\ insert(m1, t).hdr = m1.hdr /\ insert(m1, t).ftr = m1.ftr
          /\ Items(insert(m1, t).index) = Items(m1.index) \cup {t}
          /\ Injective(m1.index) /\ t \notin Items(m1.index) => Injective(insert(m1, t).index)
        BY <1>6, <1>14, InsertMem
    <3> QED
        BY <1>12, <1>14, <1>20, <3>1, <3>2
  <2> QED
      BY <2>1, <2>2
<1> HIDE DEF m2
<1>23. Sound(m2, Upto(Holes, t), Upto(Tiles, t), START + MIN_SIZE)
    BY <1>17, <1>22 DEF Sound, Region, TileOK, EndAt
<1>24. Upto(Holes, t) \cap (Blocks \ {b}) = {}
    BY <1>1, <1>6, <1>20
<1>25. Heaped(m2, START + MIN_SIZE, Blocks \ {b})
    BY <1>21, <1>22, <1>23, <1>24 DEF Heaped
<1>26. \A u \in Blocks \ {b} : m2.hdr[u] = hdr[u]
  <2>1. ASSUME NEW u \in Blocks \ {b} PROVE u \in Tiles /\ u < t
      BY <1>1, <1>2, <1>6, <1>18, <2>1
  <2> QED
      BY <1>17, <1>22, <2>1, NowFields
<1>27. Freed(p).mem = m2 /\ Freed(p).end = START + MIN_SIZE
    BY <1>13
<1> QED
    BY <1>25, <1>26, <1>27 DEF Given, b

LEMMA DivMono ==
    ASSUME NEW a \in Nat, NEW c \in Nat, a <= c
    PROVE  a \div PAGE <= c \div PAGE /\ a \div PAGE \in Nat /\ c \div PAGE \in Nat
<1>0. PAGE \in Nat /\ PAGE > 0
    BY SizesHold DEF Sizes
<1> DEFINE x == a \div PAGE
           y == c \div PAGE
           r == a % PAGE
           s == c % PAGE
<1>1. /\ a = PAGE * x + r /\ x \in Nat /\ r \in Nat /\ r < PAGE
      /\ c = PAGE * y + s /\ y \in Nat /\ s \in Nat /\ s < PAGE
    BY <1>0, DivMod
<1> HIDE DEF x, y, r, s
<1>2. x <= y
  <2>1. CASE y < x
    <3>1. PAGE * y + PAGE <= PAGE * x /\ PAGE * x \in Nat /\ PAGE * y \in Nat
        BY <1>0, <1>1, <2>1, MulMono
    <3> QED
        BY <1>0, <1>1, <3>1
  <2> QED
      BY <1>1, <2>1
<1> QED
    BY <1>1, <1>2 DEF x, y

LEMMA FreeStep ==
    ASSUME IInv, Disciplined, NEW p \in DOMAIN live, Release(p), client' = client
    PROVE  IInv' /\ live' = [x \in DOMAIN live \ {p} |-> live[x]]
<1> USE SizesHold DEF Sizes
<1> DEFINE b == Header(p)
           f == Freed(p)
<1>1. MemInv /\ EndInv /\ LiveInv /\ client \in Clients /\ NoFault
    BY DEF IInv
<1>2. FreeFault(p) = "none"
  <2>1. FreeSafe(p)
      BY DEF Release
  <2> QED
      BY <1>1, <2>1, NoFreeFault DEF FreeOK
<1>3. /\ FreeSafe(p) /\ req = NoReq
      /\ live' = [x \in DOMAIN live \ {p} |-> live[x]]
      /\ fault' = "none" /\ req' = req
      /\ hdr' = f.mem.hdr /\ ftr' = f.mem.ftr /\ index' = f.mem.index /\ end' = f.end
      /\ backed' = backed \ (IF f.end < end THEN ContractPages(Length, f.end - START)
                                            ELSE {})
    BY <1>2 DEF Release, free, Idle
<1>4. FreeOK(p)
    BY <1>1, <1>3 DEF FreeOK
<1>5. /\ Given(p, f.mem, f.end)
      /\ f.end = end \/ f.end = START + MIN_SIZE
  <2>1. CASE MergesRight(p) /\ IsLast(RightOf(p))
      BY <1>4, <2>1, FreedLast
  <2>2. CASE MergesRight(p) /\ ~IsLast(RightOf(p))
      BY <1>4, <2>2, FreedMiddle
  <2>3. CASE ~MergesRight(p)
      BY <1>4, <2>3, FreedPlain
  <2> QED
      BY <2>1, <2>2, <2>3
<1> HIDE DEF f
<1>6. /\ Heaped(f.mem, f.end, Blocks \ {b})
      /\ \A u \in Blocks \ {b} : f.mem.hdr[u] = hdr[u]
    BY <1>5 DEF Given
<1>7. DOMAIN live \subseteq Nat /\ DOMAIN live' = DOMAIN live \ {p}
    BY <1>1, <1>3 DEF LiveInv
<1>8. \A x \in DOMAIN live : x # p => Header(x) \in Blocks \ {b}
  <2>1. ASSUME NEW x \in DOMAIN live, x # p PROVE Header(x) # Header(p)
      BY <1>7, <2>1 DEF Header
  <2> QED
      BY <2>1 DEF Blocks
<1>9. Blocks' = Blocks \ {b}
  <2>1. Blocks' = {Header(x) : x \in DOMAIN live'}
      BY DEF Blocks, Header
  <2> QED
      BY <1>7, <1>8, <2>1 DEF Blocks
<1>10. MemInv'
    BY <1>3, <1>6, <1>9, NextHeaped
<1>11. EndInv'
  <2>1. /\ end \in Nat /\ START + MIN_SIZE <= end /\ MIN_SIZE \in Nat /\ end <= MAX_END
        /\ (end - START) % PAGE = 0 /\ MAX_END \in Nat /\ MIN_SIZE % PAGE = 0
        /\ START \div PAGE .. end \div PAGE - 1 \subseteq backed
      BY <1>1, HeapAssumption DEF EndInv
  <2>2. CASE f.end < end
    <3>1. end' = START + MIN_SIZE /\ f.end - START = MIN_SIZE /\ Length \in Nat
        BY <1>3, <1>5, <2>1, <2>2 DEF Length
    <3>2. backed' = backed \ ContractPages(Length, MIN_SIZE)
        BY <1>3, <2>2, <3>1
    <3>3. ASSUME NEW x \in START \div PAGE .. (START + MIN_SIZE) \div PAGE - 1
          PROVE  x \in backed'
      <4>1. x \notin ContractPages(Length, MIN_SIZE)
          BY <2>1, <3>1, ContractKeeps
      <4>2. /\ START + MIN_SIZE \in Nat
            /\ (START + MIN_SIZE) \div PAGE <= end \div PAGE
            /\ (START + MIN_SIZE) \div PAGE \in Nat /\ end \div PAGE \in Nat
            /\ START \div PAGE \in Nat
          BY <2>1, DivMono
      <4> DEFINE s == START \div PAGE
                 y == (START + MIN_SIZE) \div PAGE
                 z == end \div PAGE
      <4>3. x \in s .. y - 1 /\ y <= z /\ s \in Nat /\ y \in Nat /\ z \in Nat
          BY <4>2
      <4> HIDE DEF s, y, z
      <4>4. x \in s .. z - 1
          BY <4>3
      <4> QED
          BY <2>1, <3>2, <4>1, <4>4 DEF s, z
    <3>4. START + MIN_SIZE \in Nat /\ START + MIN_SIZE <= MAX_END
          /\ (START + MIN_SIZE) - START = MIN_SIZE
        BY <2>1
    <3> QED
        BY <2>1, <3>1, <3>3, <3>4 DEF EndInv
  <2>3. CASE ~(f.end < end)
    <3>1. f.end = end
        BY <1>5, <2>1, <2>3
    <3>2. end' = end /\ backed' = backed
        BY <1>3, <2>3, <3>1
    <3> QED
        BY <1>1, <3>2 DEF EndInv
  <2> QED
      BY <2>2, <2>3
<1>12. LiveInv'
  <2>1. ASSUME NEW x \in DOMAIN live, x # p
        PROVE  live'[x] = live[x] /\ hdr'[Header(x)] = hdr[Header(x)]
      BY <1>3, <1>6, <1>8, <2>1
  <2>2. live' = [x \in DOMAIN live' |-> live'[x]]
      BY <1>3
  <2> QED
      BY <1>1, <1>7, <2>1, <2>2 DEF LiveInv, Header, Gross
<1>13. ReqInv'
    BY <1>3 DEF ReqInv, NoReq
<1> QED
    BY <1>1, <1>3, <1>10, <1>11, <1>12, <1>13 DEF IInv, NoFault

-----------------------------------------------------------------------------
(* The invariant holds                                                     *)

LEMMA FirstHeap == HInit => IInv
<1> SUFFICES ASSUME HInit PROVE IInv
    OBVIOUS
<1> USE SizesHold DEF Sizes
<1>1. /\ hdr = At(<<>>, START, [hole |-> TRUE, size |-> INITIAL])
      /\ ftr = <<>> /\ index = <<START>> /\ end = START + INITIAL
      /\ backed = START \div PAGE .. (START + INITIAL) \div PAGE - 1
      /\ live = <<>> /\ req = NoReq /\ fault = "none" /\ client \in Clients
    BY DEF HInit, Init
<1>2. DOMAIN <<>> = {}
    OBVIOUS
<1>3. /\ DOMAIN hdr = {START} /\ hdr[START] = [hole |-> TRUE, size |-> INITIAL]
      /\ hdr = [a \in DOMAIN hdr |-> hdr[a]]
    BY <1>1, <1>2 DEF At
<1>4. /\ INITIAL \in Nat /\ MIN_SIZE \in Nat /\ MAX_END \in Nat
      /\ MIN_SIZE <= INITIAL /\ PAGE <= MIN_SIZE /\ START + INITIAL <= MAX_END
      /\ INITIAL % PAGE = 0
  <2>1. /\ INITIAL \in Nat /\ MIN_SIZE \in Nat /\ MAX_END \in Nat /\ PAGE \in Nat /\ PAGE > 0
        /\ MIN_SIZE <= INITIAL /\ 0 < MIN_SIZE /\ START + INITIAL <= MAX_END
        /\ INITIAL % PAGE = 0 /\ MIN_SIZE % PAGE = 0
      BY HeapAssumption
  <2>2. PICK z \in Nat : MIN_SIZE = PAGE * z
      BY <2>1, WholePages
  <2>3. z # 0
      BY <2>1, <2>2
  <2>4. 1 \in Nat /\ 1 <= z /\ PAGE * 1 = PAGE
      BY <2>1, <2>2, <2>3
  <2>5. PAGE * 1 <= PAGE * z
      BY <2>1, <2>2, <2>4, MulMono
  <2> QED
      BY <2>1, <2>2, <2>4, <2>5
<1>5. /\ index \in Seq(Nat) /\ Len(index) = 1 /\ index[1] = START /\ DOMAIN index = {1}
      /\ Injective(index) /\ Holes = {START} /\ Blocks = {} /\ Tiles = {START}
  <2>1. index \in Seq(Nat) /\ Len(index) = 1 /\ index[1] = START
      BY <1>1
  <2>2. DOMAIN index = {1}
      BY <2>1, SeqFacts
  <2>3. Holes = {START} /\ Blocks = {}
      BY <1>1, <1>2, <2>1, <2>2 DEF Holes, Blocks
  <2> QED
      BY <2>1, <2>2, <2>3 DEF Injective, Tiles
<1>6. MemOK(Now)
  <2>1. Now = Mem(Now.hdr, Now.ftr, Now.index)
      BY NowFields DEF Now
  <2>2. ftr = [a \in DOMAIN ftr |-> ftr[a]] /\ DOMAIN ftr = {}
      BY <1>1, <1>2
  <2>3. hdr[START] \in [hole : BOOLEAN, size : Nat]
      BY <1>3, <1>4
  <2> QED
      BY <1>3, <1>5, <2>1, <2>2, <2>3, NowFields DEF MemOK
<1>7. EndAt(Now, START) = end /\ end \in Nat /\ START < end
  <2>1. Now.hdr[START].size = INITIAL
      BY <1>3, NowFields
  <2> QED
      BY <1>1, <1>4, <2>1 DEF EndAt
<1>8. TileOK(Now, Holes, START, end)
  <2>1. Now.hdr[START].size = INITIAL /\ Now.hdr[START].hole = TRUE /\ START \in DOMAIN Now.hdr
      BY <1>3, NowFields
  <2>2. DOMAIN Now.ftr = {}
      BY <1>1, <1>2, NowFields
  <2>3. Now.hdr[START].hole = (START \in Holes)
      BY <1>5, <2>1
  <2>4. Now.hdr[START].size >= HDR + FTR
      BY <1>4, <2>1
  <2>5. EndAt(Now, START) - FTR \notin DOMAIN Now.ftr
      BY <2>2
  <2> QED
      BY <1>7, <2>1, <2>3, <2>4, <2>5 DEF TileOK
<1>9. Sound(Now, Holes, Tiles, end)
  <2>1. Region(Now, Holes, Tiles, START, end, end)
    <3>1. \A t \in Tiles : START < t => end <= t
        BY <1>5
    <3> QED
        BY <1>5, <1>7, <1>8, <3>1, OneTile
  <2> QED
      BY <1>5, <1>7, <2>1 DEF Sound
<1>10. MemInv
    BY <1>5, <1>6, <1>9 DEF MemInv
<1>11. EndInv
  <2>1. end - START = INITIAL
      BY <1>1, <1>4
  <2> QED
      BY <1>1, <1>4, <2>1 DEF EndInv
<1>12. LiveInv
    BY <1>1, <1>2 DEF LiveInv
<1>13. ReqInv
    BY <1>1 DEF ReqInv, NoReq
<1> QED
    BY <1>1, <1>10, <1>11, <1>12, <1>13 DEF IInv, NoFault

LEMMA HeapStep == ASSUME Disciplined, IInv, [HNext]_hvars PROVE IInv'
<1>1. CASE HNext
  <2>1. client' = client /\ client \in Clients
      BY <1>1 DEF HNext, IInv
  <2>2. \A r \in client.kinds : r[1] \in Nat /\ r[2] \in BOOLEAN /\ r[3] \in BOOLEAN
    <3>1. client.kinds \subseteq Nat \X BOOLEAN \X BOOLEAN
        BY <2>1, ClientAssumption
    <3> QED
        BY <3>1
  <2>3. CASE \E r \in client.kinds : Request(r[1], r[2])
      BY <2>1, <2>2, <2>3, RequestStep
  <2>4. CASE \E r \in client.kinds : alloc_take(r[3])
      BY <2>1, <2>2, <2>4, TakeStep
  <2>5. CASE alloc_expand
      BY <2>1, <2>5, ExpandStep
  <2>6. CASE \E p \in DOMAIN live : Release(p)
      BY <2>1, <2>6, FreeStep
  <2> QED
      BY <1>1, <2>3, <2>4, <2>5, <2>6 DEF HNext
<1>2. CASE UNCHANGED hvars
  <2>1. /\ UNCHANGED <<hdr, ftr, index, end, backed, live, req, fault>>
        /\ client' = client
      BY <1>2 DEF hvars, vars
  <2>2. Now' = Now /\ Holes' = Holes /\ Blocks' = Blocks /\ Tiles' = Tiles
      BY <2>1 DEF Now, Holes, Blocks, Tiles, Header
  <2>3. MemInv'
      BY <2>1, <2>2 DEF IInv, MemInv
  <2>4. EndInv' /\ LiveInv'
      BY <2>1 DEF IInv, EndInv, LiveInv, Header, Gross
  <2>5. ReqInv'
      BY <2>1, <2>2 DEF IInv, ReqInv, AllocSafe, ExpandSafe, CutSafe, IsLast, TopHole, Length
  <2> QED
      BY <2>1, <2>3, <2>4, <2>5 DEF IInv, NoFault
<1> QED
    BY <1>1, <1>2

LEMMA HeapInvariant == ASSUME Disciplined PROVE Spec => []IInv
<1>1. HInit => IInv
    BY FirstHeap
<1>2. IInv /\ [HNext]_hvars => IInv'
    BY HeapStep
<1> QED
    BY <1>1, <1>2, PTL DEF Spec

-----------------------------------------------------------------------------
(* What the invariant says                                                 *)

LEMMA CountHoles ==
    ASSUME NEW s \in Seq(Nat), Injective(s) PROVE Cardinality(Items(s)) = Len(s)
<1> DEFINE n == Len(s)
<1>1. n \in Nat /\ DOMAIN s = 1 .. n /\ \A k \in 1 .. n : s[k] \in Nat
    BY SeqFacts
<1>2. s \in [1 .. n -> Items(s)]
  <2>1. s = [k \in 1 .. n |-> s[k]]
      BY <1>1, SeqDef
  <2> QED
      BY <2>1 DEF Items
<1>3. s \in Injection(1 .. n, Items(s))
  <2>1. \A a, b \in 1 .. n : s[a] = s[b] => a = b
      BY <1>1 DEF Injective
  <2> QED
      BY <1>1, <1>2, <2>1 DEF Injection, IsInjective
<1>4. s \in Surjection(1 .. n, Items(s))
    BY <1>1, <1>2 DEF Surjection, Items
<1>5. ExistsBijection(1 .. n, Items(s))
    BY <1>3, <1>4 DEF ExistsBijection, Bijection
<1>6. IsFiniteSet(1 .. n) /\ Cardinality(1 .. n) = n
  <2>1. 1 \in Int /\ n \in Int /\ n >= 0
      BY <1>1
  <2>2. IsFiniteSet(1 .. n) /\ Cardinality(1 .. n) = IF 1 > n THEN 0 ELSE n - 1 + 1
      BY <2>1, FS_Interval
  <2> QED
      BY <1>1, <2>2
<1> QED
    BY <1>5, <1>6, FS_Bijection

LEMMA TilesOf ==
    ASSUME IInv, NEW t \in Tiles
    PROVE  /\ t \in DOMAIN hdr /\ hdr[t].hole = (t \in Holes)
           /\ t \in Nat /\ START <= t /\ hdr[t].size \in Nat /\ hdr[t].size >= HDR + FTR
           /\ EndOf(t) = t + hdr[t].size /\ EndOf(t) = EndAt(Now, t) /\ EndOf(t) <= end
           /\ EndOf(t) \in Tiles \cup {end}
           /\ \A u \in Tiles : t < u => EndOf(t) <= u
           /\ EndOf(t) - FTR \in DOMAIN ftr => Inside(Holes, t, ftr[EndOf(t) - FTR], EndOf(t))
<1>1. MemOK(Now) /\ Sound(Now, Holes, Tiles, end) /\ end \in Nat
    BY DEF IInv, MemInv, EndInv
<1>2. EndOf(t) = EndAt(Now, t) /\ EndOf(t) = t + hdr[t].size
    BY NowFields DEF EndOf, EndAt
<1>3. /\ TileOK(Now, Holes, t, end)
      /\ t \in Nat /\ START <= t /\ EndAt(Now, t) <= end
      /\ EndAt(Now, t) \in Tiles \/ EndAt(Now, t) = end
      /\ \A u \in Tiles : t < u => EndAt(Now, t) <= u
    BY <1>1, TileFacts
<1>4. /\ t \in DOMAIN hdr /\ hdr[t].hole = (t \in Holes) /\ hdr[t].size >= HDR + FTR
      /\ EndAt(Now, t) - FTR \in DOMAIN ftr =>
            Inside(Holes, t, ftr[EndAt(Now, t) - FTR], EndAt(Now, t))
    BY <1>3, NowFields DEF TileOK
<1>5. hdr[t].size \in Nat
    BY <1>1, <1>4, SizeType, NowFields
<1> QED
    BY <1>2, <1>3, <1>4, <1>5

LEMMA TilingHolds == IInv => Tiling
<1> SUFFICES ASSUME IInv PROVE Tiling
    OBVIOUS
<1> USE SizesHold DEF Sizes
<1>1. /\ MemOK(Now) /\ Injective(index) /\ Holes \cap Blocks = {}
      /\ Sound(Now, Holes, Tiles, end) /\ LiveInv /\ MemInv
      /\ end \in Nat /\ START < end
  <2>1. end \in Nat /\ START + MIN_SIZE <= end /\ MIN_SIZE \in Nat /\ 0 < MIN_SIZE
      BY HeapAssumption DEF IInv, EndInv
  <2> QED
      BY <2>1 DEF IInv, MemInv
<1>2. START \in Tiles
    BY <1>1 DEF Sound, Region
<1>3. Cardinality(Holes) = Len(index)
  <2>1. index \in Seq(Nat) /\ Items(index) = Holes
      BY <1>1, NowHeaped, NowFields DEF MemOK
  <2> QED
      BY <1>1, <2>1, CountHoles
<1>4. \A p \in DOMAIN live : hdr[Header(p)].size >= Gross(live[p])
    BY <1>1 DEF LiveInv
<1>5. \A t \in Tiles :
          /\ t \in DOMAIN hdr
          /\ hdr[t].hole = (t \in Holes)
          /\ hdr[t].size >= HDR + FTR
          /\ EndOf(t) \in Tiles \cup {end}
          /\ \A u \in Tiles : t < u => EndOf(t) <= u
    BY TilesOf
<1> QED
    BY <1>1, <1>2, <1>3, <1>4, <1>5 DEF Tiling

LEMMA CoalescedHolds == IInv => Coalesced
<1> SUFFICES ASSUME IInv, NEW t \in Holes PROVE EndOf(t) \notin Holes
    BY DEF Coalesced
<1>1. EndAt(Now, t) \notin Holes
    BY DEF IInv, MemInv, Sound
<1> QED
    BY <1>1, TilesOf DEF Tiles

LEMMA FootersHold == IInv => FootersInside
<1> USE SizesHold DEF Sizes
<1> SUFFICES ASSUME IInv, NEW t \in Holes, EndOf(t) - FTR \in DOMAIN ftr
             PROVE  t <= ftr[EndOf(t) - FTR] /\ ftr[EndOf(t) - FTR] < EndOf(t)
    BY DEF FootersInside
<1> DEFINE h == ftr[EndOf(t) - FTR]
           z == EndOf(t)
<1>1. /\ t \in Nat /\ hdr[t].size \in Nat /\ hdr[t].size >= HDR + FTR /\ z = t + hdr[t].size
      /\ Inside(Holes, t, h, z)
    BY TilesOf DEF Tiles
<1>2. h \in Nat
    BY NowFields DEF IInv, MemInv, MemOK
<1> HIDE DEF h, z
<1>3. t <= h /\ h < z
    BY <1>1, <1>2 DEF Inside
<1> QED
    BY <1>3 DEF h, z

\* Where the blocks in use lie.
Apart ==
    \A p \in DOMAIN live :
        /\ p \in Nat /\ live[p] \in Nat
        /\ START + HDR <= p /\ p + live[p] + FTR <= end
        /\ \A q \in DOMAIN live : q # p => p + live[p] <= q \/ q + live[q] <= p

LEMMA ApartHolds == IInv => Apart
<1> SUFFICES ASSUME IInv PROVE Apart
    OBVIOUS
<1> USE SizesHold DEF Sizes
<1>1. LiveInv /\ end \in Nat
    BY DEF IInv, EndInv
<1>2. ASSUME NEW p \in DOMAIN live
      PROVE  /\ p \in Nat /\ live[p] \in Nat /\ Header(p) \in Tiles /\ Header(p) = p - HDR
             /\ START + HDR <= p /\ p + live[p] + FTR <= end
             /\ p + live[p] + FTR <= EndOf(Header(p)) /\ EndOf(Header(p)) \in Nat
             /\ \A u \in Tiles : Header(p) < u => EndOf(Header(p)) <= u
  <2>1. p \in Nat /\ live[p] \in Nat /\ hdr[Header(p)].size >= Gross(live[p])
      BY <1>1 DEF LiveInv
  <2>2. Header(p) \in Tiles /\ Header(p) = p - HDR
      BY DEF Tiles, Blocks, Header
  <2> DEFINE b == Header(p)
  <2>3. /\ b \in Nat /\ START <= b /\ hdr[b].size \in Nat
        /\ EndOf(b) = b + hdr[b].size /\ EndOf(b) <= end
        /\ \A u \in Tiles : b < u => EndOf(b) <= u
      BY <2>2, TilesOf
  <2>4. b = p - HDR /\ Gross(live[p]) = live[p] + HDR + FTR /\ hdr[b].size >= Gross(live[p])
      BY <2>1, <2>2 DEF Gross
  <2> HIDE DEF b
  <2>5. START + HDR <= p /\ p + live[p] + FTR <= EndOf(b) /\ EndOf(b) \in Nat
      BY <2>1, <2>3, <2>4
  <2>6. p + live[p] + FTR <= end
      BY <1>1, <2>1, <2>3, <2>5
  <2> QED
      BY <2>1, <2>2, <2>3, <2>5, <2>6 DEF b
<1>3. ASSUME NEW p \in DOMAIN live, NEW q \in DOMAIN live, q # p
      PROVE  p + live[p] <= q \/ q + live[q] <= p
  <2>1. /\ p \in Nat /\ live[p] \in Nat /\ Header(p) \in Tiles /\ Header(p) = p - HDR
        /\ p + live[p] + FTR <= EndOf(Header(p)) /\ EndOf(Header(p)) \in Nat
        /\ \A u \in Tiles : Header(p) < u => EndOf(Header(p)) <= u
      BY <1>2
  <2>2. /\ q \in Nat /\ live[q] \in Nat /\ Header(q) \in Tiles /\ Header(q) = q - HDR
        /\ q + live[q] + FTR <= EndOf(Header(q)) /\ EndOf(Header(q)) \in Nat
        /\ \A u \in Tiles : Header(q) < u => EndOf(Header(q)) <= u
      BY <1>2
  <2>3. CASE p < q
    <3>1. EndOf(Header(p)) <= Header(q)
        BY <2>1, <2>2, <2>3
    <3> QED
        BY <2>1, <2>2, <3>1
  <2>4. CASE q < p
    <3>1. EndOf(Header(q)) <= Header(p)
        BY <2>1, <2>2, <2>4
    <3> QED
        BY <2>1, <2>2, <3>1
  <2> QED
      BY <1>3, <2>1, <2>2, <2>3, <2>4
<1> QED
    BY <1>2, <1>3 DEF Apart

LEMMA LiveBackedHolds == IInv => LiveBacked
<1> SUFFICES ASSUME IInv, NEW p \in DOMAIN live, NEW a \in {p, p + live[p] - 1}
             PROVE  a \div PAGE \in backed
    BY DEF LiveBacked
<1> USE SizesHold DEF Sizes
<1>1. /\ p \in Nat /\ live[p] \in Nat
      /\ START + HDR <= p /\ p + live[p] + FTR <= end
    BY ApartHolds DEF Apart
<1>2. /\ end \in Nat /\ START + MIN_SIZE <= end /\ MIN_SIZE \in Nat
      /\ (end - START) % PAGE = 0
      /\ START \div PAGE .. end \div PAGE - 1 \subseteq backed
    BY HeapAssumption DEF IInv, EndInv
<1>3. a \in Nat /\ START <= a /\ a < end
    BY <1>1, <1>2
<1> DEFINE len == end - START
<1>4. len \in Nat /\ START + len = end /\ len % PAGE = 0
    BY <1>2
<1> HIDE DEF len
<1>5. a \div PAGE \in START \div PAGE .. (START + len) \div PAGE - 1
    BY <1>3, <1>4, PageInside
<1> QED
    BY <1>2, <1>4, <1>5

-----------------------------------------------------------------------------
(* The theorems                                                            *)

\* free never follows a footer to an overwritten header, never reads a header
\* beyond the frames of the heap and never takes an entry from an empty index:
\* memory.c:429-520 on the blocks of a client that keeps to the discipline.
THEOREM NoFaultAlways == ASSUME Disciplined PROVE Spec => []NoFault
<1>1. IInv => NoFault
    BY DEF IInv
<1> QED
    BY <1>1, HeapInvariant, PTL

\* Whatever alloc splits, expand grows, free unifies and contract cuts off, the
\* holes of the index and the blocks in use tile the heap.
THEOREM TilingAlways == ASSUME Disciplined PROVE Spec => []Tiling
BY TilingHolds, HeapInvariant, PTL

\* free leaves no two adjacent holes, and neither alloc nor expand makes any.
THEOREM CoalescedAlways == ASSUME Disciplined PROVE Spec => []Coalesced
BY CoalescedHolds, HeapInvariant, PTL

\* expand allocates the frames of what it adds, and contract releases none
\* under a block in use.
THEOREM LiveBackedAlways == ASSUME Disciplined PROVE Spec => []LiveBacked
BY LiveBackedHolds, HeapInvariant, PTL

\* After every split and every unification, those that leave a stale footer
\* included, the footer of a hole points into that hole and never to a block in use.
THEOREM FootersInsideAlways == ASSUME Disciplined PROVE Spec => []FootersInside
BY FootersHold, HeapInvariant, PTL

-----------------------------------------------------------------------------
(* The refinement                                                          *)

\* A block that alloc hands out overlaps no other.
LEMMA MallocStep ==
    ASSUME IInv, (Apart /\ EndInv)', NEW p \in Nat, p \notin DOMAIN live,
           NEW n, live' = At(live, p, n)
    PROVE  \E a \in DOMAIN live' : Alloc!Malloc(a, live'[a])
<1> USE SizesHold DEF Sizes
<1>1. /\ DOMAIN live' = DOMAIN live \cup {p} /\ live'[p] = n
      /\ \A q \in DOMAIN live : live'[q] = live[q]
    BY DEF At
<1>2. /\ n \in Nat /\ START + HDR <= p /\ p + n + FTR <= end'
      /\ \A q \in DOMAIN live' : q # p => p + n <= q \/ q + live'[q] <= p
    BY <1>1 DEF Apart
<1>3. end' \in Nat /\ end' <= MAX_END /\ MAX_END \in Nat
    BY HeapAssumption DEF EndInv
<1>4. START <= p /\ p + n <= MAX_END
    BY <1>2, <1>3
<1>5. Alloc!Free(p, n)
    BY <1>1, <1>2 DEF Alloc!Free
<1>6. live' = [q \in DOMAIN live \cup {p} |-> IF q = p THEN n ELSE live[q]]
    BY DEF At
<1>7. Alloc!Malloc(p, n)
    BY <1>4, <1>5, <1>6 DEF Alloc!Malloc
<1> QED
    BY <1>1, <1>7

LEMMA AllocatorStep ==
    ASSUME Disciplined, IInv, (Apart /\ EndInv)', [HNext]_hvars
    PROVE  [Alloc!Next]_live
<1>1. CASE HNext
  <2>1. client' = client /\ client \in Clients
      BY <1>1 DEF HNext, IInv
  <2>2. \A r \in client.kinds : r[1] \in Nat /\ r[2] \in BOOLEAN /\ r[3] \in BOOLEAN
    <3>1. client.kinds \subseteq Nat \X BOOLEAN \X BOOLEAN
        BY <2>1, ClientAssumption
    <3> QED
        BY <3>1
  <2>3. CASE \E r \in client.kinds : Request(r[1], r[2])
      BY <2>3 DEF Request, alloc
  <2>4. CASE \E r \in client.kinds : alloc_take(r[3])
    <3>1. PICK p \in Nat : p \notin DOMAIN live /\ live' = At(live, p, req.size)
        BY <2>1, <2>2, <2>4, TakeStep
    <3> QED
        BY <3>1, MallocStep DEF Alloc!Next
  <2>5. CASE alloc_expand
      BY <2>5 DEF alloc_expand
  <2>6. CASE \E p \in DOMAIN live : Release(p)
    <3>1. PICK p \in DOMAIN live : Release(p)
        BY <2>6
    <3>2. live' = [x \in DOMAIN live \ {p} |-> live[x]]
        BY <2>1, <3>1, FreeStep
    <3> QED
        BY <3>2 DEF Alloc!Next, Alloc!Release
  <2> QED
      BY <1>1, <2>3, <2>4, <2>5, <2>6 DEF HNext
<1>2. CASE UNCHANGED hvars
    BY <1>2 DEF hvars, vars
<1> QED
    BY <1>1, <1>2

\* The heap implements the allocator its callers rely on (module Allocator):
\* every block kmalloc hands out lies in the heap's address range and apart from
\* every other block in use, and no block changes until it is given back.
THEOREM HeapImplementsAllocator == ASSUME Disciplined PROVE Spec => ImplementsAllocator
<1>1. HInit => Alloc!Init
    BY DEF HInit, Init, Alloc!Init
<1>2. IInv => Apart /\ EndInv
    BY ApartHolds DEF IInv
<1>3. IInv /\ (Apart /\ EndInv)' /\ [HNext]_hvars => [Alloc!Next]_live
    BY AllocatorStep
<1> QED
    BY <1>1, <1>2, <1>3, HeapInvariant, PTL DEF Spec, ImplementsAllocator, Alloc!Spec

=============================================================================
