-------------------------------- MODULE Heap --------------------------------
(***************************************************************************)
(* The kernel heap: kernel/libc/memory.c over the ordered array of holes.  *)
(*                                                                         *)
(* Memory is what the allocator can tell apart: where a header (with the   *)
(* magic number) stands, where a footer stands, and nothing else.  Writing *)
(* a header, a footer or a payload over some of their bytes destroys them. *)
(* Sizes are uint32_t, here modulo Word.  ASSERT only prints and goes on,  *)
(* so no assertion guards anything.                                        *)
(*                                                                         *)
(* Every caller in the kernel runs with interrupts off, so each call is    *)
(* atomic; alloc's recursion after expand is two steps (request, retry).   *)
(***************************************************************************)
EXTENDS Integers, Sequences, FiniteSets, OrderedArray

CONSTANTS
    HDR, FTR,    \* sizeof(header_t), sizeof(footer_t)
    PAGE,        \* 0x1000
    Word,        \* 2^32
    START,       \* heap->start_address, page aligned and not in page 0
    INITIAL,     \* initial size of the heap, whole pages
    MIN_SIZE,    \* HEAP_MIN_SIZE
    MAX_END      \* heap->max_address

ASSUME HeapAssumption ==
    /\ {HDR, FTR, PAGE, Word, START, INITIAL, MIN_SIZE, MAX_END} \subseteq Nat
    /\ 0 < HDR /\ 0 < FTR /\ HDR + FTR < PAGE
    /\ PAGE % 2 = 0
    /\ START % PAGE = 0 /\ START >= PAGE
    /\ INITIAL % PAGE = 0
    /\ 0 < MIN_SIZE /\ MIN_SIZE <= INITIAL /\ MIN_SIZE % PAGE = 0
    /\ START + INITIAL <= MAX_END /\ 2 * MAX_END < Word

VARIABLES
    hdr,    \* header address -> [hole, size]
    ftr,    \* footer address -> header address
    index,  \* heap->index, the addresses of the holes
    end,    \* heap->end_address
    backed, \* pages of the heap that have a frame of their own
    live,   \* payload address -> requested size, of the blocks in use
    req,    \* the alloc call in progress
    fault   \* how the allocator left its own data structures, if it did

vars == <<hdr, ftr, index, end, backed, live, req, fault>>

NoReq == [size |-> 0, align |-> FALSE]

\* The allocator's state as one value, for the operators below.
Mem(h, f, x) == [hdr |-> h, ftr |-> f, index |-> x]
Now == Mem(hdr, ftr, index)

Overlap(a, n, b, m) == a < b + m /\ b < a + n

\* What survives a write of n bytes at a.
Keep(f, len, a, n) ==
    [x \in {y \in DOMAIN f : ~Overlap(y, len, a, n)} |-> f[x]]
Wipe(m, a, n) == Mem(Keep(m.hdr, HDR, a, n), Keep(m.ftr, FTR, a, n), m.index)

At(f, a, v) == [x \in DOMAIN f \cup {a} |-> IF x = a THEN v ELSE f[x]]
PutHeader(m, a, hole, size) ==
    LET w == Wipe(m, a, HDR)
    IN  [w EXCEPT !.hdr = At(@, a, [hole |-> hole, size |-> size])]
PutFooter(m, a, header) ==
    LET w == Wipe(m, a, FTR)
    IN  [w EXCEPT !.ftr = At(@, a, header)]

SetSize(m, a, n) == [m EXCEPT !.hdr[a].size = n]

\* An index entry whose header was overwritten reads as some payload bytes.
SizeOf(m, a) == IF a \in DOMAIN m.hdr THEN m.hdr[a].size ELSE 0

insert(m, a) ==
    LET items == {a} \cup {m.index[k] : k \in DOMAIN m.index}
        header_t_less_than == [p \in items \X items |-> SizeOf(m, p[1]) < SizeOf(m, p[2])]
    IN  [m EXCEPT !.index = insert_ordered_array(a, @, header_t_less_than)]
remove_Dropped(m, i) == m                  \* fault: the entry stays
remove(m, i) == [m EXCEPT !.index = remove_ordered_array(i, @)]

U(n)   == n % Word                                  \* uint32_t
S(n) == IF n < Word \div 2 THEN n ELSE n - Word   \* (int) of a uint32_t

-----------------------------------------------------------------------------
(* Finding a hole                                                          *)

\* Distance from a hole to the payload of a page aligned block cut from it.
AlignOffset(a) == PAGE - ((a + HDR) % PAGE)

Fits(m, a, size, align) ==
    IF align THEN S(SizeOf(m, a)) - AlignOffset(a) >= size
             ELSE SizeOf(m, a) >= size

\* Length + 1 when no hole fits (-1 in the code).
find_smallest_hole(m, size, align) ==
    CHOOSE i \in 1 .. Len(m.index) + 1 :
        /\ \A k \in 1 .. i - 1 : ~Fits(m, m.index[k], size, align)
        /\ i <= Len(m.index) => Fits(m, m.index[i], size, align)

Gross(size) == size + HDR + FTR

HoleFor(r) == find_smallest_hole(Now, Gross(r.size), r.align)

-----------------------------------------------------------------------------
(* alloc, when a hole was found                                            *)

\* The hole is used up if the rest could not hold a header and a footer.
TakesWhole_Page(osize, nsize) == U(osize - nsize) < PAGE  \* fault: threshold
TakesWhole(osize, nsize) == U(osize - nsize) < HDR + FTR

\* Where the header of a page aligned block goes.
AlignedAt_NoHeader(pos) == pos + PAGE - (pos % PAGE)      \* fault: aligns the header
AlignedAt(pos) == pos + PAGE - (pos % PAGE) - HDR

\* The hole left in front of a page aligned block stays in the index.
FrontSize(pos) == U(PAGE - (pos % PAGE) - HDR)
CutFront(m, pos) ==
    PutFooter(PutHeader(m, pos, TRUE, FrontSize(pos)), AlignedAt(pos) - FTR, pos)

\* The hole behind the block.
CutBack_Lost(m, pos, rest) == PutHeader(m, pos, TRUE, rest)  \* fault: not indexed
CutBack_NoFooter(m, pos, rest) ==          \* fault: the old footer stays
    insert(PutHeader(m, pos, TRUE, rest), pos)
CutBack(m, pos, rest) ==
    LET footer == pos + rest - FTR
        h == PutHeader(m, pos, TRUE, rest)
        f == IF footer < end THEN PutFooter(h, footer, pos) ELSE h
    IN  insert(f, pos)

\* [mem, ptr]: the memory after alloc(size, align) took hole i, and the result.
Taken(m, i, size, align) ==
    LET hole   == m.index[i]
        osize0 == SizeOf(m, hole)
        whole  == TakesWhole(osize0, Gross(size))
        nsize  == IF whole THEN osize0 ELSE Gross(size)
        len    == nsize - HDR - FTR
        pos    == IF align THEN AlignedAt(hole) ELSE hole
        front  == IF align THEN CutFront(m, hole) ELSE remove(m, i)
        osize  == IF align THEN U(osize0 - SizeOf(front, hole)) ELSE osize0
        block  == PutFooter(PutHeader(front, pos, FALSE, nsize),
                            pos + HDR + len, pos)
        rest   == U(osize - nsize)
    IN  [mem |-> IF rest > 0 THEN CutBack(block, pos + nsize, rest) ELSE block,
         ptr |-> pos + HDR]

-----------------------------------------------------------------------------
(* expand and contract                                                     *)

\* "new_size & 0xFFFFF000 != 0" is new_size & 1: only odd sizes are rounded.
ExpandSize(n) == IF n % 2 = 1 THEN n - (n % PAGE) + PAGE ELSE n

Length == end - START

\* One frame for each 0x1000 step from the old size up to the new one.
ExpandPages_Late(old, new) ==              \* fault: starts one page too late
    {(START + i) \div PAGE :
        i \in {j \in old + PAGE .. new - 1 : (j - old) % PAGE = 0}}
ExpandPages(old, new) ==
    {(START + i) \div PAGE :
        i \in {j \in old .. new - 1 : (j - old) % PAGE = 0}}

\* "new_size & 0x1000": bit 12 only, after which only bit 12 is kept.
ContractSize(n) ==
    LET bit == (n \div PAGE) % 2 = 1
        rounded == IF bit THEN 2 * PAGE ELSE n
    IN  IF rounded < MIN_SIZE THEN MIN_SIZE ELSE rounded

ContractPages(old, new) ==
    {(START + i) \div PAGE :
        i \in {j \in new + 1 .. old - PAGE : (old - j) % PAGE = 0}}

\* alloc after expand: the hole with the highest address grows, wherever it
\* is; without any hole a new one is put at the old end.
TopHole == CHOOSE a \in {index[k] : k \in DOMAIN index} :
                \A k \in DOMAIN index : index[k] <= a
Grown(m, by) ==
    IF index = <<>>
    THEN insert(PutFooter(PutHeader(m, end, TRUE, by), end + by - FTR, end), end)
    ELSE LET n == U(SizeOf(m, TopHole) + by)
         IN  PutFooter(SetSize(m, TopHole, n), TopHole + n - FTR, TopHole)

-----------------------------------------------------------------------------
(* free                                                                    *)

Header(p)  == p - HDR
Footer(p)  == Header(p) + hdr[Header(p)].size - FTR

\* The footer to the left belongs to a hole.
MergesLeft(p) == LET f == Header(p) - FTR
                 IN  f \in DOMAIN ftr /\ ftr[f] \in DOMAIN hdr /\ hdr[ftr[f]].hole
\* The header to the right is one of a hole.
RightOf(p)     == Footer(p) + FTR
MergesRight_Never(p) == FALSE              \* fault: no unification
MergesRight(p) == RightOf(p) \in DOMAIN hdr /\ hdr[RightOf(p)].hole

\* Unify left: [mem, header].
Left(m, p) ==
    LET me == Header(p)
        h  == m.ftr[me - FTR]
    IN  IF MergesLeft(p)
        THEN [mem |-> [SetSize(m, h, U(SizeOf(m, h) + SizeOf(m, me)))
                         EXCEPT !.ftr = IF Footer(p) \in DOMAIN @
                                        THEN [@ EXCEPT ![Footer(p)] = h] ELSE @],
              header |-> h]
        ELSE [mem |-> m, header |-> me]

\* The footer of the absorbed hole becomes ours but keeps pointing to its old
\* header: only the local variable is assigned.
RightMerged_KeepsEntry(m, header, right) ==  \* fault: entry not removed
    SetSize(m, header, U(SizeOf(m, header) + SizeOf(m, right)))
RightMerged(m, header, right) ==
    remove(SetSize(m, header, U(SizeOf(m, header) + SizeOf(m, right))),
           PositionOf(right, m.index))
Right(m, p, header) ==
    LET right == RightOf(p)
    IN  IF MergesRight(p)
        THEN [mem |-> RightMerged(m, header, right),
              footer |-> right + SizeOf(m, right) - FTR]
        ELSE [mem |-> m, footer |-> Footer(p)]

\* The freed block ends at the end of the heap.
Contracted(m, header, right, cut) ==
    LET n == U(SizeOf(m, header) - cut)
        i == PositionOf(right, m.index)
    IN  IF n > 0 THEN PutFooter(SetSize(m, header, n), U(header + n - FTR), header)
        ELSE IF i <= Len(m.index) THEN remove(m, i) ELSE m

\* [mem, end]: the effect of free(p) on the allocator's data.
Freed(p) ==
    LET m0 == [Now EXCEPT !.hdr[Header(p)].hole = TRUE]
        l  == Left(m0, p)
        r  == Right(l.mem, p, l.header)
        atEnd  == r.footer + FTR = end
        newLen == IF atEnd THEN ContractSize(l.header - START) ELSE Length
        m1 == IF atEnd
              THEN Contracted(r.mem, l.header, RightOf(p), Length - newLen)
              ELSE r.mem
        m2 == IF MergesLeft(p) THEN m1 ELSE insert(m1, l.header)
    IN  [mem |-> m2, end |-> START + newLen]

\* The ways in which free reads something that is not its own data: the header
\* a footer points to was overwritten, the header to the right lies in a page
\* without a frame, or an entry is taken from an empty index.
FreeFault(p) ==
    LET f == Header(p) - FTR
    IN  IF f \in DOMAIN ftr /\ ftr[f] \notin DOMAIN hdr THEN "stale_footer"
        ELSE IF RightOf(p) \div PAGE \notin backed THEN "no_frame"
        ELSE IF MergesRight(p) /\ index = <<>> THEN "underflow"
        ELSE "none"

-----------------------------------------------------------------------------
(* create_heap: one hole, written without a footer.                        *)

Init ==
    /\ hdr = At(<<>>, START, [hole |-> TRUE, size |-> INITIAL])
    /\ ftr = <<>>
    /\ index = <<START>>
    /\ end = START + INITIAL
    /\ backed = START \div PAGE .. (START + INITIAL) \div PAGE - 1
    /\ live = <<>>
    /\ req = NoReq
    /\ fault = "none"

Idle == req = NoReq /\ fault = "none"

alloc(size, align) ==
    /\ Idle
    /\ req' = [size |-> size, align |-> align]
    /\ UNCHANGED <<hdr, ftr, index, end, backed, live, fault>>

\* The caller may fill its block or leave the old bytes in it.
alloc_take(fill) ==
    /\ req # NoReq
    /\ HoleFor(req) <= Len(index)
    /\ LET t == Taken(Now, HoleFor(req), req.size, req.align)
           m == IF fill THEN Wipe(t.mem, t.ptr, req.size) ELSE t.mem
       IN  /\ hdr' = m.hdr
           /\ ftr' = m.ftr
           /\ index' = m.index
           /\ live' = At(live, t.ptr, req.size)
    /\ req' = NoReq
    /\ UNCHANGED <<end, backed, fault>>

alloc_expand ==
    /\ req # NoReq
    /\ HoleFor(req) > Len(index)
    /\ LET new == ExpandSize(Length + Gross(req.size))
           m == Grown(Now, new - Length)
       IN  /\ end' = START + new
           /\ backed' = backed \cup ExpandPages(Length, new)
           /\ hdr' = m.hdr
           /\ ftr' = m.ftr
           /\ index' = m.index
    /\ UNCHANGED <<live, req, fault>>

free(p) ==
    /\ Idle
    /\ p \in DOMAIN live
    /\ live' = [x \in DOMAIN live \ {p} |-> live[x]]
    /\ fault' = FreeFault(p)
    /\ IF FreeFault(p) = "none"
       THEN LET f == Freed(p)
            IN  /\ hdr' = f.mem.hdr
                /\ ftr' = f.mem.ftr
                /\ index' = f.mem.index
                /\ end' = f.end
                /\ backed' = backed \ (IF f.end < end
                                       THEN ContractPages(Length, f.end - START)
                                       ELSE {})
       ELSE UNCHANGED <<hdr, ftr, index, end, backed>>
    /\ UNCHANGED req

-----------------------------------------------------------------------------
(* The discipline under which the allocator is right.  It is what the      *)
(* defects of expand, contract and the right merge leave to its callers.   *)

Holes  == {index[k] : k \in DOMAIN index}
Blocks == {Header(p) : p \in DOMAIN live}
Tiles  == Holes \cup Blocks
EndOf(t) == t + hdr[t].size

IsLast(a) == a + SizeOf(Now, a) = end

\* Cutting a block from the hole keeps a last hole, and an aligned block has
\* room for a header and a footer before it and, unless it fits, behind it.
CutSafe(hole, holeSize, size, align) ==
    LET rest == holeSize - Gross(size)
                  - (IF align THEN AlignOffset(hole) ELSE 0)
    IN  /\ IsLast(hole) => rest >= HDR + FTR
        /\ align => /\ (hole % PAGE) + 2 * HDR + FTR <= PAGE
                    /\ rest = 0 \/ rest >= HDR + FTR

\* When no hole fits, the heap must end in a hole for expand to grow, and the
\* new size must be whole pages (an odd size, which expand does round up).
ExpandSafe(size, align) ==
    LET new == ExpandSize(Length + Gross(size))
    IN  /\ index # <<>> /\ IsLast(TopHole)
        /\ new % PAGE = 0
        /\ START + new <= MAX_END
        /\ CutSafe(TopHole, SizeOf(Now, TopHole) + new - Length, size, align)

AllocSafe(size, align) ==
    LET i == find_smallest_hole(Now, Gross(size), align)
    IN  IF i <= Len(index)
        THEN CutSafe(index[i], SizeOf(Now, index[i]), size, align)
        ELSE ExpandSafe(size, align)

MergedHeader(p) == IF MergesLeft(p) THEN ftr[Header(p) - FTR] ELSE Header(p)

\* A block merged with the last hole starts below the minimum size of the heap,
\* and the footer before a block was not left behind by a right merge.
FreeSafe(p) ==
    LET f == Header(p) - FTR
    IN  /\ MergesRight(p) /\ IsLast(RightOf(p)) =>
              MergedHeader(p) - START + HDR + FTR <= MIN_SIZE
        /\ f \in DOMAIN ftr => ftr[f] \in Tiles

-----------------------------------------------------------------------------
(* Properties                                                              *)

\* The holes of the index and the blocks in use tile the heap: each starts with
\* its header, ends where the next one starts, the last one at end_address,
\* nothing is in both sets, nothing is lost between two of them, and every
\* block in use has the room its caller asked for.
Tiling ==
    /\ START \in Tiles
    /\ Holes \cap Blocks = {}
    /\ Cardinality(Holes) = Len(index)
    /\ \A t \in Tiles :
          /\ t \in DOMAIN hdr
          /\ hdr[t].hole = (t \in Holes)
          /\ hdr[t].size >= HDR + FTR
          /\ EndOf(t) \in Tiles \cup {end}
          /\ \A u \in Tiles : t < u => EndOf(t) <= u
    /\ \A p \in DOMAIN live : hdr[Header(p)].size >= Gross(live[p])

\* free always unifies with its neighbours: no two holes are adjacent.
Coalesced == \A t \in Holes : EndOf(t) \notin Holes

\* free never follows a footer to a header that was overwritten, reads beyond
\* the frames of the heap or shrinks an empty index.
NoFault == fault = "none"

\* Every block in use lies in pages that have a frame.
LiveBacked ==
    \A p \in DOMAIN live : \A a \in {p, p + live[p] - 1} : a \div PAGE \in backed

\* A right merge leaves the footer of the merged hole pointing to the hole it
\* absorbed (memory.c:456), but no footer at the end of a hole ever points out of
\* that hole: not to a block in use, which free would make part of a hole.
FootersInside ==
    \A t \in Holes : EndOf(t) - FTR \in DOMAIN ftr =>
        t <= ftr[EndOf(t) - FTR] /\ ftr[EndOf(t) - FTR] < EndOf(t)

\* "Don't contract too far" (memory.c:276): no block in use is cut off.
ContractKeepsLive == \A p \in DOMAIN live : p + live[p] <= end

=============================================================================
