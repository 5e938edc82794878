------------------------- MODULE KernelMemoryProofs -------------------------
(***************************************************************************)
(* Proofs about the memory of the running kernel, for every size of        *)
(* memory, ramdisk and heap: the frames behind its pages, the bitmap, the  *)
(* blocks the heap returns, and what the page directories map and hold.    *)
(***************************************************************************)
EXTENDS KernelMemory, OrderedArrayProofs

\* No bit that initialise_paging cleared is clear any more: from here on
\* first_frame returns what it finds behind them.
Exhausted == Cleared \subseteq frames

\* Only bits that were cleared before have been set, and every present page lies
\* in a frame whose bit is set, one of its own.
FrameInv ==
    /\ IsFiniteSet(frames) /\ frames \subseteq Cleared
    /\ \A t \in DOMAIN tables : \A x \in DOMAIN tables[t] : tables[t][x] \in frames
    /\ \A t, u \in DOMAIN tables : \A x \in DOMAIN tables[t], y \in DOMAIN tables[u] :
          tables[t][x] = tables[u][y] => t = u /\ x = y

FInv == Exhausted \/ FrameInv

-----------------------------------------------------------------------------
(* first_frame and alloc_frame                                             *)

\* first_frame's loop finds the lowest clear bit, if there is one.
LEMMA LowestClear ==
    ASSUME ~Exhausted
    PROVE  \A idx \in first_frame : idx \in Cleared /\ idx \notin frames
<1> DEFINE T == Cleared \ frames
           Less == OpToRel(<, Nat)
<1>1. T \in SUBSET Nat /\ T # {}
    BY DEF Exhausted, Cleared
<1>2. IsWellFoundedOn(Less, Nat)
    BY NatLessThanWellFounded
<1>3. Less = {p \in Nat \X Nat : p[1] < p[2]}
    BY LessOnNat
<1> HIDE DEF T, Less
<1>4. PICK f \in T : \A g \in T : ~(<<g, f>> \in Less)
    BY <1>1, <1>2, WFMin
<1>5. ASSUME NEW g \in T PROVE f <= g
  <2>1. f \in Nat /\ g \in Nat
      BY <1>1, <1>4
  <2>2. ~(g < f)
      BY <1>3, <1>4, <2>1
  <2> QED
      BY <2>1, <2>2
<1> DEFINE low == CHOOSE h \in T : \A g \in T : h <= g
<1>6. low \in T
    BY <1>4, <1>5, Zenon
<1>7. first_frame = {low}
    BY DEF first_frame, Exhausted, T
<1> QED
    BY <1>6, <1>7 DEF T

LEMMA SetFrame ==
    ASSUME NEW idx \in Nat PROVE set_frame(idx * FRAME_SIZE) = frames \cup {idx}
<1>1. (idx * 4096) \div 4096 = idx
    OBVIOUS
<1> QED
    BY <1>1 DEF set_frame, FRAME_SIZE

\* What a step does to frames and tables.
FrameStep == frames \subseteq frames' /\ FInv'

LEMMA SameFrames ==
    ASSUME FInv, UNCHANGED <<frames, tables>> PROVE FrameStep
BY DEF FInv, FrameInv, Exhausted, FrameStep, Cleared

\* A page that has no frame is given one that no other page has.
LEMMA AllocFrameStep ==
    ASSUME FInv, NEW table, NEW x, alloc_frame(table, x)
    PROVE  FrameStep
<1>1. CASE Frame(table, x) # 0
    BY <1>1, SameFrames DEF alloc_frame
<1>2. CASE Frame(table, x) = 0
  <2>1. PICK idx \in first_frame :
            /\ frames' = set_frame(idx * FRAME_SIZE)
            /\ tables' = [tables EXCEPT ![table] = Put(tables[table], x, idx)]
      BY <1>2 DEF alloc_frame
  <2>2. idx \in Nat
    <3>1. NFRAMES \in Nat
        BY PagingAssumption
    <3>2. CASE Exhausted
        BY <2>1, <3>1, <3>2 DEF first_frame, Exhausted
    <3>3. CASE ~Exhausted
        BY <2>1, <3>3, LowestClear DEF Cleared
    <3> QED
        BY <3>2, <3>3
  <2>3. frames' = frames \cup {idx}
      BY <2>1, <2>2, SetFrame
  <2>4. CASE Exhausted
      BY <2>3, <2>4 DEF Exhausted, FInv, FrameStep, Cleared
  <2>5. CASE ~Exhausted
    <3>1. FrameInv /\ idx \notin frames
        BY <2>1, <2>5, LowestClear DEF FInv
    <3>2. IsFiniteSet(frames')
        BY <2>3, <3>1, FS_AddElement DEF FrameInv
    <3>9. frames' \subseteq Cleared
        BY <2>1, <2>3, <2>5, <3>1, LowestClear DEF FrameInv
    <3> DEFINE new == Put(tables[table], x, idx)
    <3>3. /\ DOMAIN new = DOMAIN tables[table] \cup {x} /\ new[x] = idx
          /\ \A y \in DOMAIN tables[table] : y # x => new[y] = tables[table][y]
        BY DEF Put
    <3>4. /\ DOMAIN tables' = DOMAIN tables
          /\ \A t \in DOMAIN tables : tables'[t] = IF t = table THEN new ELSE tables[t]
        BY <2>1
    <3> HIDE DEF new
    <3>5. ASSUME NEW t \in DOMAIN tables', NEW y \in DOMAIN tables'[t]
          PROVE  /\ t \in DOMAIN tables
                 /\ \/ t = table /\ y = x /\ tables'[t][y] = idx
                    \/ /\ ~(t = table /\ y = x)
                       /\ y \in DOMAIN tables[t] /\ tables'[t][y] = tables[t][y]
        BY <3>3, <3>4, <3>5
    <3>6. ASSUME NEW t \in DOMAIN tables', NEW y \in DOMAIN tables'[t]
          PROVE  tables'[t][y] \in frames'
        BY <2>3, <3>1, <3>5, <3>6 DEF FrameInv
    <3>7. ASSUME NEW t \in DOMAIN tables', NEW u \in DOMAIN tables',
                 NEW y \in DOMAIN tables'[t], NEW z \in DOMAIN tables'[u],
                 tables'[t][y] = tables'[u][z]
          PROVE  t = u /\ y = z
      <4>1. /\ t \in DOMAIN tables
            /\ \/ t = table /\ y = x /\ tables'[t][y] = idx
               \/ /\ ~(t = table /\ y = x)
                  /\ y \in DOMAIN tables[t] /\ tables'[t][y] = tables[t][y]
          BY <3>5, <3>7
      <4>2. /\ u \in DOMAIN tables
            /\ \/ u = table /\ z = x /\ tables'[u][z] = idx
               \/ /\ ~(u = table /\ z = x)
                  /\ z \in DOMAIN tables[u] /\ tables'[u][z] = tables[u][z]
          BY <3>5, <3>7
      <4> QED
          BY <3>1, <3>7, <4>1, <4>2 DEF FrameInv
    <3>8. FrameInv'
        BY <3>2, <3>6, <3>7, <3>9 DEF FrameInv, Cleared
    <3> QED
        BY <2>3, <3>8 DEF FInv, FrameStep
  <2> QED
      BY <2>4, <2>5
<1> QED
    BY <1>1, <1>2

\* A new table has no page yet, wherever it was placed.
LEMMA NewTableStep ==
    ASSUME FInv, UNCHANGED frames, NEW at, tables' = Put(tables, at, <<>>)
    PROVE  FrameStep
<1>1. CASE Exhausted
    BY <1>1 DEF Exhausted, FInv, FrameStep, Cleared
<1>2. CASE ~Exhausted
  <2>1. FrameInv
      BY <1>2 DEF FInv
  <2>2. ASSUME NEW t \in DOMAIN tables', NEW y \in DOMAIN tables'[t]
        PROVE  t \in DOMAIN tables /\ y \in DOMAIN tables[t] /\ tables'[t] = tables[t]
    <3>1. DOMAIN <<>> = {}
        OBVIOUS
    <3>2. tables'[t] = IF t = at THEN <<>> ELSE tables[t]
        BY DEF Put
    <3>3. t # at
        BY <2>2, <3>1, <3>2
    <3> QED
        BY <2>2, <3>2, <3>3 DEF Put
  <2>3. FrameInv'
      BY <2>1, <2>2 DEF FrameInv, Cleared
  <2> QED
      BY <2>3 DEF FInv, FrameStep
<1> QED
    BY <1>1, <1>2

-----------------------------------------------------------------------------
(* The steps of the kernel                                                 *)

\* What the caller of kmalloc does with its block adds at most a new table.
LEMMA PlacedStep ==
    ASSUME FInv, UNCHANGED frames, NEW at, NEW phys, Placed(at, phys)
    PROVE  FrameStep
<1>1. \/ tables' = Put(tables, at, <<>>)
      \/ tables' = tables
  <2>1. CASE Current.what = "table"
      BY <2>1 DEF Placed, NewTable
  <2>2. CASE Current.what = "directory"
      BY <2>2 DEF Placed
  <2>3. CASE Current.what = "kernel_directory"
      BY <2>3 DEF Placed
  <2>4. CASE Current.what \notin {"table", "directory", "kernel_directory"}
      BY <2>4 DEF Placed
  <2> QED
      BY <2>1, <2>2, <2>3, <2>4
<1> QED
    BY <1>1, NewTableStep, SameFrames

LEMMA EveryStep ==
    ASSUME FInv, [KNext]_kvars
    PROVE  FrameStep
<1>1. CASE kmalloc_placement
    BY <1>1, PlacedStep DEF kmalloc_placement
<1>2. CASE kmalloc_return
    BY <1>2, PlacedStep DEF kmalloc_return
<1>3. CASE get_page_there
    BY <1>3, AllocFrameStep, SameFrames DEF get_page_there
<1>4. CASE clone_page
    BY <1>4, AllocFrameStep DEF clone_page
<1>5. CASE kmalloc \/ get_page_make \/ identity_map \/ heap_map \/ move_stack
    BY <1>5, SameFrames
       DEF kmalloc, get_page_make, identity_map, heap_map, move_stack, pvars
<1>6. CASE create_heap \/ __exec \/ schedule
    BY <1>6, SameFrames DEF create_heap, __exec, schedule
<1>7. CASE kill_directory \/ kill_process \/ command_page
    BY <1>7, SameFrames DEF kill_directory, kill_process, command_page, pvars
<1>8. CASE UNCHANGED kvars
    BY <1>8, SameFrames DEF kvars, pvars
<1> QED
    BY <1>1, <1>2, <1>3, <1>4, <1>5, <1>6, <1>7, <1>8 DEF KNext

-----------------------------------------------------------------------------
(* The steps that are still to be taken                                    *)

\* Neither of the requests that place the bitmap and the kernel's directory; a
\* request for a directory, a table or a page asks for an aligned block.
Plain(x) ==
    x.op = "kmalloc" =>
        /\ x.what \notin {"frames", "kernel_directory"}
        /\ x.size \in Nat /\ x.align \in BOOLEAN
        /\ x.what \in {"directory", "table", "page"} => x.align

\* From its j-th step on, the script has plain steps only.
From(s, j) ==
    /\ \E Elems : s \in Seq(Elems)
    /\ j - 1 <= Len(s)
    /\ \A x \in j .. Len(s) : Plain(s[x])

\* u = s \o t, entry by entry.
LEMMA Concat ==
    ASSUME NEW Elems, NEW s \in Seq(Elems), NEW t \in Seq(Elems), NEW u, u = s \o t
    PROVE  /\ u \in Seq(Elems) /\ Len(u) = Len(s) + Len(t) /\ Len(s) \in Nat /\ Len(t) \in Nat
           /\ \A x \in 1 .. Len(s) : u[x] = s[x]
           /\ \A x \in 1 .. Len(t) : u[Len(s) + x] = t[x]
OBVIOUS

LEMMA JoinFrom ==
    ASSUME NEW s, NEW t, NEW j \in Nat \ {0}, From(s, j), From(t, 1),
           NEW u, u = s \o t
    PROVE  From(u, j)
<1>1. PICK A : s \in Seq(A)
    BY DEF From
<1>2. PICK B : t \in Seq(B)
    BY DEF From
<1> DEFINE Elems == A \cup B
<1>3. s \in Seq(Elems) /\ t \in Seq(Elems)
    BY <1>1, <1>2
<1> HIDE DEF Elems
<1>4. /\ u \in Seq(Elems) /\ Len(u) = Len(s) + Len(t) /\ Len(s) \in Nat /\ Len(t) \in Nat
      /\ \A x \in 1 .. Len(s) : u[x] = s[x]
      /\ \A x \in 1 .. Len(t) : u[Len(s) + x] = t[x]
    BY ONLY <1>3, u = s \o t, Concat
<1>5. ASSUME NEW x \in j .. Len(u) PROVE Plain(u[x])
  <2>1. CASE x <= Len(s)
    <3>1. x \in 1 .. Len(s) /\ x \in j .. Len(s)
        BY <1>4, <1>5, <2>1
    <3>2. u[x] = s[x] /\ Plain(s[x])
        BY <1>4, <3>1 DEF From
    <3> QED
        BY <3>2
  <2>2. CASE x > Len(s)
    <3> DEFINE y == x - Len(s)
    <3>1. y \in 1 .. Len(t) /\ x = Len(s) + y
        BY <1>4, <1>5, <2>2
    <3> HIDE DEF y
    <3>2. u[x] = t[y] /\ Plain(t[y])
        BY <1>4, <3>1 DEF From
    <3> QED
        BY <3>2
  <2> QED
      BY <1>4, <1>5, <2>1, <2>2
<1>6. j - 1 <= Len(s) /\ j - 1 <= Len(u)
    BY <1>4 DEF From
<1> QED
    BY <1>4, <1>5, <1>6 DEF From

LEMMA TailFrom ==
    ASSUME NEW s, NEW j \in Nat \ {0}, From(s, j), s # <<>>, NEW l \in Nat \ {0},
           l = IF j = 1 THEN 1 ELSE j - 1, NEW t, t = Tail(s)
    PROVE  From(t, l)
<1>1. PICK Elems : s \in Seq(Elems)
    BY DEF From
<1>2. /\ t \in Seq(Elems) /\ Len(t) = Len(s) - 1 /\ Len(s) \in Nat \ {0}
      /\ \A x \in 1 .. Len(t) : t[x] = s[x + 1]
    BY <1>1
<1>3. ASSUME NEW x \in l .. Len(t) PROVE Plain(t[x])
  <2> DEFINE y == x + 1
  <2>1. y \in j .. Len(s) /\ x \in 1 .. Len(t)
      BY <1>2, <1>3
  <2> HIDE DEF y
  <2>2. t[x] = s[y]
      BY <1>2, <2>1 DEF y
  <2> QED
      BY <2>1, <2>2 DEF From
<1>4. l - 1 <= Len(t)
    BY <1>2 DEF From
<1> QED
    BY <1>2, <1>3, <1>4 DEF From

LEMMA PlainList ==
    ASSUME NEW m \in Nat, NEW f, f = [k \in 1 .. m |-> f[k]], \A k \in 1 .. m : Plain(f[k])
    PROVE  From(f, 1)
<1> DEFINE Elems == {f[k] : k \in 1 .. m}
<1>1. f \in Seq(Elems) /\ Len(f) = m
    OBVIOUS
<1> QED
    BY <1>1 DEF From

LEMMA PlainNone == From(<<>>, 1)
<1>1. <<>> \in Seq({}) /\ Len(<<>>) = 0
    OBVIOUS
<1> QED
    BY <1>1 DEF From

LEMMA PlainOne ==
    ASSUME NEW a, Plain(a) PROVE From(<<a>>, 1)
<1> DEFINE s == <<a>>
<1>1. s \in Seq({a}) /\ Len(s) = 1 /\ s[1] = a
    OBVIOUS
<1> HIDE DEF s
<1>2. From(s, 1)
    BY <1>1 DEF From
<1> QED
    BY <1>2 DEF s

LEMMA PlainTwo ==
    ASSUME NEW a, NEW b, Plain(a), Plain(b) PROVE From(<<a, b>>, 1)
<1> DEFINE s == <<a, b>>
<1>1. s \in Seq({a, b}) /\ Len(s) = 2 /\ s[1] = a /\ s[2] = b
    OBVIOUS
<1> HIDE DEF s
<1>2. \A x \in 1 .. Len(s) : Plain(s[x])
    BY <1>1
<1>3. From(s, 1)
    BY <1>1, <1>2 DEF From
<1> QED
    BY <1>3 DEF s

LEMMA PlainThree ==
    ASSUME NEW a, NEW b, NEW d, Plain(a), Plain(b), Plain(d) PROVE From(<<a, b, d>>, 1)
<1> DEFINE s == <<a, b, d>>
<1>1. s \in Seq({a, b, d}) /\ Len(s) = 3 /\ s[1] = a /\ s[2] = b /\ s[3] = d
    OBVIOUS
<1> HIDE DEF s
<1>2. \A x \in 1 .. Len(s) : Plain(s[x])
    BY <1>1
<1>3. From(s, 1)
    BY <1>1, <1>2 DEF From
<1> QED
    BY <1>3 DEF s

\* The steps the kernel puts into its script are plain ones.
LEMMA PlainSteps ==
    /\ \A pid, fill : \A size \in Nat, align \in BOOLEAN :
          \A what \in {"stack", "process", "node", "heap_t"} :
             Plain(Request(what, pid, size, align, fill))
    /\ \A pid, fill : \A size \in Nat : \A what \in {"directory", "page"} :
          Plain(Request(what, pid, size, TRUE, fill))
    /\ \A dir, slot, src : Plain(MakeTable(dir, slot, src))
    /\ \A dir, page, alloc_it : Plain(GetPage(dir, page, alloc_it))
    /\ \A table, i : Plain(AllocFrame(table, i))
    /\ \A page, alloc_it : Plain(HeapLoop(page, alloc_it))
    /\ \A page : Plain(IdentityLoop(page))
    /\ \A name \in {"create_heap", "move_stack", "exec"} : Plain(Step(name))
BY DEF Plain, Request, MakeTable, GetPage, AllocFrame, HeapLoop, IdentityLoop, Step, TABLE_SIZE

\* A loop over slots or pages puts finitely many steps in front.
LEMMA InOrderLength ==
    ASSUME NEW is, is \subseteq 0 .. ENTRIES - 1
    PROVE  \E m \in Nat : DOMAIN InOrder(is) = 1 .. m
<1> DEFINE last == ENTRIES - 1
<1>0. 0 \in Int /\ last \in Int
    BY DEF ENTRIES
<1> HIDE DEF last
<1>3. IsFiniteSet(0 .. last)
    BY <1>0, FS_Interval
<1>1. IsFiniteSet(0 .. ENTRIES - 1)
    BY <1>3 DEF last
<1>2. Cardinality(is) \in Nat
    BY <1>1, FS_Subset, FS_CardinalityType
<1> QED
    BY <1>2 DEF InOrder

-----------------------------------------------------------------------------
(* The bitmap lies before the kernel's directory                           *)

Display == Request("display", 0, DISPLAY_SIZE, FALSE, FALSE)
Bitmap  == Request("frames", 0, BitmapBytes, FALSE, TRUE)
KDir    == Request("kernel_directory", 0, DIRECTORY_SIZE, TRUE, TRUE)

\* The requests before the heap, as far as the kernel's directory.
Placing ==
    /\ kernel_directory = 0 /\ ~kheap /\ req = NoReq /\ free_mem_addr \in Nat
    /\ \/ From(script, 4) /\ script[1] = Display /\ script[2] = Bitmap /\ script[3] = KDir
       \/ From(script, 3) /\ script[1] = Bitmap /\ script[2] = KDir
       \/ /\ From(script, 2) /\ script[1] = KDir
          /\ bitmap \in Nat /\ bitmap + BitmapBytes <= free_mem_addr
\* The directory is placed, behind the bitmap; a request in progress is the
\* step at the head of the script.
Behind ==
    /\ bitmap \in Nat /\ kernel_directory \in Nat
    /\ bitmap + BitmapBytes <= kernel_directory * PAGE
    /\ From(script, 1)
    /\ req # NoReq => /\ kheap /\ Doing("kmalloc")
                      /\ req = [size |-> Current.size, align |-> Current.align]

BitmapInv == Placing \/ Behind

LEMMA Sizes ==
    /\ PAGE \in Nat /\ PAGE > 0 /\ NFRAMES \in Nat
    /\ BitmapBytes \in Nat /\ DISPLAY_SIZE \in Nat
BY HeapAssumption, PagingAssumption DEF BitmapBytes, INDEX_FROM_BIT, DISPLAY_SIZE

\* The kernel's first three requests, and nothing but plain steps behind them.
Boots(s) == From(s, 4) /\ s[1] = Display /\ s[2] = Bitmap /\ s[3] = KDir

LEMMA BootsJoin ==
    ASSUME NEW s, NEW t, Boots(s), From(t, 1), NEW u, u = s \o t
    PROVE  Boots(u)
<1>1. From(u, 4)
  <2>1. From(s, 4) /\ 4 \in Nat \ {0}
      BY DEF Boots
  <2> QED
      BY <2>1, JoinFrom
<1>2. PICK A : s \in Seq(A)
    BY DEF Boots, From
<1>3. PICK B : t \in Seq(B)
    BY DEF From
<1> DEFINE Elems == A \cup B
<1>4. s \in Seq(Elems) /\ t \in Seq(Elems)
    BY <1>2, <1>3
<1> HIDE DEF Elems
<1>5. Len(s) \in Nat /\ \A x \in 1 .. Len(s) : u[x] = s[x]
    BY ONLY <1>4, u = s \o t, Concat
<1>6. 3 <= Len(s)
    BY <1>5 DEF Boots, From
<1>7. u[1] = s[1] /\ u[2] = s[2] /\ u[3] = s[3]
    BY ONLY <1>5, <1>6
<1> QED
    BY <1>1, <1>7 DEF Boots

LEMMA BootScript == Boots(kernel_main)
<1> DEFINE a1 == <<Display>>
           r4 == HeapLoop(0, FALSE)
           r5 == IdentityLoop(0)
           r6 == HeapLoop(0, TRUE)
           r7 == Request("heap_t", 0, HEAP_T_SIZE, FALSE, TRUE)
           r8 == Step("create_heap")
           r9 == CloneDirectory(0)
           a2 == a1 \o initialise_paging
           a3 == a2 \o initialise_initrd
           a4 == a3 \o <<Step("move_stack")>>
           a5 == a4 \o createProcess(1)
           a6 == a5 \o createProcess(2)
           a7 == a6 \o createProcess(3)
           a8 == a7 \o <<Step("exec")>>
<1>1. Plain(r4) /\ Plain(r5) /\ Plain(r6) /\ Plain(r7) /\ Plain(r8) /\ Plain(r9)
    BY DEF Plain, Request, HeapLoop, IdentityLoop, Step, CloneDirectory, DIRECTORY_SIZE, HEAP_T_SIZE
<1>2. initialise_paging = <<Bitmap, KDir, r4, r5, r6, r7, r8, r9>>
    BY DEF initialise_paging, Bitmap, KDir
<1>3. kernel_main = a8
    BY DEF kernel_main, Display
<1> HIDE DEF r4, r5, r6, r7, r8, r9
<1>4. From(a2, 4) /\ a2[1] = Display /\ a2[2] = Bitmap /\ a2[3] = KDir
  <2> DEFINE Elems == {Display, Bitmap, KDir, r4, r5, r6, r7, r8, r9}
             p == <<Bitmap, KDir, r4, r5, r6, r7, r8, r9>>
  <2>1. /\ p \in Seq(Elems) /\ Len(p) = 8 /\ p[1] = Bitmap /\ p[2] = KDir /\ p[3] = r4
        /\ p[4] = r5 /\ p[5] = r6 /\ p[6] = r7 /\ p[7] = r8 /\ p[8] = r9
      OBVIOUS
  <2>2. a1 \in Seq(Elems) /\ Len(a1) = 1 /\ a1[1] = Display
      OBVIOUS
  <2>3. a2 = a1 \o p
      BY <1>2
  <2> HIDE DEF Elems, p, a1, a2
  <2>4. /\ a2 \in Seq(Elems) /\ Len(a2) = 9 /\ a2[1] = a1[1]
        /\ \A x \in 1 .. 8 : a2[1 + x] = p[x]
    <3>1. /\ a2 \in Seq(Elems) /\ Len(a2) = Len(a1) + Len(p)
          /\ \A x \in 1 .. Len(a1) : a2[x] = a1[x]
          /\ \A x \in 1 .. Len(p) : a2[Len(a1) + x] = p[x]
      <4>1. a1 \in Seq(Elems) /\ p \in Seq(Elems) /\ a2 = a1 \o p
          BY <2>1, <2>2, <2>3
      <4> QED
          BY ONLY <4>1, Concat
    <3> QED
        BY ONLY <2>1, <2>2, <3>1
  <2>5. /\ a2[1] = Display /\ a2[2] = Bitmap /\ a2[3] = KDir /\ a2[4] = r4 /\ a2[5] = r5
        /\ a2[6] = r6 /\ a2[7] = r7 /\ a2[8] = r8 /\ a2[9] = r9
    <3>1. /\ a2[1 + 1] = p[1] /\ a2[1 + 2] = p[2] /\ a2[1 + 3] = p[3] /\ a2[1 + 4] = p[4]
          /\ a2[1 + 5] = p[5] /\ a2[1 + 6] = p[6] /\ a2[1 + 7] = p[7] /\ a2[1 + 8] = p[8]
        BY <2>4
    <3> QED
        BY <2>1, <2>2, <2>4, <3>1
  <2>6. \A x \in 4 .. 9 : Plain(a2[x])
      BY <1>1, <2>5
  <2> QED
      BY <2>4, <2>5, <2>6 DEF From
<1>5. From(initialise_initrd, 1)
  <2> DEFINE x1 == Request("node", 0, NODE_SIZE, FALSE, FALSE)
             x2 == Request("node", 0, NODE_SIZE * NFILES, FALSE, FALSE)
  <2>1. NODE_SIZE \in Nat /\ NODE_SIZE * NFILES \in Nat
      BY KernelMemoryAssumption DEF NODE_SIZE
  <2>2. Plain(x1) /\ Plain(x2)
      BY <2>1, PlainSteps
  <2>3. initialise_initrd = <<x1, x1, x2>>
      BY DEF initialise_initrd
  <2> HIDE DEF x1, x2
  <2> QED
      BY <2>2, <2>3, PlainThree
<1>6. From(<<Step("move_stack")>>, 1) /\ From(<<Step("exec")>>, 1)
    BY PlainSteps, PlainOne
<1>7. \A pid : From(createProcess(pid), 1)
  <2> SUFFICES ASSUME NEW pid PROVE From(createProcess(pid), 1)
      OBVIOUS
  <2> DEFINE x1 == Request("process", pid, PROCESS_SIZE, FALSE, TRUE)
             x2 == CloneDirectory(pid)
             x3 == Request("stack", pid, 4096, FALSE, FALSE)
  <2>1. Plain(x1) /\ Plain(x2) /\ Plain(x3)
      BY DEF CloneDirectory, Plain, Request, DIRECTORY_SIZE, PROCESS_SIZE
  <2>2. createProcess(pid) = <<x1, x2, x3>>
      BY DEF createProcess
  <2> HIDE DEF x1, x2, x3
  <2>3. From(<<x1, x2, x3>>, 1)
      BY ONLY <2>1, PlainThree
  <2> QED
      BY <2>2, <2>3
<1> HIDE DEF a2
<1>9. Boots(a2)
    BY <1>4 DEF Boots
<1>10. Boots(a3)
    BY <1>5, BootsJoin, <1>9
<1>11. Boots(a4)
    BY <1>6, BootsJoin, <1>10
<1> HIDE DEF a3, a4
<1>12. Boots(a5)
    BY <1>7, BootsJoin, <1>11
<1> HIDE DEF a5
<1>13. Boots(a6)
    BY <1>7, BootsJoin, <1>12
<1> HIDE DEF a6
<1>14. Boots(a7)
    BY <1>7, BootsJoin, <1>13
<1> HIDE DEF a7
<1>15. Boots(a8)
    BY <1>6, BootsJoin, <1>14
<1> QED
    BY <1>3, <1>15 DEF Boots

\* The end of a step's own work: the rest of the script is as plain as it was.
LEMMA RestFrom ==
    ASSUME From(script, 1), script # <<>>
    PROVE  From(Tail(script), 1)
<1>1. 1 \in Nat \ {0} /\ 1 = IF 1 = 1 THEN 1 ELSE 1 - 1
    OBVIOUS
<1> QED
    BY <1>1, TailFrom

\* Steps in front of a plain rest.
LEMMA InFront ==
    ASSUME NEW s, From(s, 1), NEW t, From(t, 1) PROVE From(s \o t, 1)
<1>1. 1 \in Nat \ {0}
    OBVIOUS
<1> QED
    BY <1>1, JoinFrom

\* The first request of the script is taken off.
LEMMA OneDone ==
    ASSUME NEW j \in {2, 3, 4}, From(script, j)
    PROVE  /\ script # <<>> /\ Head(script) = script[1]
           /\ From(Tail(script), j - 1)
           /\ j > 2 => Tail(script)[1] = script[2]
           /\ j > 3 => Tail(script)[2] = script[3]
<1>1. PICK Elems : script \in Seq(Elems)
    BY DEF From
<1>2. Len(script) \in Nat /\ j - 1 <= Len(script)
    BY <1>1 DEF From
<1>3. script # <<>> /\ Head(script) = script[1]
    BY <1>1, <1>2
<1>4. From(Tail(script), j - 1)
  <2> DEFINE l == j - 1
  <2>1. j \in Nat \ {0} /\ l \in Nat \ {0} /\ l = IF j = 1 THEN 1 ELSE j - 1
      OBVIOUS
  <2> HIDE DEF l
  <2>2. From(Tail(script), l)
      BY <1>3, <2>1, TailFrom
  <2> QED
      BY <2>2 DEF l
<1>5. \A x \in 1 .. Len(script) - 1 : Tail(script)[x] = script[x + 1]
    BY <1>1
<1>6. j > 2 => Tail(script)[1] = script[2]
    BY <1>2, <1>5
<1>7. j > 3 => Tail(script)[2] = script[3]
    BY <1>2, <1>5
<1> QED
    BY <1>3, <1>4, <1>6, <1>7

LEMMA DivMod ==
    ASSUME NEW m \in Nat, NEW d \in Nat, d > 0
    PROVE  /\ m = d * (m \div d) + (m % d)
           /\ m \div d \in Nat /\ m % d \in Nat /\ m % d < d
OBVIOUS

\* A page aligned address is given by its page number.
LEMMA AlignedPage ==
    ASSUME NEW a \in Nat
    PROVE  /\ AlignUp(a) \in Nat /\ a <= AlignUp(a)
           /\ AlignUp(a) \div PAGE \in Nat
           /\ (AlignUp(a) \div PAGE) * PAGE = AlignUp(a)
<1> DEFINE q == a \div PAGE
           r == a % PAGE
           u == AlignUp(a)
<1>1. a = PAGE * q + r /\ q \in Nat /\ r \in Nat /\ r < PAGE
    BY Sizes, DivMod
<1>2. u = IF r = 0 THEN a ELSE a - r + PAGE
    BY DEF AlignUp
<1> HIDE DEF q, r, u
<1>3. \E p \in Nat : u = PAGE * p
  <2>1. CASE r = 0
      BY <1>1, <1>2, <2>1, Sizes
  <2>2. CASE r # 0
    <3>1. PAGE * (q + 1) = PAGE * q + PAGE
        BY <1>1, Sizes
    <3>2. u = PAGE * (q + 1)
        BY <1>1, <1>2, <2>2, <3>1, Sizes
    <3> QED
        BY <1>1, <3>2
  <2> QED
      BY <2>1, <2>2
<1>4. PICK p \in Nat : u = PAGE * p
    BY <1>3
<1>5. u \in Nat /\ a <= u
    BY <1>1, <1>2, Sizes
<1>6. u \div PAGE = p
  <2>1. \A d \in Nat, x \in Nat : d > 0 => (d * x) \div d = x
      OBVIOUS
  <2> QED
      BY <1>4, <2>1, Sizes
<1>7. p * PAGE = PAGE * p
    BY Sizes
<1> QED
    BY <1>4, <1>5, <1>6, <1>7 DEF u

\* What the caller of kmalloc puts in front of a plain script is plain.
LEMMA PlacedPlain ==
    ASSUME From(script, 1), Doing("kmalloc"), NEW at, NEW phys, Placed(at, phys)
    PROVE  /\ From(script', 1) /\ kernel_directory' = kernel_directory
           /\ Current.what # "frames"
<1>1. script # <<>> /\ Current.op = "kmalloc"
    BY DEF Doing, Current
<1>2. Plain(Current)
  <2>1. PICK Elems : script \in Seq(Elems)
      BY DEF From
  <2>2. 1 \in 1 .. Len(script) /\ Head(script) = script[1]
      BY <1>1, <2>1
  <2> QED
      BY <2>2 DEF From, Current
<1>3. Current.what \notin {"frames", "kernel_directory"}
    BY <1>1, <1>2 DEF Plain
<1>4. From(Tail(script), 1)
    BY <1>1, RestFrom
<1>5. CASE Current.what = "table"
  <2> DEFINE is == InOrder(FramesToCopy(Current.src))
             g == [k \in DOMAIN is |-> AllocFrame(at, is[k])]
             f == IF Current.src = 0 THEN <<>> ELSE g
  <2>1. script' = f \o Tail(script) /\ kernel_directory' = kernel_directory
      BY <1>5 DEF Placed
  <2>2. \E m \in Nat : DOMAIN is = 1 .. m
      BY InOrderLength DEF FramesToCopy
  <2>3. From(g, 1)
    <3>1. PICK m \in Nat : DOMAIN is = 1 .. m
        BY <2>2
    <3>2. g = [k \in 1 .. m |-> g[k]] /\ \A k \in 1 .. m : Plain(g[k])
        BY <3>1, PlainSteps
    <3> HIDE DEF g
    <3> QED
        BY <3>2, PlainList
  <2> HIDE DEF g
  <2>4. From(f, 1)
      BY <2>3, PlainNone
  <2> HIDE DEF f
  <2>5. From(f \o Tail(script), 1)
      BY <1>4, <2>4, InFront
  <2> QED
      BY <1>3, <2>1, <2>5
<1>6. CASE Current.what = "directory"
  <2> DEFINE is == InOrder(Cloned(kernel_directory, cr3))
             g == [k \in DOMAIN is |-> MakeTable(at, is[k], dirs[cr3].tables[is[k]])]
  <2>1. script' = g \o Tail(script) /\ kernel_directory' = kernel_directory
      BY <1>6 DEF Placed
  <2>2. \E m \in Nat : DOMAIN is = 1 .. m
      BY InOrderLength DEF Cloned
  <2>3. From(g, 1)
    <3>1. PICK m \in Nat : DOMAIN is = 1 .. m
        BY <2>2
    <3>2. g = [k \in 1 .. m |-> g[k]] /\ \A k \in 1 .. m : Plain(g[k])
        BY <3>1, PlainSteps
    <3> HIDE DEF g
    <3> QED
        BY <3>2, PlainList
  <2> HIDE DEF g
  <2>4. From(g \o Tail(script), 1)
      BY <1>4, <2>3, InFront
  <2> QED
      BY <1>3, <2>1, <2>4
<1>7. CASE Current.what \notin {"table", "directory"}
  <2>1. script' = Tail(script) /\ kernel_directory' = kernel_directory
      BY <1>3, <1>7 DEF Placed
  <2> QED
      BY <1>3, <1>4, <2>1
<1> QED
    BY <1>5, <1>6, <1>7

LEMMA SameScript ==
    ASSUME BitmapInv, UNCHANGED <<script, BootVars, req>>
    PROVE  BitmapInv'
<1>1. /\ script' = script /\ req' = req /\ bitmap' = bitmap /\ kheap' = kheap
      /\ free_mem_addr' = free_mem_addr /\ kernel_directory' = kernel_directory
    BY DEF BootVars
<1>2. From(script, 1)' = From(script, 1) /\ Doing("kmalloc")' = Doing("kmalloc")
    BY <1>1 DEF From, Plain, Doing
<1>5. Current' = Current
    BY <1>1 DEF Current
<1>3. CASE Placing
  <2>1. /\ From(script, 4)' = From(script, 4) /\ From(script, 3)' = From(script, 3)
        /\ From(script, 2)' = From(script, 2)
      BY <1>1 DEF From, Plain
  <2> QED
      BY <1>1, <1>3, <2>1 DEF BitmapInv, Placing, Display, Bitmap, KDir, Request, BitmapBytes
<1>4. CASE Behind
    BY <1>1, <1>2, <1>4, <1>5 DEF BitmapInv, Behind, BitmapBytes, NoReq
<1> QED
    BY <1>3, <1>4 DEF BitmapInv

\* While the first requests are placed, nothing else runs.
LEMMA PlacingStep ==
    ASSUME Placing, KNext PROVE BitmapInv'
<1>0. /\ Display.op = "kmalloc" /\ Display.what = "display" /\ Display.align = FALSE
      /\ Display.size = DISPLAY_SIZE
      /\ Bitmap.op = "kmalloc" /\ Bitmap.what = "frames" /\ Bitmap.align = FALSE
      /\ Bitmap.size = BitmapBytes
      /\ KDir.op = "kmalloc" /\ KDir.what = "kernel_directory" /\ KDir.align = TRUE
    BY DEF Display, Bitmap, KDir, Request
<1>1. script # <<>> /\ Head(script) = script[1] /\ Head(script).op = "kmalloc"
  <2>1. PICK j \in {2, 3, 4} : From(script, j)
      BY DEF Placing
  <2>2. script # <<>> /\ Head(script) = script[1]
      BY <2>1, OneDone
  <2>3. script[1] \in {Display, Bitmap, KDir}
      BY DEF Placing
  <2> QED
      BY <1>0, <2>2, <2>3
<1>2. CASE kill_process
  <2>1. UNCHANGED <<script, BootVars, req>>
      BY <1>2 DEF kill_process, free
  <2> QED
      BY <2>1, SameScript DEF BitmapInv
<1>3. CASE kmalloc_placement
  <2> DEFINE ret == IF Current.align THEN AlignUp(free_mem_addr) ELSE free_mem_addr
  <2>1. /\ free_mem_addr' = ret + Current.size
        /\ bitmap' = IF Current.what = "frames" THEN ret ELSE bitmap
        /\ Placed(ret \div PAGE, ret \div PAGE)
        /\ kheap' = kheap /\ req' = req
      BY <1>3 DEF kmalloc_placement, vars
  <2>2. Current = script[1] /\ kheap = FALSE /\ req = NoReq /\ free_mem_addr \in Nat
        /\ kernel_directory = 0
      BY <1>1 DEF Current, Placing
  <2>3. CASE From(script, 4) /\ script[1] = Display /\ script[2] = Bitmap /\ script[3] = KDir
    <3>1. /\ From(Tail(script), 3)
          /\ Tail(script)[1] = Bitmap /\ Tail(script)[2] = KDir
      <4>1. 4 \in {2, 3, 4} /\ 4 - 1 = 3 /\ 4 > 2 /\ 4 > 3
          OBVIOUS
      <4> QED
          BY <2>3, <4>1, OneDone
    <3>2. script' = Tail(script) /\ kernel_directory' = kernel_directory
        BY <1>0, <2>1, <2>2, <2>3 DEF Placed
    <3>3. free_mem_addr' \in Nat
        BY <1>0, <2>1, <2>2, <2>3, Sizes
    <3>4. From(script', 3) /\ script'[1] = Bitmap /\ script'[2] = KDir
        BY <3>1, <3>2
    <3>5. Placing'
        BY <2>1, <2>2, <3>2, <3>3, <3>4 DEF Placing, Bitmap, KDir, Request, BitmapBytes, From, Plain
    <3> QED
        BY <3>5 DEF BitmapInv
  <2>4. CASE From(script, 3) /\ script[1] = Bitmap /\ script[2] = KDir
    <3>1. From(Tail(script), 2) /\ Tail(script)[1] = KDir
      <4>1. 3 \in {2, 3, 4} /\ 3 - 1 = 2 /\ 3 > 2
          OBVIOUS
      <4> QED
          BY <2>4, <4>1, OneDone
    <3>2. script' = Tail(script) /\ kernel_directory' = kernel_directory
        BY <1>0, <2>1, <2>2, <2>4 DEF Placed
    <3>3. /\ bitmap' = free_mem_addr /\ free_mem_addr' = free_mem_addr + BitmapBytes
          /\ free_mem_addr' \in Nat /\ bitmap' \in Nat
          /\ bitmap' + BitmapBytes <= free_mem_addr'
        BY <1>0, <2>1, <2>2, <2>4, Sizes
    <3>4. From(script', 2) /\ script'[1] = KDir
        BY <3>1, <3>2
    <3>5. Placing'
        BY <2>1, <2>2, <3>2, <3>3, <3>4 DEF Placing, KDir, Request, BitmapBytes, From, Plain
    <3> QED
        BY <3>5 DEF BitmapInv
  <2>5. CASE /\ From(script, 2) /\ script[1] = KDir
             /\ bitmap \in Nat /\ bitmap + BitmapBytes <= free_mem_addr
    <3>1. From(Tail(script), 1)
      <4>1. 2 \in {2, 3, 4} /\ 2 - 1 = 1
          OBVIOUS
      <4> QED
          BY <2>5, <4>1, OneDone
    <3> DEFINE up == AlignUp(free_mem_addr)
    <3>2. ret = up
        BY <1>0, <2>2, <2>5
    <3>3. script' = Tail(script) /\ kernel_directory' = up \div PAGE /\ bitmap' = bitmap
        BY <1>0, <2>1, <2>2, <2>5, <3>2 DEF Placed
    <3>4. /\ up \in Nat /\ free_mem_addr <= up /\ up \div PAGE \in Nat
          /\ (up \div PAGE) * PAGE = up
        BY <2>2, AlignedPage
    <3> HIDE DEF up
    <3>5. /\ bitmap' \in Nat /\ kernel_directory' \in Nat
          /\ bitmap' + BitmapBytes <= kernel_directory' * PAGE
        BY <2>2, <2>5, <3>3, <3>4, Sizes
    <3>6. From(script', 1) /\ req' = NoReq
        BY <2>1, <2>2, <3>1, <3>3
    <3>7. Behind'
        BY <3>5, <3>6 DEF Behind, BitmapBytes, From, Plain
    <3> QED
        BY <3>7 DEF BitmapInv
  <2> QED
      BY <2>3, <2>4, <2>5 DEF Placing
<1> QED
    BY <1>1, <1>2, <1>3
       DEF KNext, Placing, Doing, Running, kmalloc, kmalloc_return, alloc_take, get_page_make,
           get_page_there, clone_page, identity_map, heap_map, create_heap, move_stack,
           __exec, schedule, kill_directory, command_page

LEMMA BehindStep ==
    ASSUME Behind, KNext PROVE BitmapInv'
<1> DEFINE Kept == /\ bitmap' = bitmap /\ kernel_directory' = kernel_directory
                   /\ From(script', 1) /\ req' = NoReq
<1>1. Kept => BitmapInv'
    BY DEF Behind, BitmapInv, BitmapBytes, From, Plain
<1>2. script # <<>> => From(Tail(script), 1)
    BY RestFrom DEF Behind
<1>3. ASSUME NEW o, Doing(o), o # "kmalloc" PROVE req = NoReq
    BY <1>3 DEF Behind, Doing
<1>4. CASE kmalloc
  <2>1. /\ script' = script /\ bitmap' = bitmap /\ kernel_directory' = kernel_directory
        /\ kheap' = kheap /\ kheap = TRUE /\ Doing("kmalloc")
        /\ req' = [size |-> Current.size, align |-> Current.align]
      BY <1>4 DEF kmalloc, alloc, BootVars, Behind
  <2>2. From(script, 1)' /\ Doing("kmalloc")' /\ Current' = Current
      BY <2>1 DEF Behind, From, Plain, Doing, Current
  <2> QED
      BY <2>1, <2>2 DEF Behind, BitmapInv, BitmapBytes
<1>5. CASE kmalloc_placement
  <2>1. Doing("kmalloc") /\ req' = req /\ req = NoReq
      BY <1>5 DEF kmalloc_placement, vars, Behind
  <2>2. PICK at : Placed(at, at)
      BY <1>5 DEF kmalloc_placement
  <2>3. From(script', 1) /\ kernel_directory' = kernel_directory /\ Current.what # "frames"
      BY <2>1, <2>2, PlacedPlain DEF Behind
  <2>4. bitmap' = bitmap
      BY <1>5, <2>3 DEF kmalloc_placement
  <2> QED
      BY <1>1, <2>1, <2>3, <2>4
<1>6. CASE kmalloc_return
  <2>1. Doing("kmalloc") /\ req' = NoReq /\ bitmap' = bitmap
      BY <1>6 DEF kmalloc_return, alloc_take, Behind
  <2>2. PICK at, phys : Placed(at, phys)
      BY <1>6 DEF kmalloc_return
  <2>3. From(script', 1) /\ kernel_directory' = kernel_directory
      BY <2>1, <2>2, PlacedPlain DEF Behind
  <2> QED
      BY <1>1, <2>1, <2>3
<1>7. CASE get_page_make
  <2> DEFINE x == MakeTable(Current.dir, table_idx(Current.page), 0)
  <2>1. script' = <<x>> \o script /\ UNCHANGED <<BootVars, req>>
      BY <1>7 DEF get_page_make, vars
  <2>2. Plain(x)
      BY PlainSteps
  <2> HIDE DEF x
  <2>3. From(<<x>>, 1)
      BY <2>2, PlainOne
  <2>4. From(<<x>> \o script, 1)
      BY <2>3, InFront DEF Behind
  <2>5. req = NoReq
      BY <1>3, <1>7 DEF get_page_make
  <2> QED
      BY <1>1, <2>1, <2>4, <2>5 DEF BootVars
<1>8. CASE get_page_there \/ clone_page
  <2>1. /\ script # <<>> /\ script' = Tail(script) /\ UNCHANGED <<BootVars, req>>
        /\ req = NoReq
      BY <1>3, <1>8 DEF get_page_there, clone_page, vars, Doing
  <2> QED
      BY <1>1, <1>2, <2>1 DEF BootVars
<1>9. CASE identity_map
  <2> DEFINE x == GetPage(kernel_directory, Current.page, TRUE)
             y == IdentityLoop(Current.page + 1)
  <2>1. /\ script # <<>> /\ UNCHANGED <<BootVars, req>> /\ req = NoReq
        /\ script' = <<x, y>> \o Tail(script) \/ script' = Tail(script)
      BY <1>3, <1>9 DEF identity_map, vars, Doing
  <2>2. Plain(x) /\ Plain(y)
      BY PlainSteps
  <2> HIDE DEF x, y
  <2>3. From(<<x, y>>, 1)
      BY <2>2, PlainTwo
  <2>4. From(<<x, y>> \o Tail(script), 1)
      BY <1>2, <2>1, <2>3, InFront
  <2> QED
      BY <1>1, <1>2, <2>1, <2>4 DEF BootVars
<1>10. CASE heap_map
  <2> DEFINE x == GetPage(kernel_directory, HEAP_PAGE + Current.page, Current.alloc)
             y == HeapLoop(Current.page + 1, Current.alloc)
  <2>1. /\ script # <<>> /\ UNCHANGED <<BootVars, req>> /\ req = NoReq
        /\ script' = <<x, y>> \o Tail(script) \/ script' = Tail(script)
      BY <1>3, <1>10 DEF heap_map, vars, Doing
  <2>2. Plain(x) /\ Plain(y)
      BY PlainSteps
  <2> HIDE DEF x, y
  <2>3. From(<<x, y>>, 1)
      BY <2>2, PlainTwo
  <2>4. From(<<x, y>> \o Tail(script), 1)
      BY <1>2, <2>1, <2>3, InFront
  <2> QED
      BY <1>1, <1>2, <2>1, <2>4 DEF BootVars
<1>11. CASE create_heap \/ __exec
  <2>1. /\ script # <<>> /\ script' = Tail(script) /\ req' = req /\ req = NoReq
        /\ bitmap' = bitmap /\ kernel_directory' = kernel_directory
      BY <1>3, <1>11 DEF create_heap, __exec, vars, Doing, BootVars
  <2> QED
      BY <1>1, <1>2, <2>1
<1>12. CASE move_stack
  <2> DEFINE f == [k \in DOMAIN STACK_PAGES |-> GetPage(cr3, STACK_PAGES[k], TRUE)]
  <2>1. /\ script # <<>> /\ script' = f \o Tail(script) /\ UNCHANGED <<BootVars, req>>
        /\ req = NoReq
      BY <1>3, <1>12 DEF move_stack, vars, Doing
  <2>2. DOMAIN STACK_PAGES = 1 .. 3
      BY DEF STACK_PAGES
  <2>3. 3 \in Nat /\ f = [k \in 1 .. 3 |-> f[k]] /\ \A k \in 1 .. 3 : Plain(f[k])
      BY <2>2, PlainSteps
  <2> HIDE DEF f
  <2>4. From(f, 1)
      BY <2>3, PlainList
  <2>5. From(f \o Tail(script), 1)
      BY <1>2, <2>1, <2>4, InFront
  <2> QED
      BY <1>1, <2>1, <2>5 DEF BootVars
<1>13. CASE schedule
  <2>1. UNCHANGED <<script, BootVars, req>>
      BY <1>13 DEF schedule, vars
  <2> QED
      BY <2>1, SameScript DEF BitmapInv
<1>14. CASE kill_directory \/ kill_process
  <2>1. UNCHANGED <<script, BootVars, req>>
      BY <1>14 DEF kill_directory, kill_process, free
  <2> QED
      BY <2>1, SameScript DEF BitmapInv
<1>15. CASE command_page
  <2> DEFINE x == Request("page", 0, 1000, TRUE, FALSE)
  <2>1. script' = <<x>> /\ UNCHANGED <<BootVars, req>> /\ req = NoReq
      BY <1>15 DEF command_page, vars, Idle
  <2>2. Plain(x)
      BY DEF Plain, Request
  <2> HIDE DEF x
  <2>3. From(<<x>>, 1)
      BY <2>2, PlainOne
  <2> QED
      BY <1>1, <2>1, <2>3 DEF BootVars
<1> QED
    BY <1>4, <1>5, <1>6, <1>7, <1>8, <1>9, <1>10, <1>11, <1>12, <1>13, <1>14, <1>15 DEF KNext

-----------------------------------------------------------------------------
(* No frame backs two pages                                                *)

\* As many frames as pages: the pages' frames are different ones.
LEMMA OneFrameEach ==
    ASSUME FrameInv PROVE FramesExclusive
<1> DEFINE of == [p \in Pages |-> tables[p[1]][p[2]]]
           T == {tables[p[1]][p[2]] : p \in Pages}
<1>1. ASSUME NEW p \in Pages
      PROVE  /\ p = <<p[1], p[2]>>
             /\ p[1] \in DOMAIN tables /\ p[2] \in DOMAIN tables[p[1]]
    BY <1>1 DEF Pages
<1>2. T \subseteq frames
    BY <1>1 DEF FrameInv
<1>3. IsFiniteSet(T)
    BY <1>2, FS_Subset DEF FrameInv
<1>4. of \in [Pages -> T]
    OBVIOUS
<1>5. ASSUME NEW p \in Pages, NEW q \in Pages, of[p] = of[q] PROVE p = q
  <2>1. tables[p[1]][p[2]] = tables[q[1]][q[2]]
      BY <1>5
  <2>2. p[1] = q[1] /\ p[2] = q[2]
      BY <1>1, <2>1 DEF FrameInv
  <2> QED
      BY <1>1, <2>2
<1>6. \A f \in T : \E p \in Pages : of[p] = f
    OBVIOUS
<1> HIDE DEF of, T
<1>7. of \in Injection(Pages, T)
    BY <1>4, <1>5 DEF Injection, IsInjective
<1>8. of \in Surjection(Pages, T)
    BY <1>4, <1>6 DEF Surjection
<1>9. IsFiniteSet(Pages) /\ Cardinality(Pages) <= Cardinality(T)
    BY <1>3, <1>7, FS_Injection
<1>10. Cardinality(T) <= Cardinality(Pages)
    BY <1>8, <1>9, FS_Surjection
<1>11. Cardinality(Pages) \in Nat /\ Cardinality(T) \in Nat
    BY <1>3, <1>9, FS_CardinalityType
<1>12. Cardinality(T) = Cardinality(Pages)
    BY <1>9, <1>10, <1>11
<1> QED
    BY <1>12 DEF FramesExclusive, T

LEMMA SpecFInv == KSpec => []FInv
<1>1. KInit => FInv
  <2>1. ASSUME KInit PROVE FrameInv
    <3>1. frames = {} /\ tables = <<>>
        BY <2>1 DEF KInit
    <3>2. IsFiniteSet(frames)
        BY <3>1, FS_EmptySet
    <3>3. DOMAIN tables = {}
        BY <3>1
    <3> QED
        BY <3>1, <3>2, <3>3 DEF FrameInv
  <2> QED
      BY <2>1 DEF FInv
<1>2. FInv /\ [KNext]_kvars => FInv'
    BY EveryStep DEF FrameStep
<1> QED
    BY <1>1, <1>2, PTL DEF KSpec

\* As long as a bit that initialise_paging cleared is left, no frame backs two
\* pages, whatever tables the kernel makes, clones or overwrites and whoever
\* allocates: alloc_frame sets the bit of every frame first_frame finds.  (It
\* finds frames in use when none is left: first_frame's results then are all
\* frames, and the kernel carries on with any of them.)
THEOREM FramesExclusiveUntilFull == KSpec => [](~Exhausted => FramesExclusive)
<1>1. FInv => (~Exhausted => FramesExclusive)
    BY OneFrameEach DEF FInv
<1> QED
    BY <1>1, SpecFInv, PTL

\* The word of the bitmap that holds a cleared bit is within the bytes kmalloc
\* was asked for.
LEMMA WordInside ==
    ASSUME NEW f \in Cleared
    PROVE  4 * INDEX_FROM_BIT(f) + 4 <= BitmapBytes
<1>1. NFRAMES \in Nat /\ NFRAMES % 128 = 0
    BY PagingAssumption, KernelMemoryAssumption
<1>2. PICK q \in Nat : NFRAMES = 128 * q
    BY <1>1
<1>3. BitmapBytes = 4 * q
    BY <1>2 DEF BitmapBytes, INDEX_FROM_BIT
<1>4. f \in Nat /\ f < 32 * q
    BY <1>2 DEF Cleared, INDEX_FROM_BIT
<1>5. f \div 32 < q
    BY <1>2, <1>4
<1> QED
    BY <1>3, <1>4, <1>5 DEF INDEX_FROM_BIT

LEMMA SpecBitmapInv == KSpec => []BitmapInv
<1>1. KInit => BitmapInv
  <2>1. ASSUME KInit PROVE Placing
    <3>1. /\ kernel_directory = 0 /\ kheap = FALSE /\ req = NoReq
          /\ free_mem_addr \in Nat /\ script = kernel_main
        BY <2>1, KernelMemoryAssumption DEF KInit, Init
    <3> QED
        BY <3>1, BootScript DEF Placing, Boots
  <2> QED
      BY <2>1 DEF BitmapInv
<1>2. BitmapInv /\ [KNext]_kvars => BitmapInv'
  <2> SUFFICES ASSUME BitmapInv, [KNext]_kvars PROVE BitmapInv'
      OBVIOUS
  <2>1. CASE KNext
      BY <2>1, PlacingStep, BehindStep DEF BitmapInv
  <2>2. CASE UNCHANGED kvars
    <3>1. UNCHANGED <<script, BootVars, req>>
        BY <2>2 DEF kvars, vars, BootVars
    <3> QED
        BY <3>1, SameScript
  <2> QED
      BY <2>1, <2>2
<1> QED
    BY <1>1, <1>2, PTL DEF KSpec

\* initialise_paging asks for a quarter of the bitmap's bytes and clears as many.
\* For every size of memory and every end of the ramdisk, as long as a cleared
\* bit is left every word that alloc_frame writes lies before the page directory
\* that was placed next.
THEOREM BitmapFitsUntilFull == KSpec => [](~Exhausted => BitmapFits)
<1>1. FInv /\ BitmapInv => (~Exhausted => BitmapFits)
  <2> SUFFICES ASSUME FInv, BitmapInv, ~Exhausted, kernel_directory # 0, NEW f \in frames
               PROVE  bitmap + 4 * INDEX_FROM_BIT(f) + 4 <= kernel_directory * PAGE
      BY DEF BitmapFits
  <2>1. Behind
      BY DEF BitmapInv, Placing
  <2>2. f \in Cleared
      BY DEF FInv, FrameInv
  <2> DEFINE w == 4 * INDEX_FROM_BIT(f) + 4
             d == kernel_directory * PAGE
  <2>3. w <= BitmapBytes
      BY <2>2, WordInside
  <2>4. f \in Nat
      BY <2>2 DEF Cleared
  <2>5. INDEX_FROM_BIT(f) \in Nat
      BY <2>4 DEF INDEX_FROM_BIT
  <2>6. w \in Nat /\ bitmap + 4 * INDEX_FROM_BIT(f) + 4 = bitmap + w
      BY <2>1, <2>5 DEF Behind
  <2>7. d \in Nat /\ bitmap \in Nat /\ BitmapBytes \in Nat /\ bitmap + BitmapBytes <= d
      BY <2>1, Sizes DEF Behind
  <2> HIDE DEF w, d
  <2>8. bitmap + w <= d
      BY <2>3, <2>6, <2>7
  <2> QED
      BY <2>6, <2>8 DEF d
<1> QED
    BY <1>1, SpecBitmapInv, SpecFInv, PTL

-----------------------------------------------------------------------------
(* The allocator's data, whatever its callers do                           *)

\* Neither the discipline of module Heap nor its tiling is assumed here: headers
\* and footers may overwrite each other.  Still every header has a size, and every
\* footer and every entry of the index names an address in the heap.
HeapAddr == {a \in Nat : START <= a}
HeapMem(m) ==
    /\ m = Mem(m.hdr, m.ftr, m.index)
    /\ \A x \in DOMAIN m.hdr : m.hdr[x] \in [hole : BOOLEAN, size : Nat]
    /\ \A x \in DOMAIN m.ftr : m.ftr[x] \in HeapAddr
    /\ m.index \in Seq(Nat) /\ Items(m.index) \subseteq HeapAddr

LEMMA HeapSizes ==
    /\ HDR \in Nat /\ FTR \in Nat /\ PAGE \in Nat /\ Word \in Nat /\ START \in Nat
    /\ INITIAL \in Nat /\ MIN_SIZE \in Nat /\ MAX_END \in Nat
    /\ 0 < HDR /\ 0 < FTR /\ HDR + FTR < PAGE /\ 0 < Word /\ START >= PAGE
BY HeapAssumption

LEMMA Parts ==
    ASSUME NEW h, NEW f, NEW x
    PROVE  Mem(h, f, x).hdr = h /\ Mem(h, f, x).ftr = f /\ Mem(h, f, x).index = x
BY DEF Mem

LEMMA OnePart ==
    ASSUME NEW m, HeapMem(m), NEW h, NEW f, NEW x
    PROVE  /\ [m EXCEPT !.hdr = h] = Mem(h, m.ftr, m.index)
           /\ [m EXCEPT !.ftr = f] = Mem(m.hdr, f, m.index)
           /\ [m EXCEPT !.index = x] = Mem(m.hdr, m.ftr, x)
<1> DEFINE g == m.hdr
           k == m.ftr
           y == m.index
<1>1. m = Mem(g, k, y)
    BY DEF HeapMem
<1> HIDE DEF g, k, y
<1>2. /\ [m EXCEPT !.hdr = h] = Mem(h, k, y)
      /\ [m EXCEPT !.ftr = f] = Mem(g, f, y)
      /\ [m EXCEPT !.index = x] = Mem(g, k, x)
    BY ONLY <1>1 DEF Mem
<1> QED
    BY <1>2 DEF g, k, y

\* A memory is typed when its parts are.
LEMMA FromParts ==
    ASSUME NEW h, NEW f, NEW x,
           \A a \in DOMAIN h : h[a] \in [hole : BOOLEAN, size : Nat],
           \A a \in DOMAIN f : f[a] \in HeapAddr,
           x \in Seq(Nat), Items(x) \subseteq HeapAddr
    PROVE  HeapMem(Mem(h, f, x))
<1> DEFINE m == Mem(h, f, x)
<1>1. m.hdr = h /\ m.ftr = f /\ m.index = x
    BY Parts
<1>2. m = Mem(m.hdr, m.ftr, m.index)
    BY <1>1
<1> HIDE DEF m
<1>3. HeapMem(m)
    BY <1>1, <1>2 DEF HeapMem
<1> QED
    BY <1>3 DEF m

LEMMA WipeTyped ==
    ASSUME NEW m, HeapMem(m), NEW a, NEW n
    PROVE  HeapMem(Wipe(m, a, n)) /\ Wipe(m, a, n).index = m.index
<1> DEFINE h == Keep(m.hdr, HDR, a, n)
           f == Keep(m.ftr, FTR, a, n)
<1>1. DOMAIN h \subseteq DOMAIN m.hdr /\ \A x \in DOMAIN h : h[x] = m.hdr[x]
    BY DEF Keep
<1>2. DOMAIN f \subseteq DOMAIN m.ftr /\ \A x \in DOMAIN f : f[x] = m.ftr[x]
    BY DEF Keep
<1>3. Wipe(m, a, n) = Mem(h, f, m.index)
    BY DEF Wipe
<1> HIDE DEF h, f
<1>4. HeapMem(Mem(h, f, m.index))
    BY <1>1, <1>2, FromParts DEF HeapMem
<1> QED
    BY <1>3, <1>4, Parts

LEMMA PutHeaderTyped ==
    ASSUME NEW m, HeapMem(m), NEW a, NEW hole \in BOOLEAN, NEW size \in Nat
    PROVE  HeapMem(PutHeader(m, a, hole, size)) /\ PutHeader(m, a, hole, size).index = m.index
<1> DEFINE w == Wipe(m, a, HDR)
           v == [hole |-> hole, size |-> size]
           h == At(w.hdr, a, v)
<1>1. HeapMem(w) /\ w.index = m.index
    BY WipeTyped
<1>2. v \in [hole : BOOLEAN, size : Nat]
    OBVIOUS
<1> HIDE DEF w, v
<1>3. PutHeader(m, a, hole, size) = Mem(h, w.ftr, w.index)
    BY <1>1, OnePart DEF PutHeader, w, v
<1>4. \A x \in DOMAIN h : h[x] = v \/ (x \in DOMAIN w.hdr /\ h[x] = w.hdr[x])
    BY DEF At
<1> HIDE DEF h
<1>5. HeapMem(Mem(h, w.ftr, w.index))
    BY <1>1, <1>2, <1>4, FromParts DEF HeapMem
<1> QED
    BY <1>1, <1>3, <1>5, Parts

LEMMA PutFooterTyped ==
    ASSUME NEW m, HeapMem(m), NEW a, NEW header \in HeapAddr
    PROVE  HeapMem(PutFooter(m, a, header)) /\ PutFooter(m, a, header).index = m.index
<1> DEFINE w == Wipe(m, a, FTR)
           f == At(w.ftr, a, header)
<1>1. HeapMem(w) /\ w.index = m.index
    BY WipeTyped
<1> HIDE DEF w
<1>3. PutFooter(m, a, header) = Mem(w.hdr, f, w.index)
    BY <1>1, OnePart DEF PutFooter, w
<1>4. \A x \in DOMAIN f : f[x] = header \/ (x \in DOMAIN w.ftr /\ f[x] = w.ftr[x])
    BY DEF At
<1> HIDE DEF f
<1>5. HeapMem(Mem(w.hdr, f, w.index))
    BY <1>1, <1>4, FromParts DEF HeapMem
<1> QED
    BY <1>1, <1>3, <1>5, Parts

LEMMA SetSizeTyped ==
    ASSUME NEW m, HeapMem(m), NEW a, NEW n \in Nat
    PROVE  HeapMem(SetSize(m, a, n)) /\ SetSize(m, a, n).index = m.index
<1> DEFINE h == [m.hdr EXCEPT ![a] = [@ EXCEPT !.size = n]]
<1>1. SetSize(m, a, n) = Mem(h, m.ftr, m.index)
    BY OnePart DEF SetSize
<1>2. DOMAIN h = DOMAIN m.hdr
    OBVIOUS
<1>3. ASSUME NEW x \in DOMAIN h PROVE h[x] \in [hole : BOOLEAN, size : Nat]
  <2>1. m.hdr[x] \in [hole : BOOLEAN, size : Nat]
      BY <1>2, <1>3 DEF HeapMem
  <2>2. h[x] = IF x = a THEN [m.hdr[x] EXCEPT !.size = n] ELSE m.hdr[x]
      BY <1>2, <1>3
  <2>3. [m.hdr[x] EXCEPT !.size = n] \in [hole : BOOLEAN, size : Nat]
      BY <2>1
  <2> QED
      BY <2>1, <2>2, <2>3
<1> HIDE DEF h
<1>4. HeapMem(Mem(h, m.ftr, m.index))
    BY <1>3, FromParts DEF HeapMem
<1> QED
    BY <1>1, <1>4, Parts

LEMMA SizeOfNat == ASSUME NEW m, HeapMem(m), NEW a PROVE SizeOf(m, a) \in Nat
<1>1. CASE a \in DOMAIN m.hdr
  <2>1. m.hdr[a] \in [hole : BOOLEAN, size : Nat]
      BY <1>1 DEF HeapMem
  <2> QED
      BY <1>1, <2>1 DEF SizeOf
<1> QED
    BY <1>1 DEF SizeOf

LEMMA UNat == ASSUME NEW n \in Int PROVE U(n) \in Nat
BY HeapSizes DEF U

LEMMA InsertTyped ==
    ASSUME NEW m, HeapMem(m), NEW a \in HeapAddr
    PROVE  HeapMem(insert(m, a))
<1> DEFINE items == {a} \cup {m.index[k] : k \in DOMAIN m.index}
           less == [p \in items \X items |-> SizeOf(m, p[1]) < SizeOf(m, p[2])]
           x == insert_ordered_array(a, m.index, less)
<1>1. insert(m, a) = Mem(m.hdr, m.ftr, x)
    BY OnePart DEF insert
<1>2. m.index \in Seq(Nat) /\ a \in Nat
    BY DEF HeapMem, HeapAddr
<1> HIDE DEF less
<1>3. x \in Seq(Nat) /\ Items(x) = Items(m.index) \cup {a}
    BY <1>2, InsertFacts
<1> HIDE DEF x
<1>4. HeapMem(Mem(m.hdr, m.ftr, x))
    BY <1>3, FromParts DEF HeapMem
<1> QED
    BY <1>1, <1>4

LEMMA RemoveTyped ==
    ASSUME NEW m, HeapMem(m), NEW i \in 1 .. Len(m.index) + 1
    PROVE  HeapMem(remove(m, i))
<1> DEFINE s == m.index
           x == remove_ordered_array(i, s)
<1>1. remove(m, i) = Mem(m.hdr, m.ftr, x)
    BY OnePart DEF remove
<1>2. s \in Seq(Nat) /\ Len(s) \in Nat /\ DOMAIN s = 1 .. Len(s)
    BY SeqFacts DEF HeapMem
<1>3. x \in Seq(Nat) /\ \A k \in DOMAIN x : x[k] \in Items(s)
  <2>1. CASE i <= Len(s)
    <3>1. x = RemoveAt(s, i) /\ i \in 1 .. Len(s)
        BY <1>2, <2>1 DEF remove_ordered_array
    <3> HIDE DEF s, x
    <3>2. /\ x \in Seq(Nat) /\ Len(x) = Len(s) - 1
          /\ \A k \in 1 .. Len(s) - 1 : x[k] = IF k < i THEN s[k] ELSE s[k + 1]
        BY <1>2, <3>1, RemoveAtFacts
    <3>3. ASSUME NEW k \in DOMAIN x PROVE x[k] \in Items(s)
      <4>1. k \in 1 .. Len(s) - 1
          BY <3>2, <3>3, SeqFacts
      <4>2. \E j \in 1 .. Len(s) : x[k] = s[j]
        <5>1. k \in 1 .. Len(s) /\ k + 1 \in 1 .. Len(s)
            BY <1>2, <4>1
        <5>2. x[k] = s[k] \/ x[k] = s[k + 1]
            BY <3>2, <4>1
        <5> QED
            BY <5>1, <5>2
      <4> QED
          BY <1>2, <4>2 DEF Items
    <3> QED
        BY <3>2, <3>3
  <2>2. CASE i > Len(s)
    <3>1. x = SubSeq(s, 1, Len(s) - 1)
        BY <1>2, <2>2 DEF remove_ordered_array
    <3> HIDE DEF s, x
    <3>2. /\ x \in Seq(Nat) /\ DOMAIN x \subseteq 1 .. Len(s)
          /\ \A k \in DOMAIN x : x[k] = s[k]
      <4>1. CASE Len(s) = 0
        <5>1. x = <<>>
            BY <1>2, <3>1, <4>1
        <5> QED
            BY <5>1
      <4>2. CASE Len(s) # 0
          BY <1>2, <3>1, <4>2
      <4> QED
          BY <4>1, <4>2
    <3> QED
        BY <1>2, <3>2 DEF Items
  <2> QED
      BY <1>2, <2>1, <2>2
<1> HIDE DEF x
<1>4. Items(x) \subseteq HeapAddr
    BY <1>3 DEF Items, HeapMem
<1>5. HeapMem(Mem(m.hdr, m.ftr, x))
    BY <1>3, <1>4, FromParts DEF HeapMem
<1> QED
    BY <1>1, <1>5

LEMMA PositionRange ==
    ASSUME NEW s \in Seq(Nat), NEW x
    PROVE  PositionOf(x, s) \in 1 .. Len(s) + 1
<1> DEFINE n == Len(s)
           P == {k \in 1 .. n : s[k] = x}
<1>1. n \in Nat
    BY SeqFacts
<1>2. P \subseteq 1 .. n /\ \A k \in 1 .. n : k \in P <=> s[k] = x
    OBVIOUS
<1> HIDE DEF n, P
<1>3. PICK j \in 1 .. n + 1 : /\ \A k \in 1 .. j - 1 : k \notin P
                              /\ j <= n => j \in P
    BY <1>1, <1>2, FirstHit
<1>4. (\A k \in 1 .. j - 1 : k \in 1 .. n) /\ (j <= n => j \in 1 .. n)
    BY <1>1
<1>5. (\A k \in 1 .. j - 1 : s[k] # x) /\ (j <= n => s[j] = x)
    BY Zenon, <1>2, <1>3, <1>4
<1>6. \E l \in 1 .. Len(s) + 1 : (\A k \in 1 .. l - 1 : s[k] # x) /\ (l <= Len(s) => s[l] = x)
    BY Zenon, <1>5 DEF n
<1> QED
    BY Zenon, <1>6 DEF PositionOf

-----------------------------------------------------------------------------
(* What alloc and free leave behind                                        *)

\* d * q + r for a number, and back.
LEMMA QuotRem ==
    ASSUME NEW d \in Nat, d > 0, NEW q \in Nat, NEW r \in Nat, r < d
    PROVE  (d * q + r) % d = r /\ (d * q + r) \div d = q
<1>1. (d * q + r) % d = r
    OBVIOUS
<1>2. (d * q + r) \div d = q
    OBVIOUS
<1> QED
    BY <1>1, <1>2

\* A page aligned payload starts on the first page boundary behind the hole's
\* address, and its header still lies in the heap.
LEMMA AlignedFacts ==
    ASSUME NEW a \in HeapAddr
    PROVE  /\ AlignedAt(a) \in HeapAddr /\ AlignedAt(a) + HDR > a
           /\ AlignedAt(a) + HDR <= a + PAGE
           /\ (AlignedAt(a) + HDR) % PAGE = 0
           /\ FrontSize(a) \in Nat
<1> USE HeapSizes
<1> DEFINE q == a \div PAGE
           r == a % PAGE
           p == AlignedAt(a) + HDR
           u == START \div PAGE
<1>1. a \in Nat /\ START <= a
    BY DEF HeapAddr
<1>2. a = PAGE * q + r /\ q \in Nat /\ r \in Nat /\ r < PAGE
    BY <1>1, DivMod
<1>3. START = PAGE * u + (START % PAGE) /\ START % PAGE = 0 /\ u \in Nat
    BY DivMod, HeapAssumption
<1>4. p = a + PAGE - r
    BY <1>1, <1>2 DEF AlignedAt
<1>5. FrontSize(a) \in Nat
  <2>1. PAGE - r - HDR \in Int
      BY <1>2
  <2> QED
      BY <2>1, UNat DEF FrontSize
<1> HIDE DEF q, r, p, u
<1>6. PAGE * (q + 1) = PAGE * q + PAGE
    BY <1>2
<1>7. p = PAGE * (q + 1) + 0
    BY <1>2, <1>4, <1>6
<1>8. p % PAGE = 0
  <2> DEFINE q1 == q + 1
  <2>1. q1 \in Nat /\ 0 \in Nat /\ 0 < PAGE
      BY <1>2
  <2> HIDE DEF q1
  <2>2. (PAGE * q1 + 0) % PAGE = 0
      BY <2>1, QuotRem
  <2> QED
      BY <1>7, <2>2 DEF q1
<1>9. u <= q
  <2>1. SUFFICES ASSUME q + 1 <= u PROVE FALSE
      BY <1>2, <1>3
  <2>2. PAGE * (q + 1) <= PAGE * u
      BY <1>2, <1>3, <2>1
  <2> QED
      BY <1>1, <1>2, <1>3, <1>6, <2>2
<1>10. PAGE * u <= PAGE * q
    BY <1>2, <1>3, <1>9
<1>11. START + PAGE <= p
    BY <1>3, <1>6, <1>7, <1>10, <1>2
<1>12. AlignedAt(a) = p - HDR /\ p \in Nat
    BY <1>1, <1>2, <1>4, <1>11 DEF p, AlignedAt
<1>13. AlignedAt(a) \in HeapAddr
    BY <1>11, <1>12 DEF HeapAddr
<1> QED
    BY <1>1, <1>2, <1>4, <1>5, <1>8, <1>13 DEF p

LEMMA FindFacts ==
    ASSUME NEW m, HeapMem(m), NEW size, NEW align
    PROVE  LET i == find_smallest_hole(m, size, align)
           IN  /\ Len(m.index) \in Nat
               /\ i <= Len(m.index) => i \in 1 .. Len(m.index) /\ Fits(m, m.index[i], size, align)
<1> DEFINE n == Len(m.index)
           P == {k \in 1 .. n : Fits(m, m.index[k], size, align)}
<1>1. n \in Nat
    BY SeqFacts DEF HeapMem
<1>2. P \subseteq 1 .. n /\ \A k \in 1 .. n : k \in P <=> Fits(m, m.index[k], size, align)
    OBVIOUS
<1> HIDE DEF n, P
<1>3. PICK j \in 1 .. n + 1 : /\ \A k \in 1 .. j - 1 : k \notin P
                              /\ j <= n => j \in P
    BY <1>1, <1>2, FirstHit
<1>4. (\A k \in 1 .. j - 1 : k \in 1 .. n) /\ (j <= n => j \in 1 .. n)
    BY <1>1
<1>5. /\ \A k \in 1 .. j - 1 : ~Fits(m, m.index[k], size, align)
      /\ j <= n => Fits(m, m.index[j], size, align)
    BY Zenon, <1>2, <1>3, <1>4
<1>6. \E l \in 1 .. Len(m.index) + 1 :
            /\ \A k \in 1 .. l - 1 : ~Fits(m, m.index[k], size, align)
            /\ l <= Len(m.index) => Fits(m, m.index[l], size, align)
    BY Zenon, <1>5 DEF n
<1> DEFINE i == find_smallest_hole(m, size, align)
<1>7. i \in 1 .. Len(m.index) + 1 /\ (i <= Len(m.index) => Fits(m, m.index[i], size, align))
    BY Zenon, <1>6 DEF find_smallest_hole
<1>8. Len(m.index) \in Nat
    BY <1>1 DEF n
<1> HIDE DEF i
<1>9. i <= Len(m.index) => i \in 1 .. Len(m.index)
    BY <1>7, <1>8
<1> QED
    BY <1>7, <1>8, <1>9 DEF i

LEMMA CutFrontTyped ==
    ASSUME NEW m, HeapMem(m), NEW a \in HeapAddr
    PROVE  HeapMem(CutFront(m, a))
<1> DEFINE h == PutHeader(m, a, TRUE, FrontSize(a))
<1>1. HeapMem(h)
    BY AlignedFacts, PutHeaderTyped
<1> HIDE DEF h
<1>2. HeapMem(PutFooter(h, AlignedAt(a) - FTR, a))
    BY <1>1, PutFooterTyped
<1> QED
    BY <1>2 DEF CutFront, h

LEMMA CutBackTyped ==
    ASSUME NEW m, HeapMem(m), NEW pos \in HeapAddr, NEW rest \in Nat
    PROVE  HeapMem(CutBack(m, pos, rest))
<1> DEFINE footer == pos + rest - FTR
           h == PutHeader(m, pos, TRUE, rest)
           f == IF footer < end THEN PutFooter(h, footer, pos) ELSE h
<1>1. HeapMem(h)
    BY PutHeaderTyped
<1> HIDE DEF h
<1>2. HeapMem(PutFooter(h, footer, pos))
    BY <1>1, PutFooterTyped
<1>3. HeapMem(f)
    BY <1>1, <1>2
<1>4. CutBack(m, pos, rest) = insert(f, pos)
    BY DEF CutBack, h
<1> HIDE DEF f
<1> QED
    BY <1>3, <1>4, InsertTyped

\* The block's size is at least that of its header and footer: the hole fits.
LEMMA BlockSize ==
    ASSUME NEW m, HeapMem(m), NEW a \in HeapAddr, NEW size \in Nat, NEW align \in BOOLEAN,
           Fits(m, a, Gross(size), align)
    PROVE  SizeOf(m, a) \in Nat /\ SizeOf(m, a) >= Gross(size) /\ Gross(size) \in Nat
<1> USE HeapSizes
<1> DEFINE o == SizeOf(m, a)
           g == Gross(size)
<1>1. o \in Nat /\ g \in Nat
    BY SizeOfNat DEF Gross
<1>2. AlignOffset(a) \in Nat
  <2>1. a + HDR \in Nat
      BY DEF HeapAddr
  <2>2. (a + HDR) % PAGE \in Nat /\ (a + HDR) % PAGE < PAGE
      BY <2>1
  <2> QED
      BY <2>2 DEF AlignOffset
<1>3. S(o) <= o /\ S(o) \in Int
    BY <1>1 DEF S
<1> HIDE DEF o, g
<1>4. IF align THEN S(o) - AlignOffset(a) >= g ELSE o >= g
    BY DEF Fits, o, g
<1> QED
    BY <1>1, <1>2, <1>3, <1>4 DEF o, g

LEMMA TakenTyped ==
    ASSUME NEW m, HeapMem(m), NEW i \in 1 .. Len(m.index), NEW size \in Nat,
           NEW align \in BOOLEAN, Fits(m, m.index[i], Gross(size), align)
    PROVE  LET t == Taken(m, i, size, align)
           IN  /\ HeapMem(t.mem)
               /\ t.ptr \in Nat /\ START + HDR <= t.ptr
               /\ align => t.ptr % PAGE = 0
<1> USE HeapSizes
<1> DEFINE hole   == m.index[i]
           osize0 == SizeOf(m, hole)
           whole  == TakesWhole(osize0, Gross(size))
           nsize  == IF whole THEN osize0 ELSE Gross(size)
           len    == nsize - HDR - FTR
           pos    == IF align THEN AlignedAt(hole) ELSE hole
           front  == IF align THEN CutFront(m, hole) ELSE remove(m, i)
           osize  == IF align THEN U(osize0 - SizeOf(front, hole)) ELSE osize0
           head   == PutHeader(front, pos, FALSE, nsize)
           block  == PutFooter(head, pos + HDR + len, pos)
           rest   == U(osize - nsize)
           mem    == IF rest > 0 THEN CutBack(block, pos + nsize, rest) ELSE block
           t      == Taken(m, i, size, align)
<1>1. t = [mem |-> mem, ptr |-> pos + HDR]
    BY DEF Taken
<1>2. hole \in HeapAddr
  <2>1. m.index \in Seq(Nat) /\ Items(m.index) \subseteq HeapAddr
      BY DEF HeapMem
  <2>2. DOMAIN m.index = 1 .. Len(m.index)
      BY <2>1, SeqFacts
  <2> QED
      BY <2>1, <2>2 DEF Items
<1>3. osize0 \in Nat /\ nsize \in Nat /\ nsize >= HDR + FTR
  <2>1. osize0 \in Nat /\ osize0 >= Gross(size) /\ Gross(size) \in Nat
      BY <1>2, BlockSize
  <2>2. Gross(size) >= HDR + FTR
      BY DEF Gross
  <2> HIDE DEF osize0, whole
  <2> QED
      BY <2>1, <2>2
<1>4. /\ AlignedAt(hole) \in HeapAddr /\ AlignedAt(hole) + HDR > hole
      /\ (AlignedAt(hole) + HDR) % PAGE = 0 /\ FrontSize(hole) \in Nat
    BY <1>2, AlignedFacts
<1>5. pos \in HeapAddr
    BY <1>2, <1>4
<1>6. HeapMem(front)
  <2>1. HeapMem(CutFront(m, hole))
      BY <1>2, CutFrontTyped
  <2>2. Len(m.index) \in Nat
      BY SeqFacts DEF HeapMem
  <2>3. i \in 1 .. Len(m.index) + 1
      BY <2>2
  <2>4. HeapMem(remove(m, i))
      BY <2>3, RemoveTyped
  <2> QED
      BY <2>1, <2>4
<1>7. osize \in Nat
  <2>1. SizeOf(front, hole) \in Nat
      BY <1>2, <1>6, SizeOfNat
  <2> HIDE DEF front, osize0, hole
  <2>2. osize0 - SizeOf(front, hole) \in Int
      BY <1>3, <2>1
  <2>3. U(osize0 - SizeOf(front, hole)) \in Nat
      BY <2>2, UNat
  <2> QED
      BY <1>3, <2>3
<1>8. rest \in Nat
  <2>1. osize - nsize \in Int
      BY <1>3, <1>7
  <2> QED
      BY <2>1, UNat
<1>9. pos + HDR \in Nat /\ START + HDR <= pos + HDR /\ (align => (pos + HDR) % PAGE = 0)
  <2>1. align => (pos + HDR) % PAGE = 0
      BY <1>4
  <2>2. pos \in Nat /\ START <= pos
      BY <1>5 DEF HeapAddr
  <2> HIDE DEF pos
  <2>3. pos + HDR \in Nat /\ START + HDR <= pos + HDR
      BY ONLY <2>2, HeapSizes
  <2> QED
      BY <2>1, <2>3
<1>10. pos + nsize \in HeapAddr
    BY <1>3, <1>5 DEF HeapAddr
<1> HIDE DEF front, nsize, pos, rest
<1>11. HeapMem(head)
    BY <1>3, <1>6, PutHeaderTyped
<1> HIDE DEF head
<1>12. HeapMem(block)
    BY <1>5, <1>11, PutFooterTyped
<1> HIDE DEF block
<1>13. HeapMem(CutBack(block, pos + nsize, rest))
    BY <1>8, <1>10, <1>12, CutBackTyped
<1>14. HeapMem(mem)
    BY <1>12, <1>13
<1> HIDE DEF mem, t
<1>15. t.mem = mem /\ t.ptr = pos + HDR
    BY <1>1
<1> QED
    BY <1>9, <1>14, <1>15 DEF t

LEMMA NowParts == Now.hdr = hdr /\ Now.ftr = ftr /\ Now.index = index
BY Parts DEF Now

LEMMA MarkTyped ==
    ASSUME HeapMem(Now), NEW a
    PROVE  HeapMem([Now EXCEPT !.hdr[a].hole = TRUE])
<1> DEFINE h == [Now.hdr EXCEPT ![a] = [@ EXCEPT !.hole = TRUE]]
           w == [Now EXCEPT !.hdr[a].hole = TRUE]
<1>1. w = Mem(h, Now.ftr, Now.index)
    BY OnePart
<1>2. DOMAIN h = DOMAIN Now.hdr
    OBVIOUS
<1>3. ASSUME NEW x \in DOMAIN h PROVE h[x] \in [hole : BOOLEAN, size : Nat]
  <2>1. Now.hdr[x] \in [hole : BOOLEAN, size : Nat]
      BY <1>2, <1>3 DEF HeapMem
  <2>2. h[x] = IF x = a THEN [Now.hdr[x] EXCEPT !.hole = TRUE] ELSE Now.hdr[x]
      BY <1>2, <1>3
  <2>3. [Now.hdr[x] EXCEPT !.hole = TRUE] \in [hole : BOOLEAN, size : Nat]
      BY <2>1
  <2> QED
      BY <2>1, <2>2, <2>3
<1> HIDE DEF h
<1>4. HeapMem(Mem(h, Now.ftr, Now.index))
    BY <1>3, FromParts DEF HeapMem
<1> QED
    BY <1>1, <1>4

LEMMA LeftTyped ==
    ASSUME HeapMem(Now), NEW p \in Nat, START + HDR <= p, NEW m, HeapMem(m), m.ftr = ftr
    PROVE  HeapMem(Left(m, p).mem) /\ Left(m, p).header \in HeapAddr
<1> USE HeapSizes
<1> DEFINE me == Header(p)
           h == m.ftr[me - FTR]
           n == U(SizeOf(m, h) + SizeOf(m, me))
           s == SetSize(m, h, n)
           f == IF Footer(p) \in DOMAIN s.ftr THEN [s.ftr EXCEPT ![Footer(p)] = h] ELSE s.ftr
           w == [s EXCEPT !.ftr = f]
<1>1. me \in HeapAddr
    BY DEF Header, HeapAddr
<1>2. CASE ~MergesLeft(p)
  <2>1. Left(m, p) = [mem |-> m, header |-> me]
      BY <1>2 DEF Left
  <2> QED
      BY <1>1, <2>1
<1>3. CASE MergesLeft(p)
  <2>1. h \in HeapAddr
      BY <1>3 DEF MergesLeft, HeapMem
  <2>2. Left(m, p) = [mem |-> w, header |-> h]
      BY <1>3 DEF Left
  <2>3. n \in Nat
    <3>1. SizeOf(m, h) + SizeOf(m, me) \in Int
        BY SizeOfNat
    <3> QED
        BY <3>1, UNat
  <2> HIDE DEF n, h
  <2>4. HeapMem(s)
      BY <2>3, SetSizeTyped
  <2> HIDE DEF s
  <2>5. w = Mem(s.hdr, f, s.index)
      BY <2>4, OnePart
  <2>6. \A x \in DOMAIN f : f[x] \in HeapAddr
      BY <2>1, <2>4 DEF HeapMem
  <2> HIDE DEF f
  <2>7. HeapMem(Mem(s.hdr, f, s.index))
      BY <2>4, <2>6, FromParts DEF HeapMem
  <2> HIDE DEF w
  <2> QED
      BY <2>1, <2>2, <2>5, <2>7
<1> QED
    BY <1>2, <1>3

LEMMA RightTyped ==
    ASSUME NEW m, HeapMem(m), NEW p, NEW header
    PROVE  HeapMem(Right(m, p, header).mem)
<1> DEFINE right == RightOf(p)
           n == U(SizeOf(m, header) + SizeOf(m, right))
           s == SetSize(m, header, n)
           i == PositionOf(right, m.index)
<1>1. CASE MergesRight(p)
  <2>1. n \in Nat
    <3>1. SizeOf(m, header) + SizeOf(m, right) \in Int
        BY SizeOfNat
    <3> QED
        BY <3>1, UNat
  <2> HIDE DEF n
  <2>2. HeapMem(s) /\ s.index = m.index
      BY <2>1, SetSizeTyped
  <2>3. i \in 1 .. Len(s.index) + 1
      BY <2>2, PositionRange DEF HeapMem
  <2>4. RightMerged(m, header, right) = remove(s, i)
      BY DEF RightMerged, n
  <2> HIDE DEF s, i
  <2>5. HeapMem(remove(s, i))
      BY <2>2, <2>3, RemoveTyped
  <2>6. Right(m, p, header).mem = RightMerged(m, header, right)
      BY <1>1 DEF Right
  <2> QED
      BY <2>4, <2>5, <2>6
<1>2. CASE ~MergesRight(p)
    BY <1>2 DEF Right
<1> QED
    BY <1>1, <1>2

LEMMA ContractedTyped ==
    ASSUME NEW m, HeapMem(m), NEW header \in HeapAddr, NEW right, NEW cut \in Int
    PROVE  HeapMem(Contracted(m, header, right, cut))
<1> DEFINE n == U(SizeOf(m, header) - cut)
           i == PositionOf(right, m.index)
           s == SetSize(m, header, n)
           at == U(header + n - FTR)
<1>1. n \in Nat
  <2>1. SizeOf(m, header) - cut \in Int
      BY SizeOfNat
  <2> QED
      BY <2>1, UNat
<1>2. i \in 1 .. Len(m.index) + 1
    BY PositionRange DEF HeapMem
<1>3. Contracted(m, header, right, cut) =
          IF n > 0 THEN PutFooter(s, at, header)
          ELSE IF i <= Len(m.index) THEN remove(m, i) ELSE m
    BY DEF Contracted
<1> HIDE DEF n, i
<1>4. HeapMem(s)
    BY <1>1, SetSizeTyped
<1> HIDE DEF s, at
<1>5. HeapMem(PutFooter(s, at, header))
    BY <1>4, PutFooterTyped
<1>6. HeapMem(remove(m, i))
    BY <1>2, RemoveTyped
<1> QED
    BY <1>3, <1>5, <1>6

LEMMA ContractSizeNat == ASSUME NEW n \in Nat PROVE ContractSize(n) \in Nat
BY HeapSizes DEF ContractSize

LEMMA FreedTyped ==
    ASSUME HeapMem(Now), end \in Nat, NEW p \in Nat, START + HDR <= p
    PROVE  HeapMem(Freed(p).mem) /\ Freed(p).end \in Nat
<1> USE HeapSizes
<1> DEFINE m0 == [Now EXCEPT !.hdr[Header(p)].hole = TRUE]
           l  == Left(m0, p)
           r  == Right(l.mem, p, l.header)
           atEnd  == r.footer + FTR = end
           newLen == IF atEnd THEN ContractSize(l.header - START) ELSE Length
           m1 == IF atEnd
                 THEN Contracted(r.mem, l.header, RightOf(p), Length - newLen)
                 ELSE r.mem
           m2 == IF MergesLeft(p) THEN m1 ELSE insert(m1, l.header)
<1>1. Freed(p) = [mem |-> m2, end |-> START + newLen]
    BY DEF Freed
<1>2. HeapMem(m0) /\ m0.ftr = ftr
  <2>1. HeapMem(m0)
      BY MarkTyped
  <2>2. m0.ftr = Now.ftr
      BY OnePart, Parts
  <2> QED
      BY <2>1, <2>2, NowParts
<1> HIDE DEF m0
<1>3. HeapMem(l.mem) /\ l.header \in HeapAddr
    BY <1>2, LeftTyped
<1> HIDE DEF l
<1>4. HeapMem(r.mem)
    BY <1>3, RightTyped
<1>5. l.header - START \in Nat
    BY <1>3 DEF HeapAddr
<1>6. newLen \in Int /\ Length \in Int /\ START + newLen \in Nat
    BY <1>5, ContractSizeNat DEF Length
<1> HIDE DEF r, newLen
<1>7. Length - newLen \in Int
    BY <1>6
<1>8. HeapMem(Contracted(r.mem, l.header, RightOf(p), Length - newLen))
    BY <1>3, <1>4, <1>7, ContractedTyped
<1>9. HeapMem(m1)
    BY <1>4, <1>8
<1> HIDE DEF m1
<1>10. HeapMem(insert(m1, l.header))
    BY <1>3, <1>9, InsertTyped
<1>11. HeapMem(m2)
    BY <1>9, <1>10
<1> HIDE DEF m2
<1> QED
    BY <1>1, <1>6, <1>11

-----------------------------------------------------------------------------
(* Aligned blocks                                                          *)

\* The allocator's data are typed and every aligned request got a whole page.
HeapType ==
    /\ HeapMem(Now) /\ end \in Nat /\ IsFiniteSet(DOMAIN live)
    /\ \A p \in DOMAIN live : p \in Nat /\ START + HDR <= p /\ live[p] \in Nat

HeapInv == HeapType /\ PageAligned

LEMMA SameHeap ==
    ASSUME HeapInv, UNCHANGED <<hdr, ftr, index, end, live, ptr>>
    PROVE  HeapInv'
<1>1. Now' = Now
    BY DEF Now
<1> QED
    BY <1>1 DEF HeapInv, HeapType, HeapMem, PageAligned

\* The allocator's data after a step are those of m.
LEMMA NextMem ==
    ASSUME NEW m, HeapMem(m), hdr' = m.hdr, ftr' = m.ftr, index' = m.index
    PROVE  HeapMem(Now)'
<1>1. Now' = m
    BY DEF Now, HeapMem
<1> QED
    BY <1>1 DEF HeapMem

\* A request in progress is typed, and that of the step at hand.
LEMMA RequestFacts ==
    ASSUME BitmapInv, req # NoReq
    PROVE  /\ Doing("kmalloc") /\ kheap /\ Behind /\ From(script, 1)
           /\ req.size = Current.size /\ req.align = Current.align
           /\ req.size \in Nat /\ req.align \in BOOLEAN
           /\ Current.what \in {"directory", "table", "page"} => req.align
<1>1. Behind
    BY DEF BitmapInv, Placing
<1>2. script # <<>> /\ Current.op = "kmalloc" /\ Doing("kmalloc") /\ kheap
    BY <1>1 DEF Behind, Doing, Current
<1>3. Plain(Current)
  <2>1. PICK Elems : script \in Seq(Elems)
      BY <1>1 DEF Behind, From
  <2>2. 1 \in 1 .. Len(script) /\ Head(script) = script[1]
      BY <1>2, <2>1
  <2> QED
      BY <1>1, <2>2 DEF Behind, From, Current
<1>4. req.size = Current.size /\ req.align = Current.align
    BY <1>1 DEF Behind
<1> QED
    BY <1>1, <1>2, <1>3, <1>4 DEF Plain, Behind

\* What alloc returns, and the memory it leaves.
LEMMA TakeFacts ==
    ASSUME HeapType, BitmapInv, req # NoReq, HoleFor(req) <= Len(index)
    PROVE  LET t == Taken(Now, HoleFor(req), req.size, req.align)
           IN  /\ HeapMem(t.mem) /\ t.ptr \in Nat /\ START + HDR <= t.ptr
               /\ req.align => t.ptr % PAGE = 0
<1>1. req.size \in Nat /\ req.align \in BOOLEAN
    BY RequestFacts
<1>2. HeapMem(Now) /\ Now.index = index
    BY NowParts DEF HeapType
<1> DEFINE i == HoleFor(req)
<1>3. i = find_smallest_hole(Now, Gross(req.size), req.align)
    BY DEF HoleFor
<1> HIDE DEF i
<1>4. i \in 1 .. Len(Now.index) /\ Fits(Now, Now.index[i], Gross(req.size), req.align)
    BY <1>2, <1>3, FindFacts DEF i
<1>5. LET t == Taken(Now, i, req.size, req.align)
      IN  /\ HeapMem(t.mem) /\ t.ptr \in Nat /\ START + HDR <= t.ptr
          /\ req.align => t.ptr % PAGE = 0
    BY <1>1, <1>2, <1>4, TakenTyped
<1> QED
    BY <1>5 DEF i

LEMMA TakeStep ==
    ASSUME HeapInv, BitmapInv, kmalloc_return
    PROVE  HeapInv'
<1> DEFINE t == Taken(Now, HoleFor(req), req.size, req.align)
           w == Wipe(t.mem, t.ptr, req.size)
           m == IF Current.fill THEN w ELSE t.mem
           r == [what |-> Current.what, pid |-> Current.pid, addr |-> t.ptr]
<1>1. /\ req # NoReq /\ HoleFor(req) <= Len(index)
      /\ hdr' = m.hdr /\ ftr' = m.ftr /\ index' = m.index
      /\ live' = At(live, t.ptr, req.size) /\ end' = end
      /\ ptr' = ptr \cup {r}
    BY DEF kmalloc_return, alloc_take
<1>2. /\ HeapMem(t.mem) /\ t.ptr \in Nat /\ START + HDR <= t.ptr
      /\ req.align => t.ptr % PAGE = 0
    BY <1>1, TakeFacts DEF HeapInv
<1> HIDE DEF t
<1>3. HeapMem(w)
    BY <1>2, WipeTyped
<1>4. HeapMem(m)
    BY <1>2, <1>3
<1> HIDE DEF m
<1>5. HeapMem(Now)'
    BY <1>1, <1>4, NextMem
<1>6. /\ DOMAIN live' = DOMAIN live \cup {t.ptr}
      /\ \A p \in DOMAIN live' : live'[p] = (IF p = t.ptr THEN req.size ELSE live[p])
    BY <1>1 DEF At
<1>7. IsFiniteSet(DOMAIN live')
    BY <1>6, FS_AddElement DEF HeapInv, HeapType
<1>8. HeapType'
    BY <1>1, <1>2, <1>5, <1>6, <1>7, RequestFacts DEF HeapInv, HeapType
<1>9. r.what \in {"directory", "table", "page"} => r.addr % PAGE = 0
    BY <1>1, <1>2, RequestFacts
<1>10. PageAligned'
    BY <1>1, <1>9 DEF HeapInv, PageAligned
<1> QED
    BY <1>8, <1>10 DEF HeapInv

LEMMA FreeHeap ==
    ASSUME HeapInv, NEW p, free(p), UNCHANGED ptr
    PROVE  HeapInv'
<1>1. p \in DOMAIN live /\ p \in Nat /\ START + HDR <= p
    BY DEF free, HeapInv, HeapType
<1>2. live' = [x \in DOMAIN live \ {p} |-> live[x]]
    BY DEF free
<1>3. DOMAIN live' \subseteq DOMAIN live /\ \A x \in DOMAIN live' : live'[x] = live[x]
    BY <1>2
<1>4. IsFiniteSet(DOMAIN live')
    BY <1>3, FS_Subset DEF HeapInv, HeapType
<1>5. HeapMem(Now)' /\ end' \in Nat
  <2>1. CASE FreeFault(p) = "none"
    <3> DEFINE f == Freed(p)
    <3>1. hdr' = f.mem.hdr /\ ftr' = f.mem.ftr /\ index' = f.mem.index /\ end' = f.end
        BY <2>1 DEF free
    <3>2. HeapMem(f.mem) /\ f.end \in Nat
        BY <1>1, FreedTyped DEF HeapInv, HeapType
    <3> HIDE DEF f
    <3> QED
        BY <3>1, <3>2, NextMem
  <2>2. CASE FreeFault(p) # "none"
    <3>1. UNCHANGED <<hdr, ftr, index, end>>
        BY <2>2 DEF free
    <3>2. Now' = Now
        BY <3>1 DEF Now
    <3> QED
        BY <3>1, <3>2 DEF HeapInv, HeapType, HeapMem
  <2> QED
      BY <2>1, <2>2
<1>6. HeapType'
    BY <1>3, <1>4, <1>5 DEF HeapInv, HeapType
<1> QED
    BY <1>6 DEF HeapInv, PageAligned

LEMMA HeapStep ==
    ASSUME HeapInv, BitmapInv, [KNext]_kvars
    PROVE  HeapInv'
<1>1. CASE kmalloc_return
    BY <1>1, TakeStep
<1>2. CASE kill_directory \/ kill_process
    BY <1>2, FreeHeap DEF kill_directory, kill_process
<1>3. CASE kmalloc
    BY <1>3, SameHeap DEF kmalloc, alloc
<1>4. CASE kmalloc_placement \/ get_page_make \/ get_page_there \/ clone_page \/ identity_map
    BY <1>4, SameHeap
       DEF kmalloc_placement, get_page_make, get_page_there, clone_page, identity_map, vars
<1>5. CASE heap_map \/ create_heap \/ move_stack \/ __exec \/ schedule \/ command_page
    BY <1>5, SameHeap
       DEF heap_map, create_heap, move_stack, __exec, schedule, command_page, vars
<1>6. CASE UNCHANGED kvars
    BY <1>6, SameHeap DEF kvars, vars
<1> QED
    BY <1>1, <1>2, <1>3, <1>4, <1>5, <1>6 DEF KNext

LEMMA SpecHeapInv == KSpec => []HeapInv
<1>1. KInit => HeapInv
  <2> SUFFICES ASSUME KInit PROVE HeapInv
      OBVIOUS
  <2> USE HeapSizes
  <2> DEFINE v == [hole |-> TRUE, size |-> INITIAL]
             h == At(<<>>, START, v)
             x == <<START>>
  <2>1. /\ hdr = h /\ ftr = <<>> /\ index = x /\ end = START + INITIAL /\ live = <<>>
        /\ ptr = {}
      BY DEF KInit, Init
  <2>2. v \in [hole : BOOLEAN, size : Nat] /\ DOMAIN <<>> = {}
      OBVIOUS
  <2>3. \A a \in DOMAIN h : h[a] = v
      BY <2>2 DEF At
  <2>4. x \in Seq(Nat) /\ Items(x) \subseteq HeapAddr
      BY DEF Items, HeapAddr
  <2> HIDE DEF v, h, x
  <2>5. HeapMem(Mem(h, <<>>, x))
      BY <2>2, <2>3, <2>4, FromParts
  <2>6. HeapMem(Now)
      BY <2>1, <2>5 DEF Now
  <2>7. IsFiniteSet(DOMAIN live)
      BY <2>1, <2>2, FS_EmptySet
  <2>8. HeapType
      BY <2>1, <2>2, <2>6, <2>7 DEF HeapType
  <2> QED
      BY <2>1, <2>8 DEF HeapInv, PageAligned
<1>2. HeapInv /\ BitmapInv /\ [KNext]_kvars => HeapInv'
    BY HeapStep
<1> QED
    BY <1>1, <1>2, SpecBitmapInv, PTL DEF KSpec

\* Whatever was requested, freed and merged before, and even if the heap's data
\* overwrote each other, alloc returns a page boundary for every directory, table
\* and page it is asked for.
THEOREM PageAlignedAlways == KSpec => []PageAligned
<1>1. HeapInv => PageAligned
    BY DEF HeapInv
<1> QED
    BY <1>1, SpecHeapInv, PTL

-----------------------------------------------------------------------------
(* Scripts as lists                                                        *)

IsList(s) == \E Elems : s \in Seq(Elems)
Join(s, t) == s \o t
Then(x, s) == Join(<<x>>, s)

\* u = s \o t, entry by entry, for any two lists.
LEMMA JoinFacts ==
    ASSUME NEW s, IsList(s), NEW t, IsList(t)
    PROVE  /\ IsList(Join(s, t)) /\ Len(s) \in Nat /\ Len(t) \in Nat
           /\ Len(Join(s, t)) = Len(s) + Len(t)
           /\ \A x \in 1 .. Len(s) : Join(s, t)[x] = s[x]
           /\ \A x \in 1 .. Len(t) : Join(s, t)[Len(s) + x] = t[x]
<1>1. PICK A : s \in Seq(A)
    BY DEF IsList
<1>2. PICK B : t \in Seq(B)
    BY DEF IsList
<1> DEFINE E == A \cup B
           u == Join(s, t)
<1>3. s \in Seq(E) /\ t \in Seq(E)
    BY <1>1, <1>2
<1>4. u = s \o t
    BY DEF Join
<1> HIDE DEF E, u
<1>5. /\ u \in Seq(E) /\ Len(u) = Len(s) + Len(t) /\ Len(s) \in Nat /\ Len(t) \in Nat
      /\ \A x \in 1 .. Len(s) : u[x] = s[x]
      /\ \A x \in 1 .. Len(t) : u[Len(s) + x] = t[x]
    BY ONLY <1>3, <1>4, Concat
<1>6. IsList(u)
    BY <1>5 DEF IsList
<1> QED
    BY <1>5, <1>6 DEF u

\* Lists with the same entries are the same.
LEMMA SameLists ==
    ASSUME NEW s, IsList(s), NEW t, IsList(t), Len(s) = Len(t),
           \A x \in 1 .. Len(s) : s[x] = t[x]
    PROVE  s = t
<1>1. PICK A : s \in Seq(A)
    BY DEF IsList
<1>2. PICK B : t \in Seq(B)
    BY DEF IsList
<1> DEFINE E == A \cup B
<1>3. s \in Seq(E) /\ t \in Seq(E)
    BY <1>1, <1>2
<1> QED
    BY <1>3

LEMMA OneEntry == \A a : IsList(<<a>>) /\ Len(<<a>>) = 1 /\ <<a>>[1] = a
<1> SUFFICES ASSUME NEW a PROVE IsList(<<a>>) /\ Len(<<a>>) = 1 /\ <<a>>[1] = a
    OBVIOUS
<1>1. <<a>> \in Seq({a}) /\ Len(<<a>>) = 1 /\ <<a>>[1] = a
    OBVIOUS
<1> QED
    BY <1>1 DEF IsList

LEMMA ThenEntries ==
    ASSUME NEW x, NEW s, IsList(s)
    PROVE  /\ IsList(Then(x, s)) /\ Len(s) \in Nat /\ Len(Then(x, s)) = Len(s) + 1
           /\ Then(x, s)[1] = x
           /\ \A k \in 1 .. Len(s) : Then(x, s)[k + 1] = s[k]
<1> DEFINE a == <<x>>
           c == Then(x, s)
<1>1. IsList(a) /\ Len(a) = 1 /\ a[1] = x
    BY OneEntry
<1>2. c = Join(a, s)
    BY DEF Then
<1> HIDE DEF a, c
<1>3. /\ IsList(Join(a, s)) /\ Len(s) \in Nat /\ Len(Join(a, s)) = Len(a) + Len(s)
      /\ \A k \in 1 .. Len(a) : Join(a, s)[k] = a[k]
      /\ \A k \in 1 .. Len(s) : Join(a, s)[Len(a) + k] = s[k]
  <2>1. IsList(a) /\ IsList(s)
      BY <1>1
  <2>2. IsList(Join(a, s)) /\ Len(s) \in Nat
      BY ONLY <2>1, JoinFacts
  <2>3. Len(Join(a, s)) = Len(a) + Len(s)
      BY ONLY <2>1, JoinFacts
  <2>4. \A k \in 1 .. Len(a) : Join(a, s)[k] = a[k]
      BY ONLY <2>1, JoinFacts
  <2>5. \A k \in 1 .. Len(s) : Join(a, s)[Len(a) + k] = s[k]
      BY ONLY <2>1, JoinFacts
  <2> QED
      BY <2>2, <2>3, <2>4, <2>5
<1>4. IsList(c) /\ Len(c) = 1 + Len(s) /\ c[1] = x
    BY <1>1, <1>2, <1>3
<1>5. \A k \in 1 .. Len(s) : c[k + 1] = s[k]
    BY <1>1, <1>2, <1>3
<1> QED
    BY <1>3, <1>4, <1>5 DEF c

LEMMA ThenFacts ==
    ASSUME NEW x, NEW s, IsList(s)
    PROVE  /\ IsList(Then(x, s)) /\ Then(x, s) # <<>>
           /\ Head(Then(x, s)) = x /\ Tail(Then(x, s)) = s
<1> DEFINE c == Then(x, s)
           t == Tail(c)
<1>1. /\ IsList(c) /\ Len(s) \in Nat /\ Len(c) = Len(s) + 1 /\ c[1] = x
      /\ \A k \in 1 .. Len(s) : c[k + 1] = s[k]
    BY ThenEntries
<1> HIDE DEF c
<1>2. PICK E : c \in Seq(E)
    BY <1>1 DEF IsList
<1>3. c # <<>> /\ Head(c) = x
    BY <1>1, <1>2
<1>4. t \in Seq(E) /\ Len(t) = Len(s) /\ \A k \in 1 .. Len(s) : t[k] = c[k + 1]
  <2>1. t \in Seq(E) /\ Len(t) = Len(c) - 1 /\ \A k \in 1 .. Len(t) : t[k] = c[k + 1]
      BY <1>2, <1>3, HeadTailProperties
  <2> DEFINE m == Len(c)
             n == Len(s)
  <2>2. m - 1 = n
    <3>1. n \in Nat /\ m = n + 1
        BY <1>1
    <3> HIDE DEF m, n
    <3> QED
        BY ONLY <3>1
  <2> HIDE DEF t
  <2> QED
      BY <2>1, <2>2
<1> HIDE DEF t
<1>5. IsList(t) /\ \A k \in 1 .. Len(t) : t[k] = s[k]
    BY <1>1, <1>4 DEF IsList
<1>6. t = s
    BY <1>4, <1>5, SameLists
<1> QED
    BY <1>1, <1>3, <1>6 DEF c, t

LEMMA JoinAssoc ==
    ASSUME NEW s, IsList(s), NEW t, IsList(t), NEW u, IsList(u)
    PROVE  Join(Join(s, t), u) = Join(s, Join(t, u))
<1>1. PICK A : s \in Seq(A)
    BY DEF IsList
<1>2. PICK B : t \in Seq(B)
    BY DEF IsList
<1>3. PICK C : u \in Seq(C)
    BY DEF IsList
<1> DEFINE E == A \cup B \cup C
<1>4. s \in Seq(E) /\ t \in Seq(E) /\ u \in Seq(E)
    BY <1>1, <1>2, <1>3
<1> HIDE DEF E
<1>6. (s \o t) \o u = s \o (t \o u)
    BY ONLY <1>4, ConcatAssociative
<1> QED
    BY <1>6 DEF Join

LEMMA NoEntry == IsList(<<>>) /\ Len(<<>>) = 0
<1>1. <<>> \in Seq({}) /\ Len(<<>>) = 0
    OBVIOUS
<1> QED
    BY <1>1 DEF IsList

LEMMA TwoEntries == \A a, b : IsList(<<a, b>>) /\ <<a, b>> = Then(a, <<b>>)
<1> SUFFICES ASSUME NEW a, NEW b PROVE IsList(<<a, b>>) /\ <<a, b>> = Then(a, <<b>>)
    OBVIOUS
<1> DEFINE s == <<a, b>>
           t == <<b>>
           c == Then(a, t)
<1>1. s \in Seq({a, b}) /\ Len(s) = 2 /\ s[1] = a /\ s[2] = b
    OBVIOUS
<1>2. IsList(t) /\ Len(t) = 1 /\ t[1] = b
    BY OneEntry
<1> HIDE DEF s, t
<1>3. /\ IsList(c) /\ Len(c) = Len(t) + 1 /\ c[1] = a
      /\ \A k \in 1 .. Len(t) : c[k + 1] = t[k]
  <2>1. IsList(t)
      BY <1>2
  <2>2. IsList(c) /\ c[1] = a
      BY ONLY <2>1, ThenEntries
  <2>3. Len(c) = Len(t) + 1
      BY ONLY <2>1, ThenEntries
  <2>4. \A k \in 1 .. Len(t) : c[k + 1] = t[k]
      BY ONLY <2>1, ThenEntries
  <2> QED
      BY <2>2, <2>3, <2>4
<1>4. c[1 + 1] = t[1]
    BY <1>2, <1>3
<1> HIDE DEF c
<1>5. IsList(s)
    BY <1>1 DEF IsList
<1>6. Len(s) = Len(c) /\ \A k \in 1 .. Len(s) : s[k] = c[k]
    BY <1>1, <1>2, <1>3, <1>4
<1>7. s = c
    BY <1>3, <1>5, <1>6, SameLists
<1> QED
    BY <1>5, <1>7 DEF s, t, c

LEMMA ThreeEntries == \A a, b, d : IsList(<<a, b, d>>)
<1> SUFFICES ASSUME NEW a, NEW b, NEW d PROVE IsList(<<a, b, d>>)
    OBVIOUS
<1>1. <<a, b, d>> \in Seq({a, b, d})
    OBVIOUS
<1> QED
    BY <1>1 DEF IsList

LEMMA ThenJoin ==
    ASSUME NEW x, NEW s, IsList(s), NEW t, IsList(t)
    PROVE  Join(Then(x, s), t) = Then(x, Join(s, t))
<1>1. IsList(<<x>>)
    BY OneEntry
<1> QED
    BY <1>1, JoinAssoc DEF Then

\* Two steps in front.
LEMMA ThenTwo ==
    ASSUME NEW a, NEW b, NEW s, IsList(s)
    PROVE  <<a, b>> \o s = Then(a, Then(b, s))
<1>1. <<a, b>> \o s = Join(Then(a, <<b>>), s)
    BY TwoEntries DEF Join
<1>2. IsList(<<b>>)
    BY OneEntry
<1>3. Join(Then(a, <<b>>), s) = Then(a, Join(<<b>>, s))
    BY <1>2, ThenJoin
<1> QED
    BY <1>1, <1>3 DEF Then

-----------------------------------------------------------------------------
(* The boot script, part by part                                           *)

AfterPaging ==
    ((((initialise_initrd \o <<Step("move_stack")>>) \o createProcess(1))
        \o createProcess(2)) \o createProcess(3)) \o <<Step("exec")>>
Later == Then(CloneDirectory(0), AfterPaging)
AtCreate == Then(Step("create_heap"), Later)
AtHeapT == Then(Request("heap_t", 0, HEAP_T_SIZE, FALSE, TRUE), AtCreate)
AtHeap(k) == Then(HeapLoop(k, TRUE), AtHeapT)
AtIdentity(p) == Then(IdentityLoop(p), AtHeap(0))
AtSlots(k) == Then(HeapLoop(k, FALSE), AtIdentity(0))
AtDirectory == Then(KDir, AtSlots(0))
AtBitmap == Then(Bitmap, AtDirectory)

LEMMA MainParts ==
    /\ IsList(initialise_initrd)
    /\ IsList(createProcess(1)) /\ IsList(createProcess(2)) /\ IsList(createProcess(3))
    /\ IsList(<<Step("move_stack")>>) /\ IsList(<<Step("exec")>>)
<1>1. ASSUME NEW pid PROVE IsList(createProcess(pid))
  <2> DEFINE x1 == Request("process", pid, PROCESS_SIZE, FALSE, TRUE)
             x2 == CloneDirectory(pid)
             x3 == Request("stack", pid, 4096, FALSE, FALSE)
  <2>1. createProcess(pid) = <<x1, x2, x3>>
      BY DEF createProcess
  <2> HIDE DEF x1, x2, x3
  <2> QED
      BY <2>1, ThreeEntries
<1>2. IsList(initialise_initrd)
    BY ThreeEntries DEF initialise_initrd
<1> QED
    BY <1>1, <1>2, OneEntry

LEMMA AreLists ==
    /\ IsList(AfterPaging) /\ IsList(Later) /\ IsList(AtCreate) /\ IsList(AtHeapT)
    /\ \A k : IsList(AtHeap(k)) /\ IsList(AtIdentity(k)) /\ IsList(AtSlots(k))
    /\ IsList(AtDirectory) /\ IsList(AtBitmap)
<1> DEFINE b0 == initialise_initrd
           b1 == Join(b0, <<Step("move_stack")>>)
           b2 == Join(b1, createProcess(1))
           b3 == Join(b2, createProcess(2))
           b4 == Join(b3, createProcess(3))
           b5 == Join(b4, <<Step("exec")>>)
<1>0. AfterPaging = b5
    BY DEF AfterPaging, Join
<1>1. IsList(b0)
    BY MainParts
<1>2. IsList(createProcess(1)) /\ IsList(createProcess(2)) /\ IsList(createProcess(3))
    BY MainParts
<1>3. IsList(<<Step("move_stack")>>) /\ IsList(<<Step("exec")>>)
    BY MainParts
<1> HIDE DEF b0
<1>4. IsList(b1)
    BY <1>1, <1>3, JoinFacts
<1> HIDE DEF b1
<1>5. IsList(b2)
    BY <1>2, <1>4, JoinFacts
<1> HIDE DEF b2
<1>6. IsList(b3)
    BY <1>2, <1>5, JoinFacts
<1> HIDE DEF b3
<1>7. IsList(b4)
    BY <1>2, <1>6, JoinFacts
<1> HIDE DEF b4
<1>8. IsList(b5)
    BY <1>3, <1>7, JoinFacts
<1> HIDE DEF b5
<1>9. IsList(Later)
    BY <1>0, <1>8, ThenFacts DEF Later
<1>10. IsList(AtCreate)
    BY <1>9, ThenFacts DEF AtCreate
<1>11. IsList(AtHeapT)
    BY <1>10, ThenFacts DEF AtHeapT
<1>12. \A k : IsList(AtHeap(k))
    BY <1>11, ThenFacts DEF AtHeap
<1>13. \A k : IsList(AtIdentity(k))
    BY <1>12, ThenFacts DEF AtIdentity
<1>14. \A k : IsList(AtSlots(k))
    BY <1>13, ThenFacts DEF AtSlots
<1>15. IsList(AtDirectory)
    BY <1>14, ThenFacts DEF AtDirectory
<1>16. IsList(AtBitmap)
    BY <1>15, ThenFacts DEF AtBitmap
<1> QED
    BY <1>0, <1>8, <1>9, <1>10, <1>11, <1>12, <1>13, <1>14, <1>15, <1>16

LEMMA TupleThen ==
    ASSUME NEW t, IsList(t), NEW s, IsList(s), Len(t) = Len(s) + 1, NEW x, t[1] = x,
           \A k \in 1 .. Len(s) : t[k + 1] = s[k]
    PROVE  t = Then(x, s)
<1> DEFINE c == Then(x, s)
<1>1. IsList(c) /\ c[1] = x /\ Len(s) \in Nat
    BY ThenEntries
<1>2. Len(c) = Len(s) + 1
    BY ThenEntries
<1>3. \A k \in 1 .. Len(s) : c[k + 1] = s[k]
    BY ThenEntries
<1> HIDE DEF c
<1>4. ASSUME NEW k \in 1 .. Len(t) PROVE t[k] = c[k]
  <2>1. CASE k = 1
      BY <1>1, <2>1
  <2>2. CASE k # 1
    <3>1. PICK j \in 1 .. Len(s) : k = j + 1
      <4>1. k - 1 \in 1 .. Len(s) /\ k = (k - 1) + 1
          BY <1>1, <1>4, <2>2
      <4> QED
          BY <4>1
    <3>2. t[j + 1] = s[j] /\ c[j + 1] = s[j]
        BY <1>3
    <3> QED
        BY <3>1, <3>2
  <2> QED
      BY <2>1, <2>2
<1>5. t = c
    BY <1>1, <1>2, <1>4, SameLists
<1> QED
    BY <1>5 DEF c

LEMMA EightEntries ==
    ASSUME NEW x1, NEW x2, NEW x3, NEW x4, NEW x5, NEW x6, NEW x7, NEW x8
    PROVE  <<x1, x2, x3, x4, x5, x6, x7, x8>> =
               Then(x1, Then(x2, Then(x3, Then(x4, Then(x5, Then(x6, Then(x7, <<x8>>)))))))
<1> DEFINE E == {x1, x2, x3, x4, x5, x6, x7, x8}
           t1 == <<x1, x2, x3, x4, x5, x6, x7, x8>>
           t2 == <<x2, x3, x4, x5, x6, x7, x8>>
           t3 == <<x3, x4, x5, x6, x7, x8>>
           t4 == <<x4, x5, x6, x7, x8>>
           t5 == <<x5, x6, x7, x8>>
           t6 == <<x6, x7, x8>>
           t7 == <<x7, x8>>
           t8 == <<x8>>
<1>1. /\ t1 \in Seq(E) /\ Len(t1) = 8 /\ t1[1] = x1 /\ t1[2] = x2 /\ t1[3] = x3
      /\ t1[4] = x4 /\ t1[5] = x5 /\ t1[6] = x6 /\ t1[7] = x7 /\ t1[8] = x8
    OBVIOUS
<1>2. /\ t2 \in Seq(E) /\ Len(t2) = 7 /\ t2[1] = x2 /\ t2[2] = x3 /\ t2[3] = x4
      /\ t2[4] = x5 /\ t2[5] = x6 /\ t2[6] = x7 /\ t2[7] = x8
    OBVIOUS
<1>3. /\ t3 \in Seq(E) /\ Len(t3) = 6 /\ t3[1] = x3 /\ t3[2] = x4 /\ t3[3] = x5
      /\ t3[4] = x6 /\ t3[5] = x7 /\ t3[6] = x8
    OBVIOUS
<1>4. /\ t4 \in Seq(E) /\ Len(t4) = 5 /\ t4[1] = x4 /\ t4[2] = x5 /\ t4[3] = x6
      /\ t4[4] = x7 /\ t4[5] = x8
    OBVIOUS
<1>5. t5 \in Seq(E) /\ Len(t5) = 4 /\ t5[1] = x5 /\ t5[2] = x6 /\ t5[3] = x7 /\ t5[4] = x8
    OBVIOUS
<1>6. t6 \in Seq(E) /\ Len(t6) = 3 /\ t6[1] = x6 /\ t6[2] = x7 /\ t6[3] = x8
    OBVIOUS
<1>7. t7 \in Seq(E) /\ Len(t7) = 2 /\ t7[1] = x7 /\ t7[2] = x8
    OBVIOUS
<1>8. t8 \in Seq(E) /\ Len(t8) = 1 /\ t8[1] = x8
    OBVIOUS
<1> HIDE DEF E, t1, t2, t3, t4, t5, t6, t7, t8
<1>9. /\ IsList(t1) /\ IsList(t2) /\ IsList(t3) /\ IsList(t4) /\ IsList(t5)
      /\ IsList(t6) /\ IsList(t7) /\ IsList(t8)
    BY <1>1, <1>2, <1>3, <1>4, <1>5, <1>6, <1>7, <1>8 DEF IsList
<1>11. t1 = Then(x1, t2)
  <2>1. Len(t1) = Len(t2) + 1 /\ \A k \in 1 .. Len(t2) : t1[k + 1] = t2[k]
      BY <1>1, <1>2
  <2>2. t1[1] = x1
      BY <1>1
  <2> QED
      BY ONLY <1>9, <2>1, <2>2, TupleThen
<1>12. t2 = Then(x2, t3)
  <2>1. Len(t2) = Len(t3) + 1 /\ \A k \in 1 .. Len(t3) : t2[k + 1] = t3[k]
      BY <1>2, <1>3
  <2>2. t2[1] = x2
      BY <1>2
  <2> QED
      BY ONLY <1>9, <2>1, <2>2, TupleThen
<1>13. t3 = Then(x3, t4)
  <2>1. Len(t3) = Len(t4) + 1 /\ \A k \in 1 .. Len(t4) : t3[k + 1] = t4[k]
      BY <1>3, <1>4
  <2>2. t3[1] = x3
      BY <1>3
  <2> QED
      BY ONLY <1>9, <2>1, <2>2, TupleThen
<1>14. t4 = Then(x4, t5)
  <2>1. Len(t4) = Len(t5) + 1 /\ \A k \in 1 .. Len(t5) : t4[k + 1] = t5[k]
      BY <1>4, <1>5
  <2>2. t4[1] = x4
      BY <1>4
  <2> QED
      BY ONLY <1>9, <2>1, <2>2, TupleThen
<1>15. t5 = Then(x5, t6)
  <2>1. Len(t5) = Len(t6) + 1 /\ \A k \in 1 .. Len(t6) : t5[k + 1] = t6[k]
      BY <1>5, <1>6
  <2>2. t5[1] = x5
      BY <1>5
  <2> QED
      BY ONLY <1>9, <2>1, <2>2, TupleThen
<1>16. t6 = Then(x6, t7)
  <2>1. Len(t6) = Len(t7) + 1 /\ \A k \in 1 .. Len(t7) : t6[k + 1] = t7[k]
      BY <1>6, <1>7
  <2>2. t6[1] = x6
      BY <1>6
  <2> QED
      BY ONLY <1>9, <2>1, <2>2, TupleThen
<1>17. t7 = Then(x7, t8)
  <2>1. Len(t7) = Len(t8) + 1 /\ \A k \in 1 .. Len(t8) : t7[k + 1] = t8[k]
      BY <1>7, <1>8
  <2>2. t7[1] = x7
      BY <1>7
  <2> QED
      BY ONLY <1>9, <2>1, <2>2, TupleThen
<1> QED
    BY <1>11, <1>12, <1>13, <1>14, <1>15, <1>16, <1>17 DEF t1, t8

\* What kernel_main does, in this form.
LEMMA MainScript == kernel_main = Then(Display, AtBitmap)
<1> DEFINE R == AfterPaging
           s1 == <<CloneDirectory(0)>>
           s2 == Then(Step("create_heap"), s1)
           s3 == Then(Request("heap_t", 0, HEAP_T_SIZE, FALSE, TRUE), s2)
           s4 == Then(HeapLoop(0, TRUE), s3)
           s5 == Then(IdentityLoop(0), s4)
           s6 == Then(HeapLoop(0, FALSE), s5)
           s7 == Then(KDir, s6)
           s8 == Then(Bitmap, s7)
<1>1. initialise_paging = s8
  <2> DEFINE x3 == HeapLoop(0, FALSE)
             x4 == IdentityLoop(0)
             x5 == HeapLoop(0, TRUE)
             x6 == Request("heap_t", 0, HEAP_T_SIZE, FALSE, TRUE)
             x7 == Step("create_heap")
             x8 == CloneDirectory(0)
  <2>1. initialise_paging = <<Bitmap, KDir, x3, x4, x5, x6, x7, x8>>
      BY DEF initialise_paging, Bitmap, KDir
  <2>2. s8 = Then(Bitmap, Then(KDir, Then(x3, Then(x4, Then(x5, Then(x6, Then(x7, <<x8>>)))))))
      OBVIOUS
  <2> HIDE DEF x3, x4, x5, x6, x7, x8, s8
  <2> QED
      BY <2>1, <2>2, EightEntries
<1>2. IsList(R) /\ IsList(s1)
    BY AreLists, OneEntry
<1>3. Join(s1, R) = Later
    BY DEF Later, Then
<1> HIDE DEF s1, R
<1>4. IsList(s2) /\ Join(s2, R) = AtCreate
  <2>1. IsList(s2)
      BY <1>2, <1>3, ThenFacts
  <2>2. Join(s2, R) = Then(Step("create_heap"), Join(s1, R))
    <3> DEFINE x == Step("create_heap")
    <3> HIDE DEF x
    <3>1. Join(Then(x, s1), R) = Then(x, Join(s1, R))
        BY <1>2, <1>3, ThenJoin
    <3> QED
        BY <3>1 DEF x
  <2> QED
      BY <1>3, <2>1, <2>2 DEF AtCreate
<1> HIDE DEF s2
<1>5. IsList(s3) /\ Join(s3, R) = AtHeapT
  <2>1. IsList(s3)
      BY <1>2, <1>4, ThenFacts
  <2>2. Join(s3, R) = Then(Request("heap_t", 0, HEAP_T_SIZE, FALSE, TRUE), Join(s2, R))
    <3> DEFINE x == Request("heap_t", 0, HEAP_T_SIZE, FALSE, TRUE)
    <3> HIDE DEF x
    <3>1. Join(Then(x, s2), R) = Then(x, Join(s2, R))
        BY <1>2, <1>4, ThenJoin
    <3> QED
        BY <3>1 DEF x
  <2> QED
      BY <1>4, <2>1, <2>2 DEF AtHeapT
<1> HIDE DEF s3
<1>6. IsList(s4) /\ Join(s4, R) = AtHeap(0)
  <2>1. IsList(s4)
      BY <1>2, <1>5, ThenFacts
  <2>2. Join(s4, R) = Then(HeapLoop(0, TRUE), Join(s3, R))
    <3> DEFINE x == HeapLoop(0, TRUE)
    <3> HIDE DEF x
    <3>1. Join(Then(x, s3), R) = Then(x, Join(s3, R))
        BY <1>2, <1>5, ThenJoin
    <3> QED
        BY <3>1 DEF x
  <2> QED
      BY <1>5, <2>1, <2>2 DEF AtHeap
<1> HIDE DEF s4
<1>7. IsList(s5) /\ Join(s5, R) = AtIdentity(0)
  <2>1. IsList(s5)
      BY <1>2, <1>6, ThenFacts
  <2>2. Join(s5, R) = Then(IdentityLoop(0), Join(s4, R))
    <3> DEFINE x == IdentityLoop(0)
    <3> HIDE DEF x
    <3>1. Join(Then(x, s4), R) = Then(x, Join(s4, R))
        BY <1>2, <1>6, ThenJoin
    <3> QED
        BY <3>1 DEF x
  <2> QED
      BY <1>6, <2>1, <2>2 DEF AtIdentity
<1> HIDE DEF s5
<1>8. IsList(s6) /\ Join(s6, R) = AtSlots(0)
  <2>1. IsList(s6)
      BY <1>2, <1>7, ThenFacts
  <2>2. Join(s6, R) = Then(HeapLoop(0, FALSE), Join(s5, R))
    <3> DEFINE x == HeapLoop(0, FALSE)
    <3> HIDE DEF x
    <3>1. Join(Then(x, s5), R) = Then(x, Join(s5, R))
        BY <1>2, <1>7, ThenJoin
    <3> QED
        BY <3>1 DEF x
  <2> QED
      BY <1>7, <2>1, <2>2 DEF AtSlots
<1> HIDE DEF s6
<1>9. IsList(s7) /\ Join(s7, R) = AtDirectory
  <2>1. IsList(s7)
      BY <1>2, <1>8, ThenFacts
  <2>2. Join(s7, R) = Then(KDir, Join(s6, R))
    <3> DEFINE x == KDir
    <3> HIDE DEF x
    <3>1. Join(Then(x, s6), R) = Then(x, Join(s6, R))
        BY <1>2, <1>8, ThenJoin
    <3> QED
        BY <3>1 DEF x
  <2> QED
      BY <1>8, <2>1, <2>2 DEF AtDirectory
<1> HIDE DEF s7
<1>10. IsList(s8) /\ Join(s8, R) = AtBitmap
  <2>1. IsList(s8)
      BY <1>2, <1>9, ThenFacts
  <2>2. Join(s8, R) = Then(Bitmap, Join(s7, R))
    <3> DEFINE x == Bitmap
    <3> HIDE DEF x
    <3>1. Join(Then(x, s7), R) = Then(x, Join(s7, R))
        BY <1>2, <1>9, ThenJoin
    <3> QED
        BY <3>1 DEF x
  <2> QED
      BY <1>9, <2>1, <2>2 DEF AtBitmap
<1> HIDE DEF s8
<1>11. kernel_main = Join(Then(Display, s8), R)
  <2> DEFINE f == Then(Display, s8)
             i1 == initialise_initrd
             i2 == <<Step("move_stack")>>
             c1 == createProcess(1)
             c2 == createProcess(2)
             c3 == createProcess(3)
             e == <<Step("exec")>>
             j2 == Join(i1, i2)
             j3 == Join(j2, c1)
             j4 == Join(j3, c2)
             j5 == Join(j4, c3)
  <2>1. kernel_main = Join(Join(Join(Join(Join(Join(f, i1), i2), c1), c2), c3), e)
      BY <1>1 DEF kernel_main, Display, Join, Then
  <2>2. R = Join(j5, e)
      BY DEF R, AfterPaging, Join
  <2>3. IsList(i1) /\ IsList(i2) /\ IsList(c1) /\ IsList(c2) /\ IsList(c3) /\ IsList(e)
      BY MainParts
  <2>4. IsList(f)
      BY <1>10, ThenFacts
  <2> HIDE DEF f, i1, i2, c1, c2, c3, e
  <2>5. IsList(j2) /\ Join(Join(f, i1), i2) = Join(f, j2)
      BY <2>3, <2>4, JoinAssoc, JoinFacts
  <2> HIDE DEF j2
  <2>6. IsList(j3) /\ Join(Join(f, j2), c1) = Join(f, j3)
      BY <2>3, <2>4, <2>5, JoinAssoc, JoinFacts
  <2> HIDE DEF j3
  <2>7. IsList(j4) /\ Join(Join(f, j3), c2) = Join(f, j4)
      BY <2>3, <2>4, <2>6, JoinAssoc, JoinFacts
  <2> HIDE DEF j4
  <2>8. IsList(j5) /\ Join(Join(f, j4), c3) = Join(f, j5)
      BY <2>3, <2>4, <2>7, JoinAssoc, JoinFacts
  <2> HIDE DEF j5
  <2>9. Join(Join(f, j5), e) = Join(f, Join(j5, e))
      BY <2>3, <2>4, <2>8, JoinAssoc
  <2> QED
      BY <2>1, <2>2, <2>5, <2>6, <2>7, <2>8, <2>9 DEF f
<1>12. Join(Then(Display, s8), R) = Then(Display, Join(s8, R))
    BY <1>2, <1>10, ThenJoin
<1> QED
    BY <1>10, <1>11, <1>12

-----------------------------------------------------------------------------
(* The kernel's page tables                                                *)

IsDir(d) ==
    d = [physicalAddr |-> d.physicalAddr, tables |-> d.tables,
         tablesPhysical |-> d.tablesPhysical]

KernelTables == dirs[kernel_directory].tables

\* The kernel's directory and its tables lie in the memory that was given out
\* before the heap, where addresses are physical addresses, one table to a slot,
\* all of them below the stack's slots.
KernelDir ==
    /\ free_mem_addr \in Nat /\ kernel_directory \in Nat
    /\ kernel_directory \in DOMAIN dirs
    /\ (kernel_directory + 2) * PAGE <= free_mem_addr
    /\ IsDir(dirs[kernel_directory])
    /\ dirs[kernel_directory].physicalAddr = kernel_directory + 1
    /\ DOMAIN dirs[kernel_directory].tablesPhysical = DOMAIN KernelTables
    /\ \A s \in DOMAIN KernelTables :
          /\ s \in Nat /\ s < 895
          /\ KernelTables[s] \in Nat /\ KernelTables[s] \in DOMAIN tables
          /\ (KernelTables[s] + 1) * PAGE <= free_mem_addr
          /\ dirs[kernel_directory].tablesPhysical[s] = KernelTables[s]
    /\ \A s, t \in DOMAIN KernelTables : KernelTables[s] = KernelTables[t] => s = t

LEMMA PageUnique ==
    ASSUME NEW x \in Nat, NEW y \in Nat,
           table_idx(x) = table_idx(y), x % ENTRIES = y % ENTRIES
    PROVE  x = y
BY DEF table_idx, ENTRIES

LEMMA MapDef ==
    ASSUME NEW x
    PROVE  /\ HasTable(kernel_directory, x) = (table_idx(x) \in DOMAIN KernelTables)
           /\ Mapped(kernel_directory, x) =
                (/\ table_idx(x) \in DOMAIN KernelTables
                 /\ x % ENTRIES \in DOMAIN tables[KernelTables[table_idx(x)]])
           /\ Translate(kernel_directory, x) = tables[KernelTables[table_idx(x)]][x % ENTRIES]
BY DEF HasTable, Mapped, Translate, KernelTables

\* What a step does to the pages the kernel's tables map.
SameMap ==
    \A x \in Nat : /\ Mapped(kernel_directory, x)' = Mapped(kernel_directory, x)
                   /\ Mapped(kernel_directory, x) =>
                         Translate(kernel_directory, x)' = Translate(kernel_directory, x)

NewTableDirs(dir, slot, at, phys) ==
    /\ DOMAIN dirs' = DOMAIN dirs
    /\ \A d \in DOMAIN dirs : d # dir => dirs'[d] = dirs[d]
    /\ dirs'[dir] = [physicalAddr |-> dirs[dir].physicalAddr,
                     tables |-> Put(dirs[dir].tables, slot, at),
                     tablesPhysical |-> Put(dirs[dir].tablesPhysical, slot, phys)]
    /\ DOMAIN tables' = DOMAIN tables \cup {at} /\ tables'[at] = <<>>
    /\ \A t \in DOMAIN tables : t # at => tables'[t] = tables[t]

LEMMA NewTableFacts ==
    ASSUME NEW dir \in DOMAIN dirs, IsDir(dirs[dir]), NEW slot, NEW at, NEW phys,
           NewTable(dir, slot, at, phys)
    PROVE  NewTableDirs(dir, slot, at, phys)
<1> DEFINE e == dirs[dir]
           t == Put(e.tables, slot, at)
           f == Put(e.tablesPhysical, slot, phys)
<1>1. /\ tables' = Put(tables, at, <<>>)
      /\ dirs' = [dirs EXCEPT ![dir].tables = Put(@, slot, at),
                              ![dir].tablesPhysical = Put(@, slot, phys)]
    BY DEF NewTable
<1>2. /\ DOMAIN dirs' = DOMAIN dirs
      /\ \A d \in DOMAIN dirs : d # dir => dirs'[d] = dirs[d]
    BY <1>1
<1>3. dirs'[dir] = [[e EXCEPT !.tables = t] EXCEPT !.tablesPhysical = Put(@, slot, phys)]
    BY <1>1
<1>4. e = [physicalAddr |-> e.physicalAddr, tables |-> e.tables,
           tablesPhysical |-> e.tablesPhysical]
    BY DEF IsDir
<1> HIDE DEF e, t
<1>5. dirs'[dir] = [physicalAddr |-> e.physicalAddr, tables |-> t, tablesPhysical |-> f]
    BY <1>3, <1>4
<1>6. /\ DOMAIN tables' = DOMAIN tables \cup {at} /\ tables'[at] = <<>>
      /\ \A u \in DOMAIN tables : u # at => tables'[u] = tables[u]
    BY <1>1 DEF Put
<1> QED
    BY <1>2, <1>5, <1>6 DEF NewTableDirs, e, t

LEMMA PutFacts ==
    ASSUME NEW f, NEW x, NEW v
    PROVE  /\ DOMAIN Put(f, x, v) = DOMAIN f \cup {x} /\ Put(f, x, v)[x] = v
           /\ \A y \in DOMAIN f : y # x => Put(f, x, v)[y] = f[y]
BY DEF Put

\* A table that get_page makes in an empty slot of the kernel's directory, in a
\* page where no table was, maps nothing yet.
LEMMA KernelTable ==
    ASSUME KernelDir, NEW slot \in Nat, slot \notin DOMAIN KernelTables,
           NEW at, at \notin DOMAIN tables, UNCHANGED kernel_directory,
           NewTable(kernel_directory, slot, at, at)
    PROVE  /\ SameMap
           /\ DOMAIN KernelTables' = DOMAIN KernelTables \cup {slot}
           /\ KernelTables'[slot] = at
           /\ \A s \in DOMAIN KernelTables : KernelTables'[s] = KernelTables[s]
           /\ DOMAIN dirs' = DOMAIN dirs
           /\ DOMAIN tables' = DOMAIN tables \cup {at}
           /\ IsDir(dirs'[kernel_directory])
           /\ dirs'[kernel_directory].physicalAddr = dirs[kernel_directory].physicalAddr
           /\ dirs'[kernel_directory].tablesPhysical
                = Put(dirs[kernel_directory].tablesPhysical, slot, at)
<1> DEFINE kd == kernel_directory
           K == KernelTables
           L == Put(K, slot, at)
<1>1. NewTableDirs(kd, slot, at, at)
    BY NewTableFacts DEF KernelDir
<1>2. /\ dirs'[kd] = [physicalAddr |-> dirs[kd].physicalAddr, tables |-> L,
                      tablesPhysical |-> Put(dirs[kd].tablesPhysical, slot, at)]
      /\ DOMAIN dirs' = DOMAIN dirs
    BY <1>1 DEF NewTableDirs, KernelTables
<1>3. KernelTables' = L
    BY <1>2 DEF KernelTables
<1>4. /\ DOMAIN L = DOMAIN K \cup {slot} /\ L[slot] = at
      /\ \A s \in DOMAIN K : s # slot => L[s] = K[s]
    BY DEF Put
<1>5. /\ DOMAIN tables' = DOMAIN tables \cup {at} /\ tables'[at] = <<>>
      /\ \A t \in DOMAIN tables : t # at => tables'[t] = tables[t]
    BY <1>1 DEF NewTableDirs
<1>6. \A s \in DOMAIN K : K[s] \in DOMAIN tables
    BY DEF KernelDir
<1> HIDE DEF L, K
<1>7. ASSUME NEW x \in Nat
      PROVE  /\ Mapped(kd, x)' = Mapped(kd, x)
             /\ Mapped(kd, x) => Translate(kd, x)' = Translate(kd, x)
  <2> DEFINE ti == table_idx(x)
             i == x % ENTRIES
  <2>1. /\ Mapped(kd, x) = (ti \in DOMAIN K /\ i \in DOMAIN tables[K[ti]])
        /\ Translate(kd, x) = tables[K[ti]][i]
      BY MapDef DEF K
  <2>2. /\ Mapped(kd, x)' = (ti \in DOMAIN L /\ i \in DOMAIN tables'[L[ti]])
        /\ Translate(kd, x)' = tables'[L[ti]][i]
      BY <1>3 DEF Mapped, HasTable, Translate, KernelTables, table_idx
  <2> HIDE DEF ti, i
  <2>3. DOMAIN <<>> = {}
      OBVIOUS
  <2>4. CASE ti = slot
    <3>1. ~(i \in DOMAIN tables'[L[ti]])
        BY <1>4, <1>5, <2>3, <2>4
    <3>2. ti \notin DOMAIN K
        BY <2>4 DEF K
    <3> QED
        BY <2>1, <2>2, <3>1, <3>2
  <2>5. CASE ti # slot
    <3>1. (ti \in DOMAIN L) = (ti \in DOMAIN K)
        BY <1>4, <2>5
    <3>2. ti \in DOMAIN K => tables'[L[ti]] = tables[K[ti]]
        BY <1>4, <1>5, <1>6, <2>5
    <3> QED
        BY <2>1, <2>2, <3>1, <3>2
  <2> QED
      BY <2>4, <2>5
<1>8. SameMap
    BY <1>7 DEF SameMap
<1>9. \A s \in DOMAIN K : L[s] = K[s]
    BY <1>4 DEF K
<1>10. IsDir(dirs'[kd])
    BY <1>2 DEF IsDir
<1> QED
    BY <1>2, <1>3, <1>4, <1>5, <1>8, <1>9, <1>10 DEF K

\* first_frame's result is the lowest clear bit.
LEMMA FirstFrame ==
    ASSUME ~Exhausted, NEW n \in Nat, frames = 0 .. n - 1
    PROVE  first_frame = {n} /\ n \in Cleared
<1> DEFINE top == 8 * INDEX_FROM_BIT(NFRAMES)
           T == Cleared \ frames
           low == CHOOSE f \in T : \A g \in T : f <= g
<1>1. top \in Nat
    BY PagingAssumption DEF INDEX_FROM_BIT
<1>2. Cleared = 0 .. top - 1
    BY DEF Cleared
<1> HIDE DEF top
<1>3. n \in Cleared
    BY <1>1, <1>2 DEF Exhausted
<1>4. n \in T /\ \A g \in T : n <= g /\ g \in Nat
    BY <1>1, <1>2, <1>3
<1>5. first_frame = {low}
    BY DEF first_frame, Exhausted
<1> HIDE DEF T
<1>6. low \in T /\ \A g \in T : low <= g
    BY <1>4, Zenon
<1> HIDE DEF low
<1>7. low = n
    BY <1>4, <1>6
<1> QED
    BY <1>3, <1>5, <1>7

\* A page of the kernel's directory gets the lowest frame that is left.
LEMMA KernelPage ==
    ASSUME KernelDir, ~Exhausted, NEW n \in Nat, frames = 0 .. n - 1,
           NEW x \in Nat, HasTable(kernel_directory, x), ~Mapped(kernel_directory, x),
           UNCHANGED <<kernel_directory, dirs>>,
           alloc_frame(get_page(kernel_directory, x)[1], get_page(kernel_directory, x)[2])
    PROVE  /\ n \in Cleared /\ frames' = 0 .. n
           /\ DOMAIN tables' = DOMAIN tables
           /\ \A y \in Nat :
                 /\ Mapped(kernel_directory, y)' = (y = x \/ Mapped(kernel_directory, y))
                 /\ y # x /\ Mapped(kernel_directory, y) =>
                       Translate(kernel_directory, y)' = Translate(kernel_directory, y)
           /\ Translate(kernel_directory, x)' = n
<1> DEFINE kd == kernel_directory
           K == KernelTables
           t == K[table_idx(x)]
           i == x % ENTRIES
           new == Put(tables[t], i, n)
<1>1. get_page(kd, x)[1] = t /\ get_page(kd, x)[2] = i
    BY DEF get_page, KernelTables
<1>2. table_idx(x) \in DOMAIN K /\ i \notin DOMAIN tables[t]
    BY MapDef
<1>3. Frame(t, i) = 0
    BY <1>2 DEF Frame
<1>4. first_frame = {n} /\ n \in Cleared
    BY FirstFrame
<1>5. PICK idx \in first_frame : /\ frames' = set_frame(idx * FRAME_SIZE)
                                 /\ tables' = [tables EXCEPT ![t] = Put(@, i, idx)]
    BY <1>1, <1>3 DEF alloc_frame
<1>6. frames' = frames \cup {n}
    BY <1>4, <1>5, SetFrame
<1>7. frames' = 0 .. n
    BY <1>6
<1>8. t \in DOMAIN tables /\ \A s \in DOMAIN K : s # table_idx(x) => K[s] # t
    BY <1>2 DEF KernelDir
<1>9. /\ DOMAIN tables' = DOMAIN tables /\ tables'[t] = new
      /\ \A u \in DOMAIN tables : u # t => tables'[u] = tables[u]
    BY <1>4, <1>5, <1>8
<1>10. /\ DOMAIN new = DOMAIN tables[t] \cup {i} /\ new[i] = n
       /\ \A z \in DOMAIN tables[t] : z # i => new[z] = tables[t][z]
    BY DEF Put
<1>11. \A s \in DOMAIN K : K[s] \in DOMAIN tables
    BY DEF KernelDir
<1>12. KernelTables' = K
    BY DEF KernelTables
<1> HIDE DEF new, K
<1>13. ASSUME NEW y \in Nat
       PROVE  /\ Mapped(kd, y)' = (y = x \/ Mapped(kd, y))
              /\ y # x /\ Mapped(kd, y) => Translate(kd, y)' = Translate(kd, y)
              /\ y = x => Translate(kd, y)' = n
  <2> DEFINE ty == table_idx(y)
             iy == y % ENTRIES
  <2>1. /\ Mapped(kd, y) = (ty \in DOMAIN K /\ iy \in DOMAIN tables[K[ty]])
        /\ Translate(kd, y) = tables[K[ty]][iy]
      BY MapDef DEF K
  <2>2. /\ Mapped(kd, y)' = (ty \in DOMAIN K /\ iy \in DOMAIN tables'[K[ty]])
        /\ Translate(kd, y)' = tables'[K[ty]][iy]
      BY <1>12 DEF Mapped, HasTable, Translate, KernelTables, table_idx
  <2>3. ty = table_idx(x) /\ iy = i => y = x
      BY PageUnique
  <2>4. y = x => ty = table_idx(x) /\ iy = i
      OBVIOUS
  <2> HIDE DEF ty, iy, i
  <2>5. CASE ty = table_idx(x)
    <3>1. K[ty] = t /\ tables'[K[ty]] = new
        BY <1>9, <2>5
    <3>2. ty \in DOMAIN K
        BY <1>2, <2>5
    <3>3. CASE y = x
        BY <1>10, <2>2, <2>4, <3>1, <3>2, <3>3
    <3>4. CASE y # x
      <4>1. iy # i
          BY <2>3, <2>5, <3>4
      <4> QED
          BY <1>10, <2>1, <2>2, <3>1, <3>2, <3>4, <4>1
    <3> QED
        BY <3>3, <3>4
  <2>6. CASE ty # table_idx(x)
    <3>1. y # x
        BY <2>4, <2>6
    <3>2. ty \in DOMAIN K => tables'[K[ty]] = tables[K[ty]]
        BY <1>8, <1>9, <1>11, <2>6
    <3> QED
        BY <2>1, <2>2, <3>1, <3>2
  <2> QED
      BY <2>5, <2>6
<1> QED
    BY <1>4, <1>7, <1>9, <1>13

\* Nothing of the kernel's directory and tables is touched.
LEMMA KernelUntouched ==
    ASSUME KernelDir, UNCHANGED kernel_directory,
           kernel_directory \in DOMAIN dirs', dirs'[kernel_directory] = dirs[kernel_directory],
           DOMAIN tables \subseteq DOMAIN tables',
           \A s \in DOMAIN KernelTables : tables'[KernelTables[s]] = tables[KernelTables[s]]
    PROVE  SameMap /\ KernelTables' = KernelTables
<1> DEFINE kd == kernel_directory
           K == KernelTables
<1>1. KernelTables' = K
    BY DEF KernelTables
<1> HIDE DEF K
<1>2. ASSUME NEW x \in Nat
      PROVE  /\ Mapped(kd, x)' = Mapped(kd, x)
             /\ Mapped(kd, x) => Translate(kd, x)' = Translate(kd, x)
  <2> DEFINE ti == table_idx(x)
             i == x % ENTRIES
  <2>1. /\ Mapped(kd, x) = (ti \in DOMAIN K /\ i \in DOMAIN tables[K[ti]])
        /\ Translate(kd, x) = tables[K[ti]][i]
      BY MapDef DEF K
  <2>2. /\ Mapped(kd, x)' = (ti \in DOMAIN K /\ i \in DOMAIN tables'[K[ti]])
        /\ Translate(kd, x)' = tables'[K[ti]][i]
      BY <1>1 DEF Mapped, HasTable, Translate, KernelTables, table_idx
  <2> HIDE DEF ti, i
  <2>3. ti \in DOMAIN K => tables'[K[ti]] = tables[K[ti]]
      BY DEF K
  <2> QED
      BY <2>1, <2>2, <2>3
<1> QED
    BY <1>1, <1>2 DEF SameMap, K

-----------------------------------------------------------------------------
(* initialise_paging                                                       *)

LEMMA Geometry ==
    /\ PAGE = 4096 /\ FRAME_SIZE = 4096 /\ HEAP_PAGE = 786432
    /\ HEAP_PAGES \in Nat /\ 1 <= HEAP_PAGES /\ HEAP_PAGES <= 130048
    /\ \A f \in Cleared : f \in Nat /\ f < 262144
<1>1. PAGE = 4096 /\ FRAME_SIZE = 4096 /\ HEAP_PAGE = 786432
    BY KernelMemoryAssumption DEF FRAME_SIZE, HEAP_PAGE, ENTRIES
<1>2. /\ START + INITIAL \in Nat /\ 4096 <= START + INITIAL
      /\ START + INITIAL <= 532676608
    BY <1>1, HeapAssumption, KernelMemoryAssumption DEF FRAME_SIZE, ENTRIES
<1> DEFINE h == START + INITIAL
<1> HIDE DEF h
<1>3. h \div 4096 \in Nat /\ 1 <= h \div 4096 /\ h \div 4096 <= 130048
    BY <1>2 DEF h
<1>4. ASSUME NEW f \in Cleared PROVE f \in Nat /\ f < 262144
  <2>1. NFRAMES \in Nat /\ NFRAMES <= 1048576
      BY PagingAssumption, KernelMemoryAssumption
  <2>2. NFRAMES \div 32 \in Nat /\ NFRAMES \div 32 <= 32768
      BY <2>1
  <2> QED
      BY <1>4, <2>2 DEF Cleared, INDEX_FROM_BIT
<1> QED
    BY <1>1, <1>3, <1>4 DEF HEAP_PAGES, FRAME_SIZE, h

\* The tables for the first k pages of the heap are there.
Slots(k) == \A j \in Nat : j < k => HasTable(kernel_directory, HEAP_PAGE + j)

\* The first p pages lie in the frames of their own number, the first k pages of
\* the heap in the k frames behind those, and nothing else is mapped.
Filled(p, k) ==
    /\ frames = 0 .. p + k - 1
    /\ \A x \in Nat : Mapped(kernel_directory, x) <=>
                          (x < p \/ (HEAP_PAGE <= x /\ x < HEAP_PAGE + k))
    /\ \A x \in Nat : x < p => Translate(kernel_directory, x) = x
    /\ \A j \in Nat : j < k => Translate(kernel_directory, HEAP_PAGE + j) = p + j

BootState ==
    /\ kheap = FALSE /\ KernelDir /\ DOMAIN dirs = {kernel_directory}
    /\ \A t \in DOMAIN tables : t \in Nat /\ (t + 1) * PAGE <= free_mem_addr

\* get_page is at work for the page, perhaps making its table first.
AskPage(page, alloc_it, rest) ==
    \/ script = Then(GetPage(kernel_directory, page, alloc_it), rest)
    \/ /\ script = Then(MakeTable(kernel_directory, table_idx(page), 0),
                        Then(GetPage(kernel_directory, page, alloc_it), rest))
       /\ ~HasTable(kernel_directory, page)

InSlots(k) ==
    /\ k \in Nat /\ k <= HEAP_PAGES /\ Slots(k) /\ Filled(0, 0)
    /\ \/ script = AtSlots(k)
       \/ k < HEAP_PAGES /\ AskPage(HEAP_PAGE + k, FALSE, AtSlots(k + 1))

InIdentity(p) ==
    /\ p \in Nat /\ Slots(HEAP_PAGES) /\ Filled(p, 0)
    /\ \/ script = AtIdentity(p)
       \/ AskPage(p, TRUE, AtIdentity(p + 1))

InHeap(p, k) ==
    /\ p \in Nat /\ k \in Nat /\ k <= HEAP_PAGES
    /\ free_mem_addr + PAGE <= p * PAGE /\ Slots(HEAP_PAGES) /\ Filled(p, k)
    /\ \/ script = AtHeap(k)
       \/ k < HEAP_PAGES /\ script = Then(GetPage(kernel_directory, HEAP_PAGE + k, TRUE),
                                          AtHeap(k + 1))

InHeapT(p) ==
    /\ p \in Nat /\ free_mem_addr + PAGE <= p * PAGE /\ Filled(p, HEAP_PAGES)
    /\ script = AtHeapT

InCreate(p) ==
    /\ p \in Nat /\ 0 < p /\ free_mem_addr <= p * PAGE /\ Filled(p, HEAP_PAGES)
    /\ script = AtCreate

Boot ==
    /\ BootState
    /\ \/ \E k : InSlots(k)
       \/ \E p : InIdentity(p)
       \/ \E p, k : InHeap(p, k)
       \/ \E p : InHeapT(p)
       \/ \E p : InCreate(p)

\* Which actions the step at the head of the script allows, before the heap.
LEMMA HeadStep ==
    ASSUME KNext, BitmapInv, kheap = FALSE, NEW x, NEW rest, IsList(rest),
           script = Then(x, rest)
    PROVE  /\ Current = x /\ Tail(script) = rest /\ script # <<>>
           /\ \/ UNCHANGED <<pvars, script, BootVars>>
              \/ x.op = "kmalloc" /\ kmalloc_placement
              \/ x.op = "get_page" /\ (get_page_make \/ get_page_there)
              \/ x.op = "identity" /\ identity_map
              \/ x.op = "heap" /\ heap_map
              \/ x.op = "create_heap" /\ create_heap
              \/ x.op \in {"alloc_frame", "move_stack", "exec"}
<1>1. Current = x /\ Tail(script) = rest /\ script # <<>>
    BY ThenFacts DEF Current
<1>2. \A o : Doing(o) <=> x.op = o
    BY <1>1 DEF Doing, Current
<1>3. ~kmalloc_return
  <2>1. ASSUME kmalloc_return PROVE FALSE
    <3>1. req # NoReq
        BY <2>1 DEF kmalloc_return, alloc_take
    <3> QED
        BY <3>1, RequestFacts
  <2> QED
      BY <2>1
<1>4. kill_process => UNCHANGED <<pvars, script, BootVars>>
    BY DEF kill_process
<1>5. ~kmalloc /\ ~schedule /\ ~kill_directory /\ ~command_page
    BY <1>1 DEF kmalloc, schedule, kill_directory, command_page, Running
<1>6. kmalloc_placement => x.op = "kmalloc"
    BY <1>2 DEF kmalloc_placement
<1>7. (get_page_make => x.op = "get_page") /\ (get_page_there => x.op = "get_page")
    BY <1>2 DEF get_page_make, get_page_there
<1>8. (clone_page => x.op = "alloc_frame") /\ (identity_map => x.op = "identity")
    BY <1>2 DEF clone_page, identity_map
<1>9. (heap_map => x.op = "heap") /\ (create_heap => x.op = "create_heap")
    BY <1>2 DEF heap_map, create_heap
<1>10. (move_stack => x.op = "move_stack") /\ (__exec => x.op = "exec")
    BY <1>2 DEF move_stack, __exec
<1> QED
    BY <1>1, <1>3, <1>4, <1>5, <1>6, <1>7, <1>8, <1>9, <1>10 DEF KNext

\* The fields of the steps.
LEMMA StepFields ==
    /\ \A d, page, al : /\ GetPage(d, page, al).op = "get_page" /\ GetPage(d, page, al).dir = d
                        /\ GetPage(d, page, al).page = page /\ GetPage(d, page, al).alloc = al
    /\ \A d, s, src : /\ MakeTable(d, s, src).op = "kmalloc"
                      /\ MakeTable(d, s, src).what = "table"
                      /\ MakeTable(d, s, src).size = 4096 /\ MakeTable(d, s, src).align = TRUE
                      /\ MakeTable(d, s, src).dir = d /\ MakeTable(d, s, src).slot = s
                      /\ MakeTable(d, s, src).src = src
    /\ \A p : IdentityLoop(p).op = "identity" /\ IdentityLoop(p).page = p
    /\ \A k, al : HeapLoop(k, al).op = "heap" /\ HeapLoop(k, al).page = k
                  /\ HeapLoop(k, al).alloc = al
    /\ \A name : Step(name).op = name
BY DEF GetPage, MakeTable, IdentityLoop, HeapLoop, Step, TABLE_SIZE

LEMMA SameKernelDir ==
    ASSUME UNCHANGED <<dirs, tables, kernel_directory>>, KernelDir, free_mem_addr' \in Nat,
           free_mem_addr <= free_mem_addr'
    PROVE  KernelDir'
<1>1. KernelTables' = KernelTables
    BY DEF KernelTables
<1>2. ASSUME NEW n \in Nat, n <= free_mem_addr PROVE n <= free_mem_addr'
    BY <1>2 DEF KernelDir
<1>3. (kernel_directory + 2) * PAGE <= free_mem_addr'
    BY <1>2, Geometry DEF KernelDir
<1>4. \A s \in DOMAIN KernelTables : (KernelTables[s] + 1) * PAGE <= free_mem_addr'
    BY <1>2, Geometry DEF KernelDir
<1> QED
    BY <1>1, <1>3, <1>4 DEF KernelDir, IsDir

LEMMA KeepFilled ==
    ASSUME SameMap, UNCHANGED <<frames, kernel_directory>>, NEW p \in Nat, NEW k \in Nat,
           Filled(p, k), k <= HEAP_PAGES
    PROVE  Filled(p, k)'
<1>1. ASSUME NEW x \in Nat
      PROVE  Mapped(kernel_directory, x)' <=> (x < p \/ (HEAP_PAGE <= x /\ x < HEAP_PAGE + k))
    BY DEF SameMap, Filled
<1>2. ASSUME NEW x \in Nat, x < p PROVE Translate(kernel_directory, x)' = x
    BY <1>2 DEF SameMap, Filled
<1>3. ASSUME NEW j \in Nat, j < k PROVE Translate(kernel_directory, HEAP_PAGE + j)' = p + j
  <2> DEFINE x == HEAP_PAGE + j
  <2>1. x \in Nat /\ HEAP_PAGE <= x /\ x < HEAP_PAGE + k
      BY <1>3, Geometry
  <2>2. Translate(kernel_directory, x) = p + j
      BY <1>3 DEF Filled
  <2> HIDE DEF x
  <2>3. Translate(kernel_directory, x)' = p + j
      BY <2>1, <2>2 DEF SameMap, Filled
  <2> QED
      BY <2>3 DEF x, HEAP_PAGE, ENTRIES
<1> QED
    BY <1>1, <1>2, <1>3 DEF Filled, HEAP_PAGE, ENTRIES

\* The kernel's directory, the tables and the script are left alone.
LEMMA SameBoot ==
    ASSUME BootState, UNCHANGED <<dirs, tables, kernel_directory, kheap>>,
           free_mem_addr' \in Nat, free_mem_addr <= free_mem_addr'
    PROVE  BootState' /\ SameMap
<1>1. KernelDir'
    BY SameKernelDir DEF BootState
<1>2. ASSUME NEW t \in DOMAIN tables PROVE (t + 1) * PAGE <= free_mem_addr'
  <2>1. t \in Nat /\ (t + 1) * PAGE <= free_mem_addr /\ free_mem_addr \in Nat
      BY <1>2 DEF BootState, KernelDir
  <2> QED
      BY <2>1, Geometry
<1>3. SameMap
    BY DEF SameMap, Mapped, HasTable, Translate, table_idx
<1> QED
    BY <1>1, <1>2, <1>3 DEF BootState

\* get_page puts the request for a table in front of itself.
LEMMA AskTable ==
    ASSUME BootState, NEW page, NEW al, NEW rest, IsList(rest),
           script = Then(GetPage(kernel_directory, page, al), rest), get_page_make
    PROVE  /\ UNCHANGED <<pvars, BootVars>> /\ ~HasTable(kernel_directory, page)
           /\ script' = Then(MakeTable(kernel_directory, table_idx(page), 0), script)
<1>1. Current = GetPage(kernel_directory, page, al)
    BY ThenFacts DEF Current
<1>2. Current.dir = kernel_directory /\ Current.page = page
    BY <1>1, StepFields
<1> QED
    BY <1>2 DEF get_page_make, Then, Join

LEMMA EmptyJoin == ASSUME NEW s, IsList(s) PROVE <<>> \o s = s
<1>1. PICK A : s \in Seq(A)
    BY DEF IsList
<1> QED
    BY <1>1

LEMMA SlotBound == ASSUME NEW x \in Nat, x < 916480 PROVE table_idx(x) \in Nat /\ table_idx(x) < 895
BY DEF table_idx, ENTRIES

\* What kmalloc's caller does with a new table, a kernel directory, other blocks.
LEMMA PlacedTable ==
    ASSUME NEW at, NEW phys, Placed(at, phys), Current.what = "table", Current.src = 0,
           NEW rest, IsList(rest), Tail(script) = rest
    PROVE  /\ NewTable(Current.dir, Current.slot, at, phys)
           /\ script' = rest /\ UNCHANGED <<cr3, kernel_directory>>
<1>1. NewTable(Current.dir, Current.slot, at, phys) /\ UNCHANGED <<cr3, kernel_directory>>
    BY DEF Placed
<1>2. script' = Join(<<>>, Tail(script))
    BY DEF Placed, Join
<1>3. Join(<<>>, rest) = rest
    BY EmptyJoin DEF Join
<1> QED
    BY ONLY <1>1, <1>2, <1>3, Tail(script) = rest

\* kmalloc places a table behind everything that was given out.
LEMMA PlaceTable ==
    ASSUME BootState, NEW slot \in Nat, slot < 895, slot \notin DOMAIN KernelTables,
           NEW rest, IsList(rest),
           script = Then(MakeTable(kernel_directory, slot, 0), rest), kmalloc_placement
    PROVE  /\ BootState' /\ SameMap /\ script' = rest /\ UNCHANGED <<frames, kernel_directory>>
           /\ \A x \in Nat : HasTable(kernel_directory, x) => HasTable(kernel_directory, x)'
<1>0. PAGE = 4096
    BY Geometry
<1> DEFINE kd == kernel_directory
           up == AlignUp(free_mem_addr)
           at == up \div PAGE
<1>1. Current = MakeTable(kd, slot, 0) /\ Tail(script) = rest
    BY ThenFacts DEF Current
<1>2. /\ Current.what = "table" /\ Current.size = 4096 /\ Current.align = TRUE
      /\ Current.dir = kd /\ Current.slot = slot /\ Current.src = 0
    BY <1>1, StepFields
<1>3. /\ free_mem_addr' = up + 4096 /\ Placed(at, at) /\ frames' = frames /\ kheap' = kheap
    BY <1>2 DEF kmalloc_placement
<1>4. /\ NewTable(kd, slot, at, at) /\ kernel_directory' = kernel_directory
      /\ script' = rest
  <2> HIDE DEF at, up
  <2>1. /\ NewTable(Current.dir, Current.slot, at, at)
        /\ script' = rest /\ UNCHANGED <<cr3, kernel_directory>>
      BY <1>1, <1>2, <1>3, PlacedTable
  <2> QED
      BY <1>2, <2>1
<1>6. free_mem_addr \in Nat /\ KernelDir
    BY DEF BootState, KernelDir
<1>7. /\ up \in Nat /\ free_mem_addr <= up /\ at \in Nat /\ at * PAGE = up
    BY <1>6, AlignedPage
<1> HIDE DEF up, at
<1>8. at \notin DOMAIN tables
  <2>1. ASSUME at \in DOMAIN tables PROVE FALSE
    <3>1. (at + 1) * PAGE <= free_mem_addr
        BY <2>1 DEF BootState
    <3> QED
        BY <1>0, <1>6, <1>7, <3>1
  <2> QED
      BY <2>1
<1>9. /\ SameMap
      /\ DOMAIN KernelTables' = DOMAIN KernelTables \cup {slot}
      /\ KernelTables'[slot] = at
      /\ \A s \in DOMAIN KernelTables : KernelTables'[s] = KernelTables[s]
      /\ DOMAIN dirs' = DOMAIN dirs
      /\ DOMAIN tables' = DOMAIN tables \cup {at}
      /\ IsDir(dirs'[kd])
      /\ dirs'[kd].physicalAddr = dirs[kd].physicalAddr
      /\ dirs'[kd].tablesPhysical = Put(dirs[kd].tablesPhysical, slot, at)
  <2> HIDE DEF kd
  <2>1. /\ KernelDir /\ slot \notin DOMAIN KernelTables /\ at \notin DOMAIN tables
        /\ UNCHANGED kernel_directory /\ NewTable(kernel_directory, slot, at, at)
      BY <1>4, <1>6, <1>8 DEF kd
  <2> QED
      BY ONLY <2>1, KernelTable, slot \in Nat DEF kd
<1>10. free_mem_addr' \in Nat /\ free_mem_addr' = (at + 1) * PAGE /\ free_mem_addr <= free_mem_addr'
    BY <1>0, <1>3, <1>6, <1>7
<1>11. ASSUME NEW t \in DOMAIN tables' PROVE t \in Nat /\ (t + 1) * PAGE <= free_mem_addr'
  <2>1. CASE t = at
      BY <1>0, <1>7, <1>10, <2>1
  <2>2. CASE t \in DOMAIN tables
    <3>1. t \in Nat /\ (t + 1) * PAGE <= free_mem_addr
        BY <2>2 DEF BootState
    <3> QED
        BY <1>0, <1>6, <1>10, <3>1
  <2> QED
      BY <1>9, <1>11, <2>1, <2>2
<1> DEFINE K == KernelTables
           L == KernelTables'
           f == dirs[kd].tablesPhysical
           g == Put(f, slot, at)
<1>12. /\ DOMAIN g = DOMAIN f \cup {slot} /\ g[slot] = at
       /\ \A s \in DOMAIN f : s # slot => g[s] = f[s]
    BY DEF Put
<1>13. ASSUME NEW s \in DOMAIN L
       PROVE  /\ s \in Nat /\ s < 895 /\ L[s] \in Nat /\ L[s] \in DOMAIN tables'
              /\ (L[s] + 1) * PAGE <= free_mem_addr' /\ g[s] = L[s]
  <2>1. CASE s = slot
      BY <1>0, <1>7, <1>9, <1>10, <1>12, <2>1
  <2>2. CASE s # slot
    <3>1. s \in DOMAIN K /\ L[s] = K[s]
        BY <1>9, <1>13, <2>2
    <3>2. /\ s \in Nat /\ s < 895 /\ K[s] \in Nat /\ K[s] \in DOMAIN tables /\ f[s] = K[s]
          /\ DOMAIN f = DOMAIN K
        BY <1>6, <3>1 DEF KernelDir
    <3>3. (K[s] + 1) * PAGE <= free_mem_addr'
        BY <1>9, <1>11, <3>2
    <3>4. g[s] = f[s]
        BY <1>12, <2>2, <3>1, <3>2
    <3> QED
        BY <1>9, <3>1, <3>2, <3>3, <3>4
  <2> QED
      BY <2>1, <2>2
<1>14. ASSUME NEW s \in DOMAIN L, NEW t \in DOMAIN L, L[s] = L[t] PROVE s = t
  <2>1. \A u \in DOMAIN K : K[u] \in DOMAIN tables /\ L[u] = K[u] /\ L[u] # at
      BY <1>6, <1>8, <1>9 DEF KernelDir
  <2>2. CASE s = slot \/ t = slot
      BY <1>9, <1>14, <2>1, <2>2
  <2>3. CASE s # slot /\ t # slot
    <3>1. s \in DOMAIN K /\ t \in DOMAIN K /\ K[s] = K[t]
        BY <1>9, <1>14, <2>1, <2>3
    <3> QED
        BY <1>6, <3>1 DEF KernelDir
  <2> QED
      BY <2>2, <2>3
<1>15. DOMAIN g = DOMAIN L
    BY <1>6, <1>9, <1>12 DEF KernelDir
<1>16. (kd + 2) * PAGE <= free_mem_addr' /\ kd \in Nat /\ kd \in DOMAIN dirs
       /\ dirs[kd].physicalAddr = kd + 1
    BY <1>0, <1>6, <1>10 DEF KernelDir
<1>17. KernelDir'
  <2> HIDE DEF g, f, K
  <2>1. dirs'[kd].tablesPhysical = g
      BY <1>9 DEF g, f
  <2> QED
      BY <1>4, <1>9, <1>10, <1>13, <1>14, <1>15, <1>16, <2>1 DEF KernelDir, IsDir
<1>18. BootState'
    BY <1>3, <1>4, <1>9, <1>11, <1>17 DEF BootState
<1>19. \A x \in Nat : HasTable(kd, x) => HasTable(kd, x)'
    BY <1>4, <1>9 DEF HasTable, KernelTables, table_idx
<1> QED
    BY <1>3, <1>4, <1>9, <1>18, <1>19

-----------------------------------------------------------------------------
(* Each part of initialise_paging leads to the next                        *)

LEMMA PageBoot ==
    ASSUME BootState, UNCHANGED <<dirs, BootVars>>, DOMAIN tables' = DOMAIN tables
    PROVE  BootState'
<1>1. KernelTables' = KernelTables
    BY DEF KernelTables, BootVars
<1>2. KernelDir'
    BY <1>1 DEF KernelDir, IsDir, BootState, BootVars
<1> QED
    BY <1>2 DEF BootState, BootVars

LEMMA KeepSlots ==
    ASSUME NEW k, Slots(k),
           \A x \in Nat : HasTable(kernel_directory, x) => HasTable(kernel_directory, x)'
    PROVE  Slots(k)'
<1> SUFFICES ASSUME NEW j \in Nat, j < k
             PROVE  HasTable(kernel_directory, HEAP_PAGE + j)'
    BY DEF Slots, HEAP_PAGE, ENTRIES
<1>1. HEAP_PAGE + j \in Nat
    BY Geometry
<1>2. HasTable(kernel_directory, HEAP_PAGE + j)
    BY DEF Slots
<1> DEFINE x == HEAP_PAGE + j
<1> HIDE DEF x
<1>3. HasTable(kernel_directory, x)'
    BY <1>1, <1>2 DEF x
<1> QED
    BY <1>3 DEF x, HEAP_PAGE, ENTRIES

\* Nothing but the script changes.
LEMMA ScriptOnly ==
    ASSUME BootState, UNCHANGED <<pvars, BootVars>>
    PROVE  /\ BootState' /\ SameMap /\ UNCHANGED <<frames, kernel_directory, free_mem_addr>>
           /\ \A x \in Nat : HasTable(kernel_directory, x) => HasTable(kernel_directory, x)'
<1>1. UNCHANGED <<frames, tables, dirs, kernel_directory, kheap, free_mem_addr>>
    BY DEF pvars, BootVars
<1>2. free_mem_addr \in Nat
    BY DEF BootState, KernelDir
<1>3. free_mem_addr' \in Nat /\ free_mem_addr <= free_mem_addr'
    BY <1>1, <1>2
<1>4. BootState' /\ SameMap
    BY <1>1, <1>3, SameBoot
<1> QED
    BY <1>1, <1>4 DEF HasTable, table_idx

LEMMA HeapMap ==
    ASSUME NEW k \in Nat, NEW al, NEW rest, IsList(rest),
           script = Then(HeapLoop(k, al), rest), heap_map
    PROVE  /\ UNCHANGED <<pvars, BootVars>>
           /\ k < HEAP_PAGES =>
                 script' = Then(GetPage(kernel_directory, HEAP_PAGE + k, al),
                                Then(HeapLoop(k + 1, al), rest))
           /\ ~(k < HEAP_PAGES) => script' = rest
<1>1. Current = HeapLoop(k, al) /\ Tail(script) = rest
    BY ThenFacts DEF Current
<1>2. Current.page = k /\ Current.alloc = al
    BY <1>1, StepFields
<1> DEFINE a == GetPage(kernel_directory, HEAP_PAGE + k, al)
           b == HeapLoop(k + 1, al)
<1> HIDE DEF a, b
<1>3. /\ UNCHANGED <<pvars, BootVars>>
      /\ script' = IF k < HEAP_PAGES THEN <<a, b>> \o rest ELSE rest
    BY <1>1, <1>2 DEF heap_map, a, b
<1>4. <<a, b>> \o rest = Then(a, Then(b, rest))
    BY ThenTwo
<1> QED
    BY <1>3, <1>4 DEF a, b

LEMMA IdentityMap ==
    ASSUME NEW p \in Nat, NEW rest, IsList(rest),
           script = Then(IdentityLoop(p), rest), identity_map
    PROVE  /\ UNCHANGED <<pvars, BootVars>>
           /\ p * FRAME_SIZE < IdentityBound =>
                 script' = Then(GetPage(kernel_directory, p, TRUE),
                                Then(IdentityLoop(p + 1), rest))
           /\ ~(p * FRAME_SIZE < IdentityBound) => script' = rest
<1>1. Current = IdentityLoop(p) /\ Tail(script) = rest
    BY ThenFacts DEF Current
<1>2. Current.page = p
    BY <1>1, StepFields
<1> DEFINE a == GetPage(kernel_directory, p, TRUE)
           b == IdentityLoop(p + 1)
<1> HIDE DEF a, b
<1>3. /\ UNCHANGED <<pvars, BootVars>>
      /\ script' = IF p * FRAME_SIZE < IdentityBound THEN <<a, b>> \o rest ELSE rest
    BY <1>1, <1>2 DEF identity_map, a, b
<1>4. <<a, b>> \o rest = Then(a, Then(b, rest))
    BY ThenTwo
<1> QED
    BY <1>3, <1>4 DEF a, b

LEMMA PageThere ==
    ASSUME NEW page, NEW al, NEW rest, IsList(rest),
           script = Then(GetPage(kernel_directory, page, al), rest), get_page_there
    PROVE  /\ HasTable(kernel_directory, page) /\ script' = rest
           /\ UNCHANGED <<dirs, cr3, BootVars>>
           /\ al = TRUE => alloc_frame(get_page(kernel_directory, page)[1],
                                       get_page(kernel_directory, page)[2])
           /\ al = FALSE => UNCHANGED <<frames, tables>>
<1>1. Current = GetPage(kernel_directory, page, al) /\ Tail(script) = rest
    BY ThenFacts DEF Current
<1>2. Current.dir = kernel_directory /\ Current.page = page /\ Current.alloc = al
    BY <1>1, StepFields
<1> QED
    BY <1>1, <1>2 DEF get_page_there

\* get_page at work: it waits, gets nearer, or is there.
LEMMA AskStep ==
    ASSUME KNext, BitmapInv, BootState, NEW page, NEW al,
           table_idx(page) \in Nat, table_idx(page) < 895,
           NEW rest, IsList(rest), AskPage(page, al, rest)
    PROVE  \/ UNCHANGED <<pvars, script, BootVars>>
           \/ /\ BootState' /\ SameMap /\ UNCHANGED <<frames, kernel_directory>>
              /\ \A x \in Nat : HasTable(kernel_directory, x) => HasTable(kernel_directory, x)'
              /\ AskPage(page, al, rest)'
           \/ /\ get_page_there
              /\ script = Then(GetPage(kernel_directory, page, al), rest)
<1> DEFINE g == GetPage(kernel_directory, page, al)
           m == MakeTable(kernel_directory, table_idx(page), 0)
<1>1. kheap = FALSE
    BY DEF BootState
<1>2. CASE script = Then(g, rest)
  <2>1. g.op = "get_page"
      BY StepFields
  <2>2. \/ UNCHANGED <<pvars, script, BootVars>>
        \/ get_page_make \/ get_page_there
      BY <1>1, <1>2, <2>1, HeadStep
  <2>3. CASE get_page_make
    <3>1. /\ UNCHANGED <<pvars, BootVars>> /\ ~HasTable(kernel_directory, page)
          /\ script' = Then(m, script)
        BY <1>2, <2>3, AskTable
    <3>2. /\ BootState' /\ SameMap /\ UNCHANGED <<frames, kernel_directory>>
          /\ \A x \in Nat : HasTable(kernel_directory, x) => HasTable(kernel_directory, x)'
        BY <3>1, ScriptOnly
    <3>3. ~HasTable(kernel_directory, page)'
        BY <3>1 DEF pvars, BootVars, HasTable, table_idx
    <3>4. script' = Then(m, Then(g, rest))
        BY <1>2, <3>1
    <3>5. AskPage(page, al, rest)'
        BY <3>2, <3>3, <3>4 DEF AskPage, table_idx
    <3> QED
        BY <3>2, <3>5
  <2> QED
      BY <1>2, <2>2, <2>3
<1>3. CASE script = Then(m, Then(g, rest)) /\ ~HasTable(kernel_directory, page)
  <2>1. m.op = "kmalloc" /\ IsList(Then(g, rest))
      BY StepFields, ThenFacts
  <2>2. \/ UNCHANGED <<pvars, script, BootVars>>
        \/ kmalloc_placement
      BY <1>1, <1>3, <2>1, HeadStep
  <2>3. CASE kmalloc_placement
    <3>2. table_idx(page) \notin DOMAIN KernelTables
        BY <1>3 DEF HasTable, KernelTables
    <3>3. /\ BootState' /\ SameMap /\ script' = Then(g, rest)
          /\ UNCHANGED <<frames, kernel_directory>>
          /\ \A x \in Nat : HasTable(kernel_directory, x) => HasTable(kernel_directory, x)'
        BY <1>3, <2>1, <2>3, <3>2, PlaceTable
    <3>4. AskPage(page, al, rest)'
        BY <3>3 DEF AskPage
    <3> QED
        BY <3>3, <3>4
  <2> QED
      BY <2>2, <2>3
<1> QED
    BY <1>2, <1>3 DEF AskPage

LEMMA PageSlots ==
    /\ \A k \in Nat : k < HEAP_PAGES =>
          /\ table_idx(HEAP_PAGE + k) \in Nat /\ table_idx(HEAP_PAGE + k) < 895
    /\ \A p \in Cleared : table_idx(p) \in Nat /\ table_idx(p) < 895
<1>1. ASSUME NEW k \in Nat, k < HEAP_PAGES
      PROVE  table_idx(HEAP_PAGE + k) \in Nat /\ table_idx(HEAP_PAGE + k) < 895
  <2>1. HEAP_PAGE + k \in Nat /\ HEAP_PAGE + k < 916480
      BY <1>1, Geometry
  <2> QED
      BY <2>1, SlotBound
<1>2. ASSUME NEW p \in Cleared PROVE table_idx(p) \in Nat /\ table_idx(p) < 895
  <2>1. p \in Nat /\ p < 916480
      BY Geometry
  <2> QED
      BY <2>1, SlotBound
<1> QED
    BY <1>1, <1>2

LEMMA SlotsStep ==
    ASSUME KNext, BitmapInv, BootState, NEW k, InSlots(k)
    PROVE  UNCHANGED <<pvars, script, BootVars>> \/ Boot'
<1>1. /\ k \in Nat /\ k <= HEAP_PAGES /\ Slots(k) /\ Filled(0, 0) /\ kheap = FALSE
      /\ 0 \in Nat /\ 0 <= HEAP_PAGES /\ HEAP_PAGES \in Nat
    BY Geometry DEF InSlots, BootState
<1>2. CASE script = AtSlots(k)
  <2> DEFINE rest == AtIdentity(0)
  <2>1. script = Then(HeapLoop(k, FALSE), rest) /\ HeapLoop(k, FALSE).op = "heap" /\ IsList(rest)
    <3>1. HeapLoop(k, FALSE).op = "heap"
        BY DEF HeapLoop
    <3>2. IsList(AtIdentity(0))
        BY AreLists
    <3> QED
        BY <1>2, <3>1, <3>2 DEF AtSlots
  <2> HIDE DEF rest
  <2>2. UNCHANGED <<pvars, script, BootVars>> \/ heap_map
      BY <1>1, <2>1, HeadStep
  <2>3. CASE heap_map
    <3>1. /\ UNCHANGED <<pvars, BootVars>>
          /\ k < HEAP_PAGES =>
                script' = Then(GetPage(kernel_directory, HEAP_PAGE + k, FALSE),
                               Then(HeapLoop(k + 1, FALSE), rest))
          /\ ~(k < HEAP_PAGES) => script' = rest
        BY <1>1, <2>1, <2>3, HeapMap
    <3>2. /\ BootState' /\ SameMap /\ UNCHANGED <<frames, kernel_directory>>
          /\ \A x \in Nat : HasTable(kernel_directory, x) => HasTable(kernel_directory, x)'
        BY <3>1, ScriptOnly
    <3>3. Slots(k)' /\ Filled(0, 0)'
        BY <1>1, <3>2, KeepSlots, KeepFilled
    <3>4. CASE k < HEAP_PAGES
      <4>1. AskPage(HEAP_PAGE + k, FALSE, AtSlots(k + 1))'
          BY <3>1, <3>2, <3>4 DEF AskPage, AtSlots, rest
      <4>2. InSlots(k)'
          BY <1>1, <3>3, <3>4, <4>1 DEF InSlots
      <4> QED
          BY <3>2, <4>2 DEF Boot
    <3>5. CASE ~(k < HEAP_PAGES)
      <4>1. k = HEAP_PAGES
          BY <1>1, <3>5
      <4>2. Slots(HEAP_PAGES)' /\ script' = AtIdentity(0)
          BY <3>1, <3>3, <3>5, <4>1 DEF rest
      <4>3. InIdentity(0)'
          BY <3>3, <4>2 DEF InIdentity
      <4> QED
          BY <3>2, <4>3 DEF Boot
    <3> QED
        BY <3>4, <3>5
  <2> QED
      BY <2>2, <2>3
<1>3. CASE k < HEAP_PAGES /\ AskPage(HEAP_PAGE + k, FALSE, AtSlots(k + 1))
  <2> DEFINE page == HEAP_PAGE + k
             rest == AtSlots(k + 1)
  <2>1. IsList(rest) /\ table_idx(page) \in Nat /\ table_idx(page) < 895
      BY <1>1, <1>3, AreLists, PageSlots
  <2>2. AskPage(page, FALSE, rest)
      BY <1>3
  <2> HIDE DEF page, rest
  <2>3. \/ UNCHANGED <<pvars, script, BootVars>>
        \/ /\ BootState' /\ SameMap /\ UNCHANGED <<frames, kernel_directory>>
           /\ \A x \in Nat : HasTable(kernel_directory, x) => HasTable(kernel_directory, x)'
           /\ AskPage(page, FALSE, rest)'
        \/ /\ get_page_there
           /\ script = Then(GetPage(kernel_directory, page, FALSE), rest)
      BY <2>1, <2>2, AskStep
  <2>4. CASE /\ BootState' /\ SameMap /\ UNCHANGED <<frames, kernel_directory>>
             /\ \A x \in Nat : HasTable(kernel_directory, x) => HasTable(kernel_directory, x)'
             /\ AskPage(page, FALSE, rest)'
    <3>1. Slots(k)' /\ Filled(0, 0)'
        BY <1>1, <2>4, KeepSlots, KeepFilled
    <3>2. AskPage(HEAP_PAGE + k, FALSE, AtSlots(k + 1))'
        BY <2>4 DEF page, rest
    <3>3. InSlots(k)'
        BY <1>1, <1>3, <3>1, <3>2 DEF InSlots
    <3> QED
        BY <2>4, <3>3 DEF Boot
  <2>5. CASE get_page_there /\ script = Then(GetPage(kernel_directory, page, FALSE), rest)
    <3>1. /\ HasTable(kernel_directory, page) /\ script' = rest
          /\ UNCHANGED <<dirs, cr3, BootVars>> /\ UNCHANGED <<frames, tables>>
        BY <2>1, <2>5, PageThere
    <3>2. UNCHANGED <<pvars, BootVars>>
        BY <3>1 DEF pvars
    <3>3. /\ BootState' /\ SameMap /\ UNCHANGED <<frames, kernel_directory>>
          /\ \A x \in Nat : HasTable(kernel_directory, x) => HasTable(kernel_directory, x)'
        BY <3>2, ScriptOnly
    <3>4. Slots(k + 1)
        BY <1>1, <3>1 DEF Slots, page
    <3>5. Slots(k + 1)' /\ Filled(0, 0)'
        BY <1>1, <3>3, <3>4, KeepSlots, KeepFilled
    <3>6. k + 1 \in Nat /\ k + 1 <= HEAP_PAGES
        BY <1>1, <1>3
    <3>7. InSlots(k + 1)'
        BY <3>1, <3>5, <3>6 DEF InSlots, rest
    <3> QED
        BY <3>3, <3>7 DEF Boot
  <2> QED
      BY <2>3, <2>4, <2>5
<1> QED
    BY <1>2, <1>3 DEF InSlots

LEMMA IdentityStep ==
    ASSUME KNext, BitmapInv, BootState, ~Exhausted, NEW p, InIdentity(p)
    PROVE  UNCHANGED <<pvars, script, BootVars>> \/ Boot'
<1>1. /\ p \in Nat /\ Slots(HEAP_PAGES) /\ Filled(p, 0) /\ kheap = FALSE
      /\ 0 \in Nat /\ 0 <= HEAP_PAGES /\ HEAP_PAGES \in Nat
    BY Geometry DEF InIdentity, BootState
<1>2. CASE script = AtIdentity(p)
  <2> DEFINE rest == AtHeap(0)
  <2>1. script = Then(IdentityLoop(p), rest) /\ IdentityLoop(p).op = "identity" /\ IsList(rest)
    <3>1. IdentityLoop(p).op = "identity"
        BY DEF IdentityLoop
    <3>2. IsList(AtHeap(0))
        BY AreLists
    <3> QED
        BY <1>2, <3>1, <3>2 DEF AtIdentity
  <2> HIDE DEF rest
  <2>2. UNCHANGED <<pvars, script, BootVars>> \/ identity_map
      BY <1>1, <2>1, HeadStep
  <2>3. CASE identity_map
    <3>1. /\ UNCHANGED <<pvars, BootVars>>
          /\ p * FRAME_SIZE < IdentityBound =>
                script' = Then(GetPage(kernel_directory, p, TRUE),
                               Then(IdentityLoop(p + 1), rest))
          /\ ~(p * FRAME_SIZE < IdentityBound) => script' = rest
        BY <1>1, <2>1, <2>3, IdentityMap
    <3>2. /\ BootState' /\ SameMap /\ UNCHANGED <<frames, kernel_directory, free_mem_addr>>
          /\ \A x \in Nat : HasTable(kernel_directory, x) => HasTable(kernel_directory, x)'
        BY <3>1, ScriptOnly
    <3>3. Slots(HEAP_PAGES)' /\ Filled(p, 0)'
        BY <1>1, <3>2, KeepSlots, KeepFilled
    <3>4. CASE p * FRAME_SIZE < IdentityBound
      <4>1. AskPage(p, TRUE, AtIdentity(p + 1))'
          BY <3>1, <3>2, <3>4 DEF AskPage, AtIdentity, rest
      <4>2. InIdentity(p)'
          BY <1>1, <3>3, <3>4, <4>1 DEF InIdentity
      <4> QED
          BY <3>2, <4>2 DEF Boot
    <3>5. CASE ~(p * FRAME_SIZE < IdentityBound)
      <4>1. free_mem_addr \in Nat /\ PAGE = 4096 /\ FRAME_SIZE = 4096
          BY Geometry DEF BootState, KernelDir
      <4>2. free_mem_addr + PAGE <= p * PAGE
          BY <1>1, <3>5, <4>1 DEF IdentityBound
      <4>3. (free_mem_addr + PAGE <= p * PAGE)' /\ script' = AtHeap(0)
          BY <3>1, <3>2, <3>5, <4>2 DEF rest
      <4>4. InHeap(p, 0)'
          BY <1>1, <3>3, <4>3 DEF InHeap
      <4> QED
          BY <3>2, <4>4 DEF Boot
    <3> QED
        BY <3>4, <3>5
  <2> QED
      BY <2>2, <2>3
<1>3. CASE AskPage(p, TRUE, AtIdentity(p + 1))
  <2> DEFINE rest == AtIdentity(p + 1)
  <2>1. frames = 0 .. p - 1
      BY <1>1 DEF Filled
  <2>2. p \in Cleared
      BY <1>1, <2>1, FirstFrame
  <2>3. IsList(rest) /\ table_idx(p) \in Nat /\ table_idx(p) < 895
      BY <2>2, AreLists, PageSlots
  <2>4. AskPage(p, TRUE, rest)
      BY <1>3
  <2> HIDE DEF rest
  <2>5. \/ UNCHANGED <<pvars, script, BootVars>>
        \/ /\ BootState' /\ SameMap /\ UNCHANGED <<frames, kernel_directory>>
           /\ \A x \in Nat : HasTable(kernel_directory, x) => HasTable(kernel_directory, x)'
           /\ AskPage(p, TRUE, rest)'
        \/ /\ get_page_there
           /\ script = Then(GetPage(kernel_directory, p, TRUE), rest)
      BY <2>3, <2>4, AskStep
  <2>6. CASE /\ BootState' /\ SameMap /\ UNCHANGED <<frames, kernel_directory>>
             /\ \A x \in Nat : HasTable(kernel_directory, x) => HasTable(kernel_directory, x)'
             /\ AskPage(p, TRUE, rest)'
    <3>1. Slots(HEAP_PAGES)' /\ Filled(p, 0)'
        BY <1>1, <2>6, KeepSlots, KeepFilled
    <3>2. AskPage(p, TRUE, AtIdentity(p + 1))'
        BY <2>6 DEF rest
    <3>3. InIdentity(p)'
        BY <1>1, <3>1, <3>2 DEF InIdentity
    <3> QED
        BY <2>6, <3>3 DEF Boot
  <2>7. CASE get_page_there /\ script = Then(GetPage(kernel_directory, p, TRUE), rest)
    <3>1. /\ HasTable(kernel_directory, p) /\ script' = rest
          /\ UNCHANGED <<dirs, cr3, BootVars>>
          /\ alloc_frame(get_page(kernel_directory, p)[1], get_page(kernel_directory, p)[2])
        BY <2>3, <2>7, PageThere
    <3>2. UNCHANGED <<kernel_directory, dirs>> /\ KernelDir
        BY <3>1 DEF BootVars, BootState
    <3>3. ~Mapped(kernel_directory, p)
        BY <1>1, Geometry DEF Filled
    <3>4. /\ frames' = 0 .. p
          /\ DOMAIN tables' = DOMAIN tables
          /\ Translate(kernel_directory, p)' = p
        BY ONLY <1>1, <2>1, <3>1, <3>2, <3>3, ~Exhausted, KernelPage
    <3>5. \A y \in Nat :
             /\ Mapped(kernel_directory, y)' = (y = p \/ Mapped(kernel_directory, y))
             /\ y # p /\ Mapped(kernel_directory, y) =>
                   Translate(kernel_directory, y)' = Translate(kernel_directory, y)
        BY ONLY <1>1, <2>1, <3>1, <3>2, <3>3, ~Exhausted, KernelPage
    <3>6. BootState'
        BY <3>1, <3>4, PageBoot
    <3>7. Slots(HEAP_PAGES)'
      <4>1. \A x \in Nat : HasTable(kernel_directory, x) => HasTable(kernel_directory, x)'
          BY <3>2 DEF HasTable, table_idx
      <4> QED
          BY <1>1, <4>1, KeepSlots
    <3>8. Filled(p + 1, 0)'
      <4>1. frames' = 0 .. (p + 1) + 0 - 1
          BY <1>1, <3>4
      <4>2. ASSUME NEW x \in Nat
            PROVE  /\ Mapped(kernel_directory, x)' <=> x < p + 1
                   /\ x < p + 1 => Translate(kernel_directory, x)' = x
        <5>1. /\ Mapped(kernel_directory, x) <=> x < p
              /\ x < p => Translate(kernel_directory, x) = x
            BY <1>1, Geometry DEF Filled
        <5>2. x < p + 1 <=> (x = p \/ x < p)
            BY <1>1
        <5> QED
            BY <3>4, <3>5, <5>1, <5>2
      <4>3. \A x \in Nat : ~(HEAP_PAGE <= x /\ x < HEAP_PAGE + 0)
          BY Geometry
      <4>4. ~(\E j \in Nat : j < 0)
          OBVIOUS
      <4> QED
          BY <4>1, <4>2, <4>3, <4>4 DEF Filled, HEAP_PAGE, ENTRIES
    <3>9. p + 1 \in Nat /\ script' = AtIdentity(p + 1)
        BY <1>1, <3>1 DEF rest
    <3>10. InIdentity(p + 1)'
        BY <3>7, <3>8, <3>9 DEF InIdentity
    <3> QED
        BY <3>6, <3>10 DEF Boot
  <2> QED
      BY <2>5, <2>6, <2>7
<1> QED
    BY <1>2, <1>3 DEF InIdentity

\* A page of the heap gets the next frame.
LEMMA HeapPageFilled ==
    ASSUME NEW p \in Nat, NEW k \in Nat, p < HEAP_PAGE, Filled(p, k),
           frames' = 0 .. p + k, Translate(kernel_directory, HEAP_PAGE + k)' = p + k,
           \A y \in Nat :
              /\ Mapped(kernel_directory, y)' = (y = HEAP_PAGE + k \/ Mapped(kernel_directory, y))
              /\ y # HEAP_PAGE + k /\ Mapped(kernel_directory, y) =>
                    Translate(kernel_directory, y)' = Translate(kernel_directory, y)
    PROVE  Filled(p, k + 1)'
<1>0. HEAP_PAGE \in Nat
    BY Geometry
<1>1. frames' = 0 .. p + (k + 1) - 1
    OBVIOUS
<1>2. ASSUME NEW x \in Nat
      PROVE  Mapped(kernel_directory, x)' <=>
                 (x < p \/ (HEAP_PAGE <= x /\ x < HEAP_PAGE + (k + 1)))
  <2>1. Mapped(kernel_directory, x) <=> (x < p \/ (HEAP_PAGE <= x /\ x < HEAP_PAGE + k))
      BY DEF Filled
  <2>2. (HEAP_PAGE <= x /\ x < HEAP_PAGE + (k + 1)) <=>
            (x = HEAP_PAGE + k \/ (HEAP_PAGE <= x /\ x < HEAP_PAGE + k))
      BY <1>0
  <2> QED
      BY <2>1, <2>2
<1>3. ASSUME NEW x \in Nat, x < p PROVE Translate(kernel_directory, x)' = x
  <2>1. Mapped(kernel_directory, x) /\ Translate(kernel_directory, x) = x
      BY <1>3 DEF Filled
  <2>2. x # HEAP_PAGE + k
      BY <1>0, <1>3
  <2> QED
      BY <2>1, <2>2
<1>4. ASSUME NEW j \in Nat, j < k + 1
      PROVE  Translate(kernel_directory, HEAP_PAGE + j)' = p + j
  <2>1. CASE j = k
      BY <2>1
  <2>2. CASE j # k
    <3> DEFINE x == HEAP_PAGE + j
    <3>1. j < k /\ x \in Nat /\ HEAP_PAGE <= x /\ x < HEAP_PAGE + k /\ x # HEAP_PAGE + k
        BY <1>0, <1>4, <2>2
    <3>2. Translate(kernel_directory, x) = p + j
        BY <3>1 DEF Filled
    <3> HIDE DEF x
    <3>3. Mapped(kernel_directory, x)
        BY <3>1 DEF Filled
    <3>4. Translate(kernel_directory, x)' = p + j
        BY <3>1, <3>2, <3>3
    <3> QED
        BY <3>4 DEF x, HEAP_PAGE, ENTRIES
  <2> QED
      BY <2>1, <2>2
<1> QED
    BY <1>1, <1>2, <1>3, <1>4 DEF Filled, HEAP_PAGE, ENTRIES

LEMMA HeapPagesStep ==
    ASSUME KNext, BitmapInv, BootState, ~Exhausted, NEW p, NEW k, InHeap(p, k)
    PROVE  UNCHANGED <<pvars, script, BootVars>> \/ Boot'
<1>1. /\ p \in Nat /\ k \in Nat /\ k <= HEAP_PAGES /\ free_mem_addr + PAGE <= p * PAGE
      /\ Slots(HEAP_PAGES) /\ Filled(p, k) /\ kheap = FALSE /\ HEAP_PAGES \in Nat
    BY Geometry DEF InHeap, BootState
<1>2. CASE script = AtHeap(k)
  <2> DEFINE rest == AtHeapT
  <2>1. script = Then(HeapLoop(k, TRUE), rest) /\ HeapLoop(k, TRUE).op = "heap" /\ IsList(rest)
    <3>1. HeapLoop(k, TRUE).op = "heap"
        BY DEF HeapLoop
    <3>2. IsList(AtHeapT)
        BY AreLists
    <3> QED
        BY <1>2, <3>1, <3>2 DEF AtHeap
  <2> HIDE DEF rest
  <2>2. UNCHANGED <<pvars, script, BootVars>> \/ heap_map
      BY <1>1, <2>1, HeadStep
  <2>3. CASE heap_map
    <3>1. /\ UNCHANGED <<pvars, BootVars>>
          /\ k < HEAP_PAGES =>
                script' = Then(GetPage(kernel_directory, HEAP_PAGE + k, TRUE),
                               Then(HeapLoop(k + 1, TRUE), rest))
          /\ ~(k < HEAP_PAGES) => script' = rest
        BY <1>1, <2>1, <2>3, HeapMap
    <3>2. /\ BootState' /\ SameMap /\ UNCHANGED <<frames, kernel_directory, free_mem_addr>>
          /\ \A x \in Nat : HasTable(kernel_directory, x) => HasTable(kernel_directory, x)'
        BY <3>1, ScriptOnly
    <3>3. Slots(HEAP_PAGES)' /\ Filled(p, k)' /\ (free_mem_addr + PAGE <= p * PAGE)'
        BY <1>1, <3>2, KeepSlots, KeepFilled
    <3>4. CASE k < HEAP_PAGES
      <4>1. script' = Then(GetPage(kernel_directory', HEAP_PAGE + k, TRUE), AtHeap(k + 1))
          BY <3>1, <3>2, <3>4 DEF AtHeap, rest
      <4>2. InHeap(p, k)'
          BY <1>1, <3>3, <3>4, <4>1 DEF InHeap
      <4> QED
          BY <3>2, <4>2 DEF Boot
    <3>5. CASE ~(k < HEAP_PAGES)
      <4>1. k = HEAP_PAGES
          BY <1>1, <3>5
      <4>2. Filled(p, HEAP_PAGES)' /\ script' = AtHeapT
          BY <3>1, <3>3, <3>5, <4>1 DEF rest
      <4>3. InHeapT(p)'
          BY <1>1, <3>3, <4>2 DEF InHeapT
      <4> QED
          BY <3>2, <4>3 DEF Boot
    <3> QED
        BY <3>4, <3>5
  <2> QED
      BY <2>2, <2>3
<1>3. CASE /\ k < HEAP_PAGES
           /\ script = Then(GetPage(kernel_directory, HEAP_PAGE + k, TRUE), AtHeap(k + 1))
  <2> DEFINE page == HEAP_PAGE + k
             rest == AtHeap(k + 1)
             n == p + k
  <2>1. frames = 0 .. n - 1 /\ n \in Nat /\ p <= n
      BY <1>1 DEF Filled
  <2> HIDE DEF n
  <2>2. n \in Cleared
      BY <2>1, FirstFrame
  <2>3. p < HEAP_PAGE /\ page \in Nat /\ HEAP_PAGE \in Nat /\ ~(page < HEAP_PAGE)
      BY <1>1, <2>1, <2>2, Geometry
  <2>4. HasTable(kernel_directory, page)
      BY <1>1, <1>3 DEF Slots
  <2>5. ~Mapped(kernel_directory, page)
      BY <1>1, <2>3 DEF Filled
  <2>6. GetPage(kernel_directory, page, TRUE).op = "get_page" /\ IsList(rest)
    <3>1. GetPage(kernel_directory, page, TRUE).op = "get_page"
        BY DEF GetPage
    <3>2. IsList(AtHeap(k + 1))
        BY AreLists
    <3> QED
        BY <3>1, <3>2
  <2>7. script = Then(GetPage(kernel_directory, page, TRUE), rest)
      BY <1>3
  <2> HIDE DEF page, rest
  <2>8. UNCHANGED <<pvars, script, BootVars>> \/ get_page_make \/ get_page_there
      BY <1>1, <2>6, <2>7, HeadStep
  <2>9. ~get_page_make
      BY <2>4, <2>6, <2>7, AskTable
  <2>10. CASE get_page_there
    <3>1. /\ script' = rest /\ UNCHANGED <<dirs, cr3, BootVars>>
          /\ alloc_frame(get_page(kernel_directory, page)[1],
                         get_page(kernel_directory, page)[2])
        BY <2>6, <2>7, <2>10, PageThere
    <3>2. UNCHANGED <<kernel_directory, dirs, free_mem_addr>> /\ KernelDir
        BY <3>1 DEF BootVars, BootState
    <3>3. /\ frames' = 0 .. n
          /\ DOMAIN tables' = DOMAIN tables
          /\ Translate(kernel_directory, page)' = n
        BY ONLY <2>1, <2>3, <2>4, <2>5, <3>1, <3>2, ~Exhausted, KernelPage
    <3>4. \A y \in Nat :
             /\ Mapped(kernel_directory, y)' = (y = page \/ Mapped(kernel_directory, y))
             /\ y # page /\ Mapped(kernel_directory, y) =>
                   Translate(kernel_directory, y)' = Translate(kernel_directory, y)
        BY ONLY <2>1, <2>3, <2>4, <2>5, <3>1, <3>2, ~Exhausted, KernelPage
    <3>5. BootState'
        BY <3>1, <3>3, PageBoot
    <3>6. Slots(HEAP_PAGES)'
      <4>1. \A x \in Nat : HasTable(kernel_directory, x) => HasTable(kernel_directory, x)'
          BY <3>2 DEF HasTable, table_idx
      <4> QED
          BY <1>1, <4>1, KeepSlots
    <3>7. Filled(p, k + 1)'
        BY <1>1, <2>3, <3>3, <3>4, HeapPageFilled DEF page, n
    <3>8. k + 1 \in Nat /\ k + 1 <= HEAP_PAGES /\ script' = AtHeap(k + 1)
        BY <1>1, <1>3, <3>1 DEF rest
    <3>9. InHeap(p, k + 1)'
        BY <1>1, <3>2, <3>6, <3>7, <3>8 DEF InHeap
    <3> QED
        BY <3>5, <3>9 DEF Boot
  <2> QED
      BY <2>8, <2>9, <2>10
<1> QED
    BY <1>2, <1>3 DEF InHeap

\* heap_t is placed in the page that the identity loop mapped beyond its bound.
LEMMA HeapTStep ==
    ASSUME KNext, BitmapInv, BootState, NEW p, InHeapT(p)
    PROVE  UNCHANGED <<pvars, script, BootVars>> \/ Boot'
<1> DEFINE x == Request("heap_t", 0, HEAP_T_SIZE, FALSE, TRUE)
<1>1. /\ p \in Nat /\ free_mem_addr + PAGE <= p * PAGE /\ Filled(p, HEAP_PAGES)
      /\ kheap = FALSE /\ HEAP_PAGES \in Nat /\ free_mem_addr \in Nat /\ PAGE = 4096
    BY Geometry DEF InHeapT, BootState, KernelDir
<1>2. /\ x.op = "kmalloc" /\ x.what = "heap_t" /\ x.size = 32 /\ x.align = FALSE
    BY DEF Request, HEAP_T_SIZE
<1>3. script = Then(x, AtCreate) /\ IsList(AtCreate)
    BY AreLists DEF InHeapT, AtHeapT
<1> HIDE DEF x
<1>4. UNCHANGED <<pvars, script, BootVars>> \/ kmalloc_placement
  <2>1. kheap = FALSE /\ x.op = "kmalloc"
      BY <1>1, <1>2
  <2> QED
      BY ONLY <1>3, <2>1, KNext, BitmapInv, HeadStep
<1>5. CASE kmalloc_placement
  <2>1. Current = x /\ Tail(script) = AtCreate
      BY <1>3, ThenFacts DEF Current
  <2>2. /\ free_mem_addr' = free_mem_addr + 32 /\ UNCHANGED <<frames, kheap>>
        /\ Placed(free_mem_addr \div PAGE, free_mem_addr \div PAGE)
      BY <1>2, <1>5, <2>1 DEF kmalloc_placement
  <2>3. script' = AtCreate /\ UNCHANGED <<tables, dirs, cr3, kernel_directory>>
      BY <1>2, <2>1, <2>2 DEF Placed
  <2>4. free_mem_addr' \in Nat /\ free_mem_addr <= free_mem_addr' /\ 0 < p
        /\ free_mem_addr' <= p * PAGE
      BY <1>1, <2>2
  <2>5. BootState' /\ SameMap
      BY <2>2, <2>3, <2>4, SameBoot
  <2>6. Filled(p, HEAP_PAGES)'
      BY <1>1, <2>2, <2>3, <2>5, KeepFilled
  <2>7. InCreate(p)'
      BY <1>1, <2>3, <2>4, <2>6 DEF InCreate
  <2> QED
      BY <2>5, <2>7 DEF Boot
<1> QED
    BY <1>4, <1>5

-----------------------------------------------------------------------------
(* After the heap exists: clones of the kernel's directory                 *)

\* InOrder lists the set's own elements: its ranks 0, 1, ... are all taken.
LEMMA InOrderMember ==
    ASSUME NEW is, is \subseteq 0 .. ENTRIES - 1, NEW k \in DOMAIN InOrder(is)
    PROVE  InOrder(is)[k] \in is
<1> DEFINE n == Cardinality(is)
           Below(i) == {j \in is : j < i}
           f == [i \in is |-> Cardinality(Below(i))]
           T == 0 .. n - 1
<1>1. is \subseteq Nat /\ \A i \in is : i <= 1023
    BY DEF ENTRIES
<1>2. IsFiniteSet(is)
    BY <1>1, FS_BoundedSetOfNaturals
<1>3. n \in Nat
    BY <1>2, FS_CardinalityType
<1>4. ASSUME NEW i \in is
      PROVE  IsFiniteSet(Below(i)) /\ Cardinality(Below(i)) \in T
  <2>1. IsFiniteSet(is \ {i}) /\ Cardinality(is \ {i}) = n - 1
      BY <1>2, FS_RemoveElement
  <2>2. Below(i) \in SUBSET (is \ {i})
      BY <1>1
  <2> HIDE DEF n, Below
  <2>3. IsFiniteSet(Below(i)) /\ Cardinality(Below(i)) <= n - 1
      BY <2>1, <2>2, FS_Subset
  <2>4. Cardinality(Below(i)) \in Nat
      BY <2>3, FS_CardinalityType
  <2> QED
      BY <1>3, <2>3, <2>4
<1>5. ASSUME NEW i \in is, NEW j \in is, i < j
      PROVE  Cardinality(Below(i)) # Cardinality(Below(j))
  <2>0. i \in Nat /\ j \in Nat /\ \A x \in is : x \in Nat
      BY <1>1
  <2>1. Below(i) \in SUBSET Below(j) /\ i \in Below(j) /\ i \notin Below(i)
    <3>1. \A x \in Below(i) : x \in Below(j)
        BY <1>5, <2>0
    <3>2. i \in Below(j) /\ i \notin Below(i)
        BY <1>5, <2>0
    <3> QED
        BY <3>1, <3>2
  <2>2. IsFiniteSet(Below(j))
      BY <1>4
  <2> HIDE DEF Below
  <2> QED
      BY <2>1, <2>2, FS_Subset
<1> HIDE DEF n, Below
<1>6. f \in [is -> T]
    BY <1>4
<1>7. ASSUME NEW i \in is, NEW j \in is, f[i] = f[j] PROVE i = j
  <2>1. i \in Nat /\ j \in Nat
      BY <1>1
  <2>2. ~(i < j) /\ ~(j < i)
      BY <1>5, <1>7
  <2> QED
      BY <2>1, <2>2
<1> HIDE DEF f, T
<1>8. f \in Injection(is, T)
    BY <1>6, <1>7 DEF Injection, IsInjective
<1>9. IsFiniteSet(T) /\ Cardinality(T) = n
  <2>1. 0 \in Int /\ n - 1 \in Int
      BY <1>3
  <2> DEFINE m == n - 1
  <2> HIDE DEF m
  <2>2. IsFiniteSet(0 .. m) /\ Cardinality(0 .. m) = IF 0 > m THEN 0 ELSE m - 0 + 1
      BY <2>1, FS_Interval DEF m
  <2> QED
      BY <1>3, <2>2 DEF T, m
<1>10. f \in Surjection(is, T)
    BY <1>8, <1>9, FS_Injection DEF n
<1>11. k \in Nat /\ 1 <= k /\ k <= n
    BY <1>3 DEF InOrder, n
<1>12. k - 1 \in T
    BY <1>3, <1>11 DEF T
<1>13. PICK e \in is : f[e] = k - 1
    BY <1>10, <1>12 DEF Surjection
<1>14. \E i \in is : Cardinality({j \in is : j < i}) = k - 1
    BY <1>13 DEF f, Below
<1>15. InOrder(is)[k] = CHOOSE i \in is : Cardinality({j \in is : j < i}) = k - 1
    BY DEF InOrder
<1> QED
    BY <1>14, <1>15

\* A step of kernel_main that only touches the directories in D, none of which
\* is the kernel's, and no slot in K, which are the kernel's.
LateStep(e, D, K) ==
    \/ e.op = "kmalloc" /\ e.what \in {"node", "process", "stack"}
    \/ e.op = "kmalloc" /\ e.what = "directory" /\ e.size = DIRECTORY_SIZE
    \/ /\ e.op = "kmalloc" /\ e.what = "table" /\ e.size = TABLE_SIZE
       /\ e.dir \in D /\ e.slot \notin K
    \/ e.op = "get_page" /\ e.dir \in D /\ table_idx(e.page) \notin K
    \/ e.op = "alloc_frame" /\ e.table \in Nat /\ HEAP_PAGE <= e.table
    \/ e.op = "move_stack"

AllLate(s, D, K) == IsList(s) /\ \A x \in 1 .. Len(s) : LateStep(s[x], D, K)

\* Such steps, and then exec.
Ends(s, D, K) ==
    /\ IsList(s) /\ Len(s) \in Nat /\ 1 <= Len(s) /\ s[Len(s)].op = "exec"
    /\ \A x \in 1 .. Len(s) - 1 : LateStep(s[x], D, K)

LEMMA LateOps ==
    ASSUME NEW e, NEW D, NEW K, LateStep(e, D, K)
    PROVE  e.op \in {"kmalloc", "get_page", "alloc_frame", "move_stack"}
BY DEF LateStep

LEMMA MoreDirs ==
    ASSUME NEW s, NEW D, NEW K, NEW E, D \subseteq E, Ends(s, D, K) PROVE Ends(s, E, K)
BY DEF Ends, LateStep

LEMMA EndsFacts ==
    ASSUME NEW s, NEW D, NEW K, Ends(s, D, K)
    PROVE  /\ s # <<>>
           /\ \/ Head(s).op = "exec" /\ Tail(s) = <<>>
              \/ LateStep(Head(s), D, K) /\ Ends(Tail(s), D, K)
<1>1. PICK A : s \in Seq(A)
    BY DEF Ends, IsList
<1>2. Len(s) \in Nat /\ 1 <= Len(s) /\ Head(s) = s[1] /\ s # <<>>
    BY <1>1 DEF Ends
<1> DEFINE t == Tail(s)
<1>3. t \in Seq(A) /\ Len(t) = Len(s) - 1 /\ \A x \in 1 .. Len(t) : t[x] = s[x + 1]
    BY <1>1, <1>2
<1>4. CASE Len(s) = 1
  <2>1. Len(t) = 0
      BY <1>3, <1>4
  <2> HIDE DEF t
  <2>2. t = <<>>
      BY <1>3, <2>1
  <2> QED
      BY <1>2, <1>4, <2>2 DEF Ends, t
<1>5. CASE Len(s) # 1
  <2>1. Len(t) \in Nat /\ 1 <= Len(t) /\ Len(t) + 1 = Len(s)
      BY <1>2, <1>3, <1>5
  <2> HIDE DEF t
  <2>2. LateStep(s[1], D, K)
    <3>1. 1 \in 1 .. Len(s) - 1
        BY ONLY <2>1
    <3> QED
        BY <3>1 DEF Ends
  <2>3. t[Len(t)] = s[Len(s)]
      BY <1>3, <2>1
  <2>4. \A x \in 1 .. Len(t) - 1 : t[x] = s[x + 1] /\ x + 1 \in 1 .. Len(s) - 1
      BY <1>3, <2>1
  <2>5. \A x \in 1 .. Len(t) - 1 : LateStep(t[x], D, K)
      BY <2>4 DEF Ends
  <2>6. t[Len(t)].op = "exec"
      BY <2>3 DEF Ends
  <2>7. Ends(t, D, K)
      BY <1>3, <2>1, <2>5, <2>6 DEF Ends, IsList
  <2> QED
      BY <1>2, <2>2, <2>7 DEF t
<1> QED
    BY <1>4, <1>5

LEMMA EndsJoin ==
    ASSUME NEW s, NEW t, NEW D, NEW K, AllLate(s, D, K), Ends(t, D, K)
    PROVE  Ends(Join(s, t), D, K)
<1> DEFINE u == Join(s, t)
<1>1. /\ IsList(u) /\ Len(s) \in Nat /\ Len(t) \in Nat /\ Len(u) = Len(s) + Len(t)
      /\ \A x \in 1 .. Len(s) : u[x] = s[x]
      /\ \A x \in 1 .. Len(t) : u[Len(s) + x] = t[x]
  <2>1. IsList(s) /\ IsList(t)
      BY DEF AllLate, Ends
  <2> QED
      BY ONLY <2>1, JoinFacts
<1> HIDE DEF u
<1>2. 1 <= Len(t) /\ t[Len(t)].op = "exec"
    BY DEF Ends
<1>3. Len(u) \in Nat /\ 1 <= Len(u) /\ u[Len(u)] = t[Len(t)]
    BY <1>1, <1>2
<1>4. ASSUME NEW x \in 1 .. Len(u) - 1 PROVE LateStep(u[x], D, K)
  <2>1. CASE x <= Len(s)
    <3>1. x \in 1 .. Len(s) /\ u[x] = s[x]
        BY <1>1, <2>1
    <3> QED
        BY <3>1 DEF AllLate
  <2>2. CASE ~(x <= Len(s))
    <3> DEFINE y == x - Len(s)
    <3>1. y \in 1 .. Len(t) - 1 /\ y \in 1 .. Len(t) /\ x = Len(s) + y
        BY <1>1, <2>2
    <3> HIDE DEF y
    <3>2. u[x] = t[y]
        BY <1>1, <3>1
    <3> QED
        BY <3>1, <3>2 DEF Ends
  <2> QED
      BY <2>1, <2>2
<1>5. Ends(u, D, K)
    BY <1>1, <1>2, <1>3, <1>4 DEF Ends
<1> QED
    BY <1>5 DEF u

LEMMA AllJoin ==
    ASSUME NEW s, NEW t, NEW D, NEW K, AllLate(s, D, K), AllLate(t, D, K)
    PROVE  AllLate(Join(s, t), D, K)
<1> DEFINE u == Join(s, t)
<1>1. /\ IsList(u) /\ Len(s) \in Nat /\ Len(t) \in Nat /\ Len(u) = Len(s) + Len(t)
      /\ \A x \in 1 .. Len(s) : u[x] = s[x]
      /\ \A x \in 1 .. Len(t) : u[Len(s) + x] = t[x]
    BY JoinFacts DEF AllLate
<1> HIDE DEF u
<1>2. ASSUME NEW x \in 1 .. Len(u) PROVE LateStep(u[x], D, K)
  <2>1. CASE x <= Len(s)
    <3>1. x \in 1 .. Len(s) /\ u[x] = s[x]
        BY <1>1, <2>1
    <3> QED
        BY <3>1 DEF AllLate
  <2>2. CASE ~(x <= Len(s))
    <3> DEFINE y == x - Len(s)
    <3>1. y \in 1 .. Len(t) /\ x = Len(s) + y
        BY <1>1, <2>2
    <3> HIDE DEF y
    <3>2. u[x] = t[y]
        BY <1>1, <3>1
    <3> QED
        BY <3>1, <3>2 DEF AllLate
  <2> QED
      BY <2>1, <2>2
<1>3. AllLate(u, D, K)
    BY <1>1, <1>2 DEF AllLate
<1> QED
    BY <1>3 DEF u

LEMMA LateSteps ==
    ASSUME NEW D, NEW K
    PROVE  /\ \A what \in {"node", "process", "stack"} :
                 \A pid, size, align, fill : LateStep(Request(what, pid, size, align, fill), D, K)
           /\ \A pid : LateStep(CloneDirectory(pid), D, K)
           /\ \A d \in D : \A slot, src :
                 slot \notin K => LateStep(MakeTable(d, slot, src), D, K)
           /\ \A d \in D : \A page, al :
                 table_idx(page) \notin K => LateStep(GetPage(d, page, al), D, K)
           /\ \A table \in Nat : \A i :
                 HEAP_PAGE <= table => LateStep(AllocFrame(table, i), D, K)
           /\ LateStep(Step("move_stack"), D, K)
BY DEF LateStep, Request, CloneDirectory, MakeTable, GetPage, AllocFrame, Step

LEMMA LateThree ==
    ASSUME NEW a, NEW b, NEW d, NEW D, NEW K,
           LateStep(a, D, K), LateStep(b, D, K), LateStep(d, D, K)
    PROVE  AllLate(<<a, b, d>>, D, K)
<1> DEFINE s == <<a, b, d>>
<1>1. IsList(s) /\ Len(s) = 3 /\ s[1] = a /\ s[2] = b /\ s[3] = d
    BY ThreeEntries
<1> HIDE DEF s
<1>2. \A x \in 1 .. Len(s) : LateStep(s[x], D, K)
    BY <1>1
<1>3. AllLate(s, D, K)
    BY <1>1, <1>2 DEF AllLate
<1> QED
    BY <1>3 DEF s

LEMMA LateOne ==
    ASSUME NEW a, NEW D, NEW K, LateStep(a, D, K)
    PROVE  AllLate(<<a>>, D, K)
<1> DEFINE s == <<a>>
<1>1. IsList(s) /\ Len(s) = 1 /\ s[1] = a
    BY OneEntry
<1> HIDE DEF s
<1>2. AllLate(s, D, K)
    BY <1>1 DEF AllLate
<1> QED
    BY <1>2 DEF s

LEMMA LateList ==
    ASSUME NEW m \in Nat, NEW f, f = [k \in 1 .. m |-> f[k]], NEW D, NEW K,
           \A k \in 1 .. m : LateStep(f[k], D, K)
    PROVE  AllLate(f, D, K)
<1> DEFINE Elems == {f[k] : k \in 1 .. m}
<1>1. f \in Seq(Elems) /\ Len(f) = m
    OBVIOUS
<1> QED
    BY <1>1 DEF AllLate, IsList

\* The rest of kernel_main, after the heap exists.
LEMMA MainEnds ==
    ASSUME NEW D, NEW K
    PROVE  Ends(AfterPaging, D, K) /\ Ends(Later, D, K)
<1>1. AllLate(initialise_initrd, D, K)
  <2> DEFINE a == Request("node", 0, NODE_SIZE, FALSE, FALSE)
             b == Request("node", 0, NODE_SIZE * NFILES, FALSE, FALSE)
  <2>1. LateStep(a, D, K) /\ LateStep(b, D, K)
      BY LateSteps
  <2>2. initialise_initrd = <<a, a, b>>
      BY DEF initialise_initrd
  <2> HIDE DEF a, b
  <2> QED
      BY <2>1, <2>2, LateThree
<1>2. ASSUME NEW pid PROVE AllLate(createProcess(pid), D, K)
  <2> DEFINE a == Request("process", pid, PROCESS_SIZE, FALSE, TRUE)
             b == CloneDirectory(pid)
             d == Request("stack", pid, 4096, FALSE, FALSE)
  <2>1. LateStep(a, D, K) /\ LateStep(b, D, K) /\ LateStep(d, D, K)
    <3>1. LateStep(a, D, K)
        BY LateSteps
    <3>2. LateStep(b, D, K)
        BY LateSteps
    <3>3. LateStep(d, D, K)
        BY DEF LateStep, Request
    <3> HIDE DEF a, b, d
    <3> QED
        BY <3>1, <3>2, <3>3
  <2>2. createProcess(pid) = <<a, b, d>>
      BY DEF createProcess
  <2> HIDE DEF a, b, d
  <2> QED
      BY <2>1, <2>2, LateThree
<1>3. AllLate(<<Step("move_stack")>>, D, K)
    BY LateSteps, LateOne
<1>4. Ends(<<Step("exec")>>, D, K)
  <2> DEFINE s == <<Step("exec")>>
  <2>1. IsList(s) /\ Len(s) = 1 /\ s[1].op = "exec"
      BY OneEntry DEF Step
  <2> HIDE DEF s
  <2>2. Ends(s, D, K)
      BY <2>1 DEF Ends
  <2> QED
      BY <2>2 DEF s
<1> DEFINE b1 == Join(initialise_initrd, <<Step("move_stack")>>)
           b2 == Join(b1, createProcess(1))
           b3 == Join(b2, createProcess(2))
           b4 == Join(b3, createProcess(3))
<1>5. AllLate(b1, D, K)
    BY <1>1, <1>3, AllJoin
<1> HIDE DEF b1
<1>6. AllLate(b2, D, K)
    BY <1>2, <1>5, AllJoin
<1> HIDE DEF b2
<1>7. AllLate(b3, D, K)
    BY <1>2, <1>6, AllJoin
<1> HIDE DEF b3
<1>8. AllLate(b4, D, K)
    BY <1>2, <1>7, AllJoin
<1> HIDE DEF b4
<1>9. Ends(Join(b4, <<Step("exec")>>), D, K)
    BY <1>4, <1>8, EndsJoin
<1>10. AfterPaging = Join(b4, <<Step("exec")>>)
    BY DEF AfterPaging, b1, b2, b3, b4, Join
<1>11. Ends(AfterPaging, D, K)
    BY <1>9, <1>10
<1>12. AllLate(<<CloneDirectory(0)>>, D, K)
  <2>1. LateStep(CloneDirectory(0), D, K)
      BY LateSteps
  <2> QED
      BY <2>1, LateOne
<1>13. Ends(Join(<<CloneDirectory(0)>>, AfterPaging), D, K)
    BY <1>11, <1>12, EndsJoin
<1> QED
    BY <1>11, <1>13 DEF Later, Then

\* A directory other than the kernel's lies in the heap, as do the tables it has
\* beside the kernel's; it shares every table of the kernel's.
DirOK(d) ==
    /\ d \in Nat /\ IsDir(dirs[d])
    /\ d = kernel_directory \/ HEAP_PAGE <= d
    /\ \A s \in DOMAIN KernelTables :
          s \in DOMAIN dirs[d].tables /\ dirs[d].tables[s] = KernelTables[s]
    /\ \A s \in DOMAIN dirs[d].tables :
          s \in DOMAIN KernelTables
            \/ (dirs[d].tables[s] \in Nat /\ HEAP_PAGE <= dirs[d].tables[s])

\* Low memory, up to page p, is mapped onto itself, the heap behind it.
LowMapped(p) ==
    /\ p \in Nat /\ 0 < p /\ p < HEAP_PAGE /\ free_mem_addr <= p * PAGE
    /\ \A x \in Nat : x < p => /\ Mapped(kernel_directory, x)
                               /\ Translate(kernel_directory, x) = x
    /\ \A j \in Nat : j < HEAP_PAGES =>
          /\ Mapped(kernel_directory, HEAP_PAGE + j)
          /\ Translate(kernel_directory, HEAP_PAGE + j) = p + j

LateMem ==
    /\ kheap = TRUE /\ KernelDir
    /\ \E p : LowMapped(p)
    /\ \A d \in DOMAIN dirs : DirOK(d)

Clones == DOMAIN dirs \ {kernel_directory}

\* kernel_main goes on in the first clone, until it starts the processes.
LateMain ==
    /\ cr3 \in DOMAIN dirs
    /\ Ends(script, Clones, DOMAIN KernelTables)
    /\ cr3 = kernel_directory => script = Later

PageRequest == Request("page", 0, 1000, TRUE, FALSE)
LateRun == script = <<>> \/ script = <<PageRequest>>

Late == LateMem /\ (LateMain \/ LateRun)

\* The kernel's directory and tables lie below the heap.
LEMMA KernelLow ==
    ASSUME LateMem
    PROVE  /\ kernel_directory \in Nat /\ kernel_directory < HEAP_PAGE
           /\ \A s \in DOMAIN KernelTables : KernelTables[s] \in Nat /\ KernelTables[s] < HEAP_PAGE
<1>1. PICK p : LowMapped(p)
    BY DEF LateMem
<1>2. p \in Nat /\ p < HEAP_PAGE /\ free_mem_addr <= p * PAGE
    BY <1>1 DEF LowMapped
<1>3. PAGE = 4096 /\ HEAP_PAGE \in Nat
    BY Geometry
<1>4. free_mem_addr \in Nat
    BY DEF LateMem, KernelDir
<1>5. ASSUME NEW x \in Nat, (x + 1) * PAGE <= free_mem_addr PROVE x < HEAP_PAGE
    BY <1>2, <1>3, <1>4, <1>5
<1>6. kernel_directory \in Nat /\ (kernel_directory + 2) * PAGE <= free_mem_addr
    BY DEF LateMem, KernelDir
<1>7. (kernel_directory + 1) * PAGE <= free_mem_addr
    BY <1>3, <1>4, <1>6
<1>8. \A s \in DOMAIN KernelTables :
         KernelTables[s] \in Nat /\ (KernelTables[s] + 1) * PAGE <= free_mem_addr
    BY DEF LateMem, KernelDir
<1> QED
    BY <1>5, <1>6, <1>7, <1>8

LEMMA KeepLowMapped ==
    ASSUME SameMap, UNCHANGED <<kernel_directory, free_mem_addr>>, NEW p, LowMapped(p)
    PROVE  LowMapped(p)'
<1>1. ASSUME NEW x \in Nat, x < p
      PROVE  Mapped(kernel_directory, x)' /\ Translate(kernel_directory, x)' = x
    BY <1>1 DEF SameMap, LowMapped
<1>2. ASSUME NEW j \in Nat, j < HEAP_PAGES
      PROVE  /\ Mapped(kernel_directory, HEAP_PAGE + j)'
             /\ Translate(kernel_directory, HEAP_PAGE + j)' = p + j
  <2> DEFINE x == HEAP_PAGE + j
  <2>1. x \in Nat
      BY Geometry
  <2>2. Mapped(kernel_directory, x) /\ Translate(kernel_directory, x) = p + j
      BY <1>2 DEF LowMapped
  <2> HIDE DEF x
  <2>3. Mapped(kernel_directory, x)' /\ Translate(kernel_directory, x)' = p + j
      BY <2>1, <2>2 DEF SameMap
  <2> QED
      BY <2>3 DEF x, HEAP_PAGE, ENTRIES
<1>3. p \in Nat /\ 0 < p /\ p < HEAP_PAGE /\ (free_mem_addr <= p * PAGE)'
    BY DEF LowMapped
<1>4. \A j \in Nat : j < HEAP_PAGES =>
         /\ Mapped(kernel_directory, HEAP_PAGE + j)'
         /\ Translate(kernel_directory, HEAP_PAGE + j)' = p + j
    BY <1>2
<1>5. HEAP_PAGES' = HEAP_PAGES
    BY DEF HEAP_PAGES, FRAME_SIZE
<1> QED
    BY <1>1, <1>3, <1>4, <1>5 DEF LowMapped, HEAP_PAGE, ENTRIES

\* A step leaves the kernel's directory and tables alone, and every directory
\* is as it should be.
LEMMA KeepLateMem ==
    ASSUME LateMem, UNCHANGED <<kheap, kernel_directory, free_mem_addr>>,
           kernel_directory \in DOMAIN dirs', dirs'[kernel_directory] = dirs[kernel_directory],
           DOMAIN tables \subseteq DOMAIN tables',
           \A s \in DOMAIN KernelTables : tables'[KernelTables[s]] = tables[KernelTables[s]],
           \A d \in DOMAIN dirs' : DirOK(d)'
    PROVE  LateMem' /\ KernelTables' = KernelTables /\ SameMap
<1>1. SameMap /\ KernelTables' = KernelTables
    BY KernelUntouched DEF LateMem
<1>2. KernelDir'
    BY <1>1 DEF KernelDir, IsDir, LateMem
<1>3. PICK p : LowMapped(p)
    BY DEF LateMem
<1>4. LowMapped(p)'
    BY <1>1, <1>3, KeepLowMapped
<1> QED
    BY <1>1, <1>2, <1>4 DEF LateMem

LEMMA SameDirs ==
    ASSUME LateMem, UNCHANGED <<kernel_directory, dirs>>
    PROVE  \A d \in DOMAIN dirs' : DirOK(d)'
<1>1. KernelTables' = KernelTables
    BY DEF KernelTables
<1>2. ASSUME NEW d \in DOMAIN dirs PROVE DirOK(d)'
  <2>1. DirOK(d)
      BY DEF LateMem
  <2> QED
      BY <1>1, <2>1 DEF DirOK, IsDir, HEAP_PAGE, ENTRIES
<1> QED
    BY <1>2

LEMMA SameLate ==
    ASSUME Late, UNCHANGED <<pvars, script, BootVars>>
    PROVE  Late'
<1>1. UNCHANGED <<frames, tables, dirs, cr3, script, kheap, kernel_directory, free_mem_addr>>
    BY DEF pvars, BootVars
<1>2. \A d \in DOMAIN dirs' : DirOK(d)'
    BY <1>1, SameDirs DEF Late
<1>3. kernel_directory \in DOMAIN dirs'
    BY <1>1 DEF Late, LateMem, KernelDir
<1>4. LateMem' /\ KernelTables' = KernelTables
    BY <1>1, <1>2, <1>3, KeepLateMem DEF Late
<1>5. Clones' = Clones
    BY <1>1 DEF Clones
<1>6. LateMain => LateMain'
    BY <1>1, <1>4, <1>5 DEF LateMain
<1>7. LateRun => LateRun'
    BY <1>1 DEF LateRun
<1> QED
    BY <1>4, <1>6, <1>7 DEF Late

\* alloc_frame for a page of a table that is not the kernel's.
LEMMA LateFrame ==
    ASSUME LateMem, UNCHANGED <<dirs, BootVars>>, NEW t \in Nat, HEAP_PAGE <= t, NEW i,
           alloc_frame(t, i)
    PROVE  LateMem' /\ KernelTables' = KernelTables /\ SameMap
<1>1. /\ DOMAIN tables' = DOMAIN tables
      /\ \A u \in DOMAIN tables : u # t => tables'[u] = tables[u]
    BY DEF alloc_frame
<1>2. \A s \in DOMAIN KernelTables : KernelTables[s] # t /\ KernelTables[s] \in DOMAIN tables
  <2>1. ASSUME NEW s \in DOMAIN KernelTables PROVE KernelTables[s] # t
    <3>1. KernelTables[s] \in Nat /\ KernelTables[s] < HEAP_PAGE /\ HEAP_PAGE \in Nat
        BY KernelLow, Geometry
    <3> QED
        BY <3>1
  <2> QED
      BY <2>1 DEF LateMem, KernelDir
<1>3. UNCHANGED <<kheap, kernel_directory, free_mem_addr, dirs>>
    BY DEF BootVars
<1>4. \A d \in DOMAIN dirs' : DirOK(d)'
    BY <1>3, SameDirs
<1>5. kernel_directory \in DOMAIN dirs'
    BY <1>3 DEF LateMem, KernelDir
<1> QED
    BY <1>1, <1>2, <1>3, <1>4, <1>5, KeepLateMem

\* A table made in a clone, in a slot the kernel's directory does not have.
LEMMA LateTable ==
    ASSUME LateMem, UNCHANGED <<kheap, kernel_directory, free_mem_addr>>,
           NEW dir \in Clones, NEW slot, slot \notin DOMAIN KernelTables,
           NEW at \in Nat, HEAP_PAGE <= at, NEW phys, NewTable(dir, slot, at, phys)
    PROVE  LateMem' /\ KernelTables' = KernelTables /\ DOMAIN dirs' = DOMAIN dirs /\ SameMap
<1>1. dir \in DOMAIN dirs /\ dir # kernel_directory /\ DirOK(dir)
    BY DEF Clones, LateMem
<1>2. NewTableDirs(dir, slot, at, phys)
    BY <1>1, NewTableFacts DEF DirOK
<1> DEFINE T == dirs[dir].tables
           N == Put(T, slot, at)
<1>3. /\ DOMAIN dirs' = DOMAIN dirs
      /\ \A d \in DOMAIN dirs : d # dir => dirs'[d] = dirs[d]
      /\ dirs'[dir] = [physicalAddr |-> dirs[dir].physicalAddr, tables |-> N,
                       tablesPhysical |-> Put(dirs[dir].tablesPhysical, slot, phys)]
    BY <1>2 DEF NewTableDirs
<1>4. /\ DOMAIN tables' = DOMAIN tables \cup {at}
      /\ \A t \in DOMAIN tables : t # at => tables'[t] = tables[t]
    BY <1>2 DEF NewTableDirs
<1>5. DOMAIN N = DOMAIN T \cup {slot} /\ N[slot] = at /\ \A s \in DOMAIN T : s # slot => N[s] = T[s]
    BY DEF Put
<1> HIDE DEF N
<1>6. dirs'[dir].tables = N /\ IsDir(dirs'[dir])
    BY <1>3 DEF IsDir
<1>7. kernel_directory \in DOMAIN dirs' /\ dirs'[kernel_directory] = dirs[kernel_directory]
    BY <1>1, <1>3 DEF LateMem, KernelDir
<1>8. KernelTables' = KernelTables
    BY <1>7 DEF KernelTables
<1>9. \A s \in DOMAIN KernelTables : KernelTables[s] # at /\ KernelTables[s] \in DOMAIN tables
  <2>1. ASSUME NEW s \in DOMAIN KernelTables PROVE KernelTables[s] # at
    <3>1. KernelTables[s] \in Nat /\ KernelTables[s] < HEAP_PAGE /\ HEAP_PAGE \in Nat
        BY KernelLow, Geometry
    <3> QED
        BY <3>1
  <2> QED
      BY <2>1 DEF LateMem, KernelDir
<1>10. ASSUME NEW d \in DOMAIN dirs, d # dir PROVE DirOK(d)'
  <2>1. DirOK(d) /\ dirs'[d] = dirs[d]
      BY <1>3, <1>10 DEF LateMem
  <2> QED
      BY <1>8, <2>1 DEF DirOK, IsDir, HEAP_PAGE, ENTRIES
<1>11. DirOK(dir)'
  <2>1. dir \in Nat /\ HEAP_PAGE <= dir
      BY <1>1 DEF DirOK
  <2>2. ASSUME NEW s \in DOMAIN KernelTables PROVE s \in DOMAIN N /\ N[s] = KernelTables[s]
      BY <1>1, <1>5 DEF DirOK
  <2>3. ASSUME NEW s \in DOMAIN N
        PROVE  s \in DOMAIN KernelTables \/ (N[s] \in Nat /\ HEAP_PAGE <= N[s])
    <3>1. CASE s = slot
        BY <1>5, <3>1
    <3>2. CASE s # slot
      <4>1. s \in DOMAIN T /\ N[s] = T[s]
          BY <1>5, <2>3, <3>2
      <4> QED
          BY <1>1, <4>1 DEF DirOK
    <3> QED
        BY <3>1, <3>2
  <2> HIDE DEF T
  <2> QED
      BY <1>6, <1>8, <2>1, <2>2, <2>3 DEF DirOK, HEAP_PAGE, ENTRIES
<1>12. \A d \in DOMAIN dirs' : DirOK(d)'
    BY <1>3, <1>10, <1>11
<1>13. LateMem' /\ SameMap
    BY <1>4, <1>7, <1>9, <1>12, KeepLateMem
<1> QED
    BY <1>3, <1>8, <1>13

\* clone_directory shares the kernel's tables, all of them and nothing else.
LEMMA LateDirectory ==
    ASSUME LateMem, UNCHANGED <<kheap, kernel_directory, free_mem_addr, tables>>,
           cr3 \in DOMAIN dirs, NEW at \in Nat, HEAP_PAGE <= at, NEW phys,
           NewDirectory(at, phys, kernel_directory, cr3)
    PROVE  /\ LateMem' /\ KernelTables' = KernelTables /\ SameMap
           /\ DOMAIN dirs' = DOMAIN dirs \cup {at} /\ at # kernel_directory
           /\ \A s \in Cloned(kernel_directory, cr3) : s \notin DOMAIN KernelTables
<1> DEFINE Sh == Shared(kernel_directory, cr3)
           N == [i \in Sh |-> dirs[cr3].tables[i]]
           P == [i \in Sh |-> dirs[cr3].tablesPhysical[i]]
           new == [physicalAddr |-> Physical(phys), tables |-> N, tablesPhysical |-> P]
<1>1. DirOK(cr3)
    BY DEF LateMem
<1>2. Sh = DOMAIN KernelTables
    BY <1>1 DEF DirOK, Shared, KernelTables
<1>3. \A s \in Cloned(kernel_directory, cr3) : s \notin DOMAIN KernelTables
    BY <1>2 DEF Cloned
<1>4. dirs' = Put(dirs, at, new)
    BY DEF NewDirectory
<1>5. DOMAIN N = DOMAIN KernelTables /\ \A s \in DOMAIN KernelTables : N[s] = KernelTables[s]
    BY <1>1, <1>2 DEF DirOK
<1>6. new.tables = N /\ IsDir(new)
    BY DEF IsDir
<1> HIDE DEF new, N
<1>7. DOMAIN dirs' = DOMAIN dirs \cup {at} /\ dirs'[at] = new
      /\ \A d \in DOMAIN dirs : d # at => dirs'[d] = dirs[d]
    BY <1>4 DEF Put
<1>8. at # kernel_directory
  <2>1. kernel_directory \in Nat /\ kernel_directory < HEAP_PAGE /\ HEAP_PAGE \in Nat
      BY KernelLow, Geometry
  <2> QED
      BY <2>1
<1>9. kernel_directory \in DOMAIN dirs' /\ dirs'[kernel_directory] = dirs[kernel_directory]
    BY <1>7, <1>8 DEF LateMem, KernelDir
<1>10. KernelTables' = KernelTables
    BY <1>9 DEF KernelTables
<1>11. ASSUME NEW d \in DOMAIN dirs, d # at PROVE DirOK(d)'
  <2>1. DirOK(d) /\ dirs'[d] = dirs[d]
      BY <1>7, <1>11 DEF LateMem
  <2> QED
      BY <1>10, <2>1 DEF DirOK, IsDir, HEAP_PAGE, ENTRIES
<1>12. DirOK(at)'
    BY <1>5, <1>6, <1>7, <1>10 DEF DirOK, HEAP_PAGE, ENTRIES
<1>13. \A d \in DOMAIN dirs' : DirOK(d)'
    BY <1>7, <1>11, <1>12
<1>14. \A s \in DOMAIN KernelTables : tables'[KernelTables[s]] = tables[KernelTables[s]]
    OBVIOUS
<1>15. LateMem' /\ SameMap
    BY <1>9, <1>13, <1>14, KeepLateMem
<1> QED
    BY <1>3, <1>7, <1>8, <1>10, <1>15

\* Nothing of paging changes.
LEMMA LateSame ==
    ASSUME LateMem, UNCHANGED <<tables, dirs, BootVars>>
    PROVE  LateMem' /\ KernelTables' = KernelTables /\ Clones' = Clones /\ SameMap
<1>1. UNCHANGED <<kheap, kernel_directory, free_mem_addr, dirs>>
    BY DEF BootVars
<1>2. \A d \in DOMAIN dirs' : DirOK(d)'
    BY <1>1, SameDirs
<1>3. kernel_directory \in DOMAIN dirs'
    BY <1>1 DEF LateMem, KernelDir
<1>4. LateMem' /\ KernelTables' = KernelTables /\ SameMap
    BY <1>1, <1>2, <1>3, KeepLateMem
<1> QED
    BY <1>1, <1>4 DEF Clones

LEMMA AtLater ==
    ASSUME script = Later
    PROVE  Current.op = "kmalloc" /\ Current.what = "directory" /\ Current.pid = 0
<1> DEFINE x == CloneDirectory(0)
<1>1. x.op = "kmalloc" /\ x.what = "directory" /\ x.pid = 0
    BY DEF CloneDirectory, Request
<1>2. IsList(AfterPaging)
    BY AreLists
<1> HIDE DEF x
<1>3. Later = Then(x, AfterPaging)
    BY DEF Later, x
<1>4. Current = x
    BY <1>2, <1>3, ThenFacts DEF Current
<1> QED
    BY <1>1, <1>4

\* The step at hand, once the heap exists.
LEMMA LateHead ==
    ASSUME LateMain
    PROVE  /\ script # <<>>
           /\ \/ Current.op = "exec" /\ Tail(script) = <<>>
              \/ /\ LateStep(Current, Clones, DOMAIN KernelTables)
                 /\ Ends(Tail(script), Clones, DOMAIN KernelTables)
           /\ cr3 \in DOMAIN dirs
           /\ Current.op # "kmalloc" => cr3 # kernel_directory
           /\ Current.what # "directory" => cr3 # kernel_directory
           /\ Current.pid # 0 => cr3 # kernel_directory
<1> DEFINE K == DOMAIN KernelTables
           D == Clones
<1> HIDE DEF K, D
<1>1. Ends(script, D, K)
    BY DEF LateMain, K, D
<1>2. /\ script # <<>>
      /\ \/ Head(script).op = "exec" /\ Tail(script) = <<>>
         \/ LateStep(Head(script), D, K) /\ Ends(Tail(script), D, K)
    BY <1>1, EndsFacts
<1>3. cr3 \in DOMAIN dirs /\ (cr3 = kernel_directory => script = Later)
    BY DEF LateMain
<1> QED
    BY <1>2, <1>3, AtLater DEF Current, K, D

LEMMA OneRequest ==
    /\ <<PageRequest>> # <<>> /\ Head(<<PageRequest>>) = PageRequest
    /\ Tail(<<PageRequest>>) = <<>>
    /\ PageRequest.op = "kmalloc" /\ PageRequest.what = "page"
<1> DEFINE x == PageRequest
<1>1. x.op = "kmalloc" /\ x.what = "page"
    BY DEF PageRequest, Request
<1> HIDE DEF x
<1>2. <<x>> # <<>> /\ Head(<<x>>) = x /\ Tail(<<x>>) = <<>>
    OBVIOUS
<1> QED
    BY <1>1, <1>2 DEF x

\* The caller of kmalloc gets a page of the heap.
LEMMA LatePlaced ==
    ASSUME Late, UNCHANGED <<kheap, free_mem_addr>>, Doing("kmalloc"),
           NEW at \in Nat, HEAP_PAGE <= at, NEW phys, Placed(at, phys)
    PROVE  Late'
<1>0. script # <<>> /\ Current.op = "kmalloc" /\ LateMem
    BY DEF Doing, Current, Late
<1>1. CASE LateRun
  <2>1. script = <<PageRequest>>
      BY <1>0, <1>1 DEF LateRun
  <2>2. Current.what = "page" /\ Tail(script) = <<>>
      BY <2>1, OneRequest DEF Current
  <2>3. script' = <<>> /\ UNCHANGED <<tables, dirs, kernel_directory>>
      BY <2>2 DEF Placed
  <2>4. LateMem'
    <3>1. \A d \in DOMAIN dirs' : DirOK(d)'
        BY <1>0, <2>3, SameDirs
    <3>2. kernel_directory \in DOMAIN dirs'
        BY <1>0, <2>3 DEF LateMem, KernelDir
    <3> QED
        BY <1>0, <2>3, <3>1, <3>2, KeepLateMem
  <2> QED
      BY <2>3, <2>4 DEF Late, LateRun
<1>2. CASE LateMain
  <2> DEFINE K == DOMAIN KernelTables
             D == Clones
             rest == Tail(script)
  <2>1. /\ LateStep(Current, D, K) /\ Ends(rest, D, K)
        /\ cr3 \in DOMAIN dirs
        /\ Current.what # "directory" => cr3 # kernel_directory
        /\ Current.pid # 0 => cr3 # kernel_directory
      BY <1>0, <1>2, LateHead
  <2> HIDE DEF K, D, rest
  <2>2. \/ Current.what \in {"node", "process", "stack"}
        \/ Current.what = "directory"
        \/ Current.what = "table" /\ Current.dir \in D /\ Current.slot \notin K
      BY <1>0, <2>1 DEF LateStep
  <2>3. CASE Current.what = "table" /\ Current.dir \in D /\ Current.slot \notin K
    <3> DEFINE is == InOrder(FramesToCopy(Current.src))
               g == [k \in DOMAIN is |-> AllocFrame(at, is[k])]
               f == IF Current.src = 0 THEN <<>> ELSE g
    <3>1. /\ NewTable(Current.dir, Current.slot, at, phys)
          /\ script' = f \o rest /\ UNCHANGED <<cr3, kernel_directory>>
        BY <2>3 DEF Placed, rest
    <3>2. AllLate(g, D, K)
      <4>1. PICK m \in Nat : DOMAIN is = 1 .. m
          BY InOrderLength DEF FramesToCopy
      <4>2. \A k \in 1 .. m : LateStep(AllocFrame(at, is[k]), D, K)
          BY LateSteps
      <4>3. g = [k \in 1 .. m |-> g[k]] /\ \A k \in 1 .. m : LateStep(g[k], D, K)
          BY <4>1, <4>2
      <4> HIDE DEF g
      <4> QED
          BY <4>3, LateList
    <3> HIDE DEF g
    <3>3. AllLate(<<>>, D, K)
        BY NoEntry DEF AllLate
    <3>4. AllLate(f, D, K)
        BY <3>2, <3>3
    <3> HIDE DEF f
    <3>5. Ends(f \o rest, D, K)
        BY <2>1, <3>4, EndsJoin DEF Join
    <3>6. LateMem' /\ KernelTables' = KernelTables /\ DOMAIN dirs' = DOMAIN dirs
        BY <1>0, <2>3, <3>1, LateTable DEF K, D
    <3>7. Clones' = D /\ (DOMAIN KernelTables)' = K
        BY <3>1, <3>6 DEF Clones, D, K
    <3>8. Ends(script, Clones, DOMAIN KernelTables)'
        BY <3>1, <3>5, <3>7
    <3>9. LateMain'
        BY <2>1, <2>3, <3>1, <3>6, <3>8 DEF LateMain
    <3> QED
        BY <3>6, <3>9 DEF Late
  <2>4. CASE Current.what = "directory"
    <3> DEFINE C == Cloned(kernel_directory, cr3)
               is == InOrder(C)
               g == [k \in DOMAIN is |-> MakeTable(at, is[k], dirs[cr3].tables[is[k]])]
    <3>1. /\ NewDirectory(at, phys, kernel_directory, cr3)
          /\ script' = g \o rest
          /\ IF Current.pid = 0 THEN switch_page_directory(at) ELSE UNCHANGED cr3
          /\ UNCHANGED <<tables, kernel_directory>>
        BY <2>4 DEF Placed, rest
    <3>2. /\ LateMem' /\ KernelTables' = KernelTables /\ DOMAIN dirs' = DOMAIN dirs \cup {at}
          /\ at # kernel_directory
          /\ \A s \in C : s \notin K
        BY <1>0, <2>1, <3>1, LateDirectory DEF K
    <3> DEFINE E == D \cup {at}
    <3>3. AllLate(g, E, K)
      <4>1. C \subseteq 0 .. ENTRIES - 1
          BY DEF Cloned
      <4> HIDE DEF C
      <4>2. PICK m \in Nat : DOMAIN is = 1 .. m
          BY <4>1, InOrderLength
      <4>3. \A k \in DOMAIN is : is[k] \in C
          BY <4>1, InOrderMember
      <4> HIDE DEF is
      <4>4. \A k \in 1 .. m : LateStep(MakeTable(at, is[k], dirs[cr3].tables[is[k]]), E, K)
          BY <3>2, <4>2, <4>3, LateSteps
      <4>5. g = [k \in 1 .. m |-> g[k]] /\ \A k \in 1 .. m : LateStep(g[k], E, K)
          BY <4>2, <4>4
      <4> HIDE DEF g
      <4> QED
          BY <4>5, LateList
    <3> HIDE DEF g
    <3>4. Ends(rest, E, K)
        BY <2>1, MoreDirs
    <3>5. Clones' = E /\ (DOMAIN KernelTables)' = K
        BY <3>1, <3>2 DEF Clones, D, K
    <3> HIDE DEF E
    <3>6. Ends(g \o rest, E, K)
        BY <3>3, <3>4, EndsJoin DEF Join
    <3>7. Ends(script, Clones, DOMAIN KernelTables)'
        BY <3>1, <3>5, <3>6
    <3>8. cr3' \in DOMAIN dirs' /\ cr3' # kernel_directory'
        BY <2>1, <3>1, <3>2 DEF switch_page_directory
    <3>9. LateMain'
        BY <3>7, <3>8 DEF LateMain
    <3> QED
        BY <3>2, <3>9 DEF Late
  <2>5. CASE Current.what \in {"node", "process", "stack"}
    <3>1. script' = rest /\ UNCHANGED <<tables, dirs, cr3, kernel_directory>>
        BY <2>5 DEF Placed, rest
    <3>2. LateMem' /\ KernelTables' = KernelTables
      <4>1. \A d \in DOMAIN dirs' : DirOK(d)'
          BY <1>0, <3>1, SameDirs
      <4>2. kernel_directory \in DOMAIN dirs'
          BY <1>0, <3>1 DEF LateMem, KernelDir
      <4> QED
          BY <1>0, <3>1, <4>1, <4>2, KeepLateMem
    <3>3. Clones' = D /\ (DOMAIN KernelTables)' = K
        BY <3>1, <3>2 DEF Clones, D, K
    <3>4. Ends(script, Clones, DOMAIN KernelTables)'
        BY <2>1, <3>1, <3>3
    <3>5. cr3' \in DOMAIN dirs' /\ cr3' # kernel_directory'
        BY <2>1, <2>5, <3>1
    <3>6. LateMain'
        BY <3>4, <3>5 DEF LateMain
    <3> QED
        BY <3>2, <3>6 DEF Late
  <2> QED
      BY <2>2, <2>3, <2>4, <2>5
<1> QED
    BY <1>1, <1>2 DEF Late

LEMMA LateReturn ==
    ASSUME Late, HeapInv, BitmapInv, kmalloc_return
    PROVE  Late'
<1> DEFINE a == Taken(Now, HoleFor(req), req.size, req.align).ptr
           at == HEAP_PAGE + a \div PAGE
<1>1. req # NoReq /\ HoleFor(req) <= Len(index)
    BY DEF kmalloc_return, alloc_take
<1>2. a \in Nat
    BY <1>1, TakeFacts DEF HeapInv
<1>3. Doing("kmalloc")
    BY <1>1, RequestFacts
<1>4. /\ Placed(at, Translate(kernel_directory, at))
      /\ UNCHANGED <<kheap, free_mem_addr>>
    BY DEF kmalloc_return
<1> HIDE DEF a
<1>5. at \in Nat /\ HEAP_PAGE <= at
    BY <1>2, Geometry
<1> HIDE DEF at
<1> QED
    BY <1>3, <1>4, <1>5, LatePlaced

\* The steps of move_stack and clone_table.
LEMMA LatePages ==
    ASSUME Late, get_page_make \/ get_page_there \/ clone_page
    PROVE  Late'
<1> DEFINE K == DOMAIN KernelTables
           D == Clones
           rest == Tail(script)
<1>1. /\ script # <<>> /\ LateMem
      /\ \/ Current.op = "get_page" /\ (get_page_make \/ get_page_there)
         \/ Current.op = "alloc_frame" /\ clone_page
    BY DEF get_page_make, get_page_there, clone_page, Doing, Current, Late
<1>2. LateMain
  <2>1. ~LateRun
      BY <1>1, OneRequest DEF LateRun, Current
  <2> QED
      BY <2>1 DEF Late
<1>3. /\ LateStep(Current, D, K) /\ Ends(rest, D, K)
      /\ cr3 \in DOMAIN dirs /\ cr3 # kernel_directory
    BY <1>1, <1>2, LateHead
<1>4. Ends(script, D, K)
    BY <1>2 DEF LateMain
<1> HIDE DEF K, D, rest
<1>5. ASSUME LateMem', KernelTables' = KernelTables, UNCHANGED <<dirs, cr3, kernel_directory>>,
             Ends(script', D, K)
      PROVE  Late'
  <2>1. Clones' = D /\ (DOMAIN KernelTables)' = K
      BY <1>5 DEF Clones, D, K
  <2>2. LateMain'
      BY <1>3, <1>5, <2>1 DEF LateMain
  <2> QED
      BY <1>5, <2>2 DEF Late
<1>6. CASE get_page_make
  <2> DEFINE x == MakeTable(Current.dir, table_idx(Current.page), 0)
  <2>1. Current.dir \in D /\ table_idx(Current.page) \notin K
      BY <1>1, <1>3, <1>6 DEF LateStep, get_page_make, Doing, Current
  <2>2. LateStep(x, D, K)
      BY <2>1, LateSteps
  <2>3. script' = <<x>> \o script /\ UNCHANGED <<pvars, BootVars>>
      BY <1>6 DEF get_page_make
  <2> HIDE DEF x
  <2>4. Ends(<<x>> \o script, D, K)
      BY <1>4, <2>2, LateOne, EndsJoin DEF Join
  <2>5. UNCHANGED <<tables, dirs, cr3, kernel_directory, BootVars>>
      BY <2>3 DEF pvars, BootVars
  <2>6. LateMem' /\ KernelTables' = KernelTables
      BY <1>1, <2>5, LateSame
  <2> QED
      BY <1>5, <2>3, <2>4, <2>5, <2>6
<1>7. CASE get_page_there
  <2> DEFINE dir == Current.dir
             page == Current.page
             t == dirs[dir].tables[table_idx(page)]
  <2>1. dir \in D /\ table_idx(page) \notin K
      BY <1>1, <1>3, <1>7 DEF LateStep, get_page_there, Doing, Current
  <2>2. /\ script' = rest /\ UNCHANGED <<dirs, cr3, BootVars>>
        /\ table_idx(page) \in DOMAIN dirs[dir].tables
        /\ UNCHANGED <<frames, tables>> \/ alloc_frame(t, page % ENTRIES)
      BY <1>7 DEF get_page_there, get_page, HasTable, rest
  <2>3. t \in Nat /\ HEAP_PAGE <= t
      BY <1>1, <2>1, <2>2 DEF LateMem, DirOK, Clones, D, K
  <2> HIDE DEF t
  <2>4. LateMem' /\ KernelTables' = KernelTables
      BY <1>1, <2>2, <2>3, LateSame, LateFrame
  <2> QED
      BY <1>3, <1>5, <2>2, <2>4 DEF BootVars
<1>8. CASE clone_page
  <2>1. Current.table \in Nat /\ HEAP_PAGE <= Current.table
      BY <1>1, <1>3, <1>8 DEF LateStep, clone_page, Doing, Current
  <2>2. /\ script' = rest /\ UNCHANGED <<dirs, cr3, BootVars>>
        /\ alloc_frame(Current.table, Current.i)
      BY <1>8 DEF clone_page, rest
  <2>3. LateMem' /\ KernelTables' = KernelTables
      BY <1>1, <2>1, <2>2, LateFrame
  <2> QED
      BY <1>3, <1>5, <2>2, <2>3 DEF BootVars
<1> QED
    BY <1>6, <1>7, <1>8

\* The stack's pages lie above everything the kernel's directory maps.
LEMMA StackSlots ==
    ASSUME LateMem, NEW k \in 1 .. 3
    PROVE  table_idx(STACK_PAGES[k]) \notin DOMAIN KernelTables
<1>1. STACK_PAGES[k] \in {917504, 917503, 917502}
    BY DEF STACK_PAGES, ENTRIES
<1>2. table_idx(STACK_PAGES[k]) \in {895, 896}
    BY <1>1 DEF table_idx, ENTRIES
<1>3. \A s \in DOMAIN KernelTables : s \in Nat /\ s < 895
    BY DEF LateMem, KernelDir
<1> QED
    BY <1>2, <1>3

LEMMA LateMove ==
    ASSUME Late, move_stack
    PROVE  Late'
<1> DEFINE K == DOMAIN KernelTables
           D == Clones
           rest == Tail(script)
           f == [k \in DOMAIN STACK_PAGES |-> GetPage(cr3, STACK_PAGES[k], TRUE)]
<1>1. script # <<>> /\ Current.op = "move_stack" /\ LateMem
    BY DEF move_stack, Doing, Current, Late
<1>2. LateMain
  <2>1. ~LateRun
      BY <1>1, OneRequest DEF LateRun, Current
  <2> QED
      BY <2>1 DEF Late
<1>3. Ends(rest, D, K) /\ cr3 \in DOMAIN dirs /\ cr3 # kernel_directory
    BY <1>1, <1>2, LateHead
<1>4. cr3 \in D
    BY <1>3 DEF Clones
<1>5. script' = f \o rest /\ UNCHANGED <<pvars, BootVars>>
    BY DEF move_stack
<1>6. \A k \in 1 .. 3 : table_idx(STACK_PAGES[k]) \notin K
    BY <1>1, StackSlots
<1> HIDE DEF K, D, rest
<1>7. AllLate(f, D, K)
  <2>1. DOMAIN STACK_PAGES = 1 .. 3
      BY DEF STACK_PAGES
  <2>2. \A k \in 1 .. 3 : LateStep(GetPage(cr3, STACK_PAGES[k], TRUE), D, K)
      BY <1>4, <1>6, LateSteps
  <2>3. 3 \in Nat /\ f = [k \in 1 .. 3 |-> f[k]] /\ \A k \in 1 .. 3 : LateStep(f[k], D, K)
      BY <2>1, <2>2
  <2> HIDE DEF f
  <2> QED
      BY <2>3, LateList
<1> HIDE DEF f
<1>8. Ends(f \o rest, D, K)
    BY <1>3, <1>7, EndsJoin DEF Join
<1>9. UNCHANGED <<tables, dirs, cr3, kernel_directory, BootVars>>
    BY <1>5 DEF pvars, BootVars
<1>10. LateMem' /\ KernelTables' = KernelTables
    BY <1>1, <1>9, LateSame
<1>11. Clones' = D /\ (DOMAIN KernelTables)' = K
    BY <1>9, <1>10 DEF Clones, D, K
<1>12. LateMain'
    BY <1>3, <1>5, <1>8, <1>9, <1>11 DEF LateMain
<1> QED
    BY <1>10, <1>12 DEF Late

\* The processes run: exec, task switches, the shell's page command.
LEMMA LateRuns ==
    ASSUME Late, __exec \/ schedule \/ command_page
    PROVE  Late'
<1>1. LateMem /\ UNCHANGED <<tables, dirs, BootVars>>
    BY DEF Late, __exec, schedule, command_page, pvars
<1>2. LateMem'
    BY <1>1, LateSame
<1>3. CASE __exec
  <2>1. script # <<>> /\ Current.op = "exec" /\ script' = Tail(script)
      BY <1>3 DEF __exec, Doing, Current
  <2>2. LateMain
    <3>1. ~LateRun
        BY <2>1, OneRequest DEF LateRun, Current
    <3> QED
        BY <3>1 DEF Late
  <2>3. Tail(script) = <<>>
      BY <2>1, <2>2, LateHead, LateOps
  <2> QED
      BY <1>2, <2>1, <2>3 DEF Late, LateRun
<1>4. CASE schedule
  <2>1. script' = <<>>
      BY <1>4 DEF schedule, Running
  <2> QED
      BY <1>2, <2>1 DEF Late, LateRun
<1>5. CASE command_page
  <2>1. script' = <<PageRequest>>
      BY <1>5 DEF command_page, PageRequest
  <2> QED
      BY <1>2, <2>1 DEF Late, LateRun, PageRequest
<1> QED
    BY <1>3, <1>4, <1>5

LEMMA LateNext ==
    ASSUME Late, HeapInv, BitmapInv, KNext
    PROVE  Late'
<1>1. CASE kmalloc \/ kill_directory \/ kill_process
  <2>1. UNCHANGED <<pvars, script, BootVars>>
      BY <1>1 DEF kmalloc, kill_directory, kill_process
  <2> QED
      BY <2>1, SameLate
<1>2. ~kmalloc_placement
    BY DEF kmalloc_placement, Late, LateMem
<1>3. ~identity_map /\ ~heap_map /\ ~create_heap
  <2>1. ASSUME identity_map \/ heap_map \/ create_heap PROVE FALSE
    <3>1. script # <<>> /\ Current.op \in {"identity", "heap", "create_heap"}
        BY <2>1 DEF identity_map, heap_map, create_heap, Doing, Current
    <3>2. ~LateRun
        BY <3>1, OneRequest DEF LateRun, Current
    <3>3. ~LateMain
        BY <3>1, LateHead, LateOps
    <3> QED
        BY <3>2, <3>3 DEF Late
  <2> QED
      BY <2>1
<1> QED
    BY <1>1, <1>2, <1>3, LateReturn, LatePages, LateMove, LateRuns DEF KNext

-----------------------------------------------------------------------------
(* Low memory and the heap are mapped as the kernel needs them             *)

\* Paging is switched on.
LEMMA CreateStep ==
    ASSUME KNext, BitmapInv, BootState, ~Exhausted, NEW p, InCreate(p)
    PROVE  UNCHANGED <<pvars, script, BootVars>> \/ Late'
<1>1. /\ p \in Nat /\ 0 < p /\ free_mem_addr <= p * PAGE /\ Filled(p, HEAP_PAGES)
      /\ kheap = FALSE /\ HEAP_PAGES \in Nat /\ KernelDir /\ DOMAIN dirs = {kernel_directory}
    BY Geometry DEF InCreate, BootState
<1>2. script = Then(Step("create_heap"), Later) /\ IsList(Later)
    BY AreLists DEF InCreate, AtCreate
<1>3. Step("create_heap").op = "create_heap"
    BY DEF Step
<1>4. Tail(script) = Later
    BY <1>2, ThenFacts
<1>5. UNCHANGED <<pvars, script, BootVars>> \/ create_heap
    BY <1>1, <1>2, <1>3, HeadStep
<1>6. CASE create_heap
  <2>1. /\ cr3' = kernel_directory /\ kheap' = TRUE /\ script' = Later
        /\ UNCHANGED <<frames, tables, dirs, free_mem_addr, kernel_directory>>
      BY <1>4, <1>6 DEF create_heap, switch_page_directory
  <2>2. free_mem_addr \in Nat
      BY <1>1 DEF KernelDir
  <2>3. free_mem_addr' \in Nat /\ free_mem_addr <= free_mem_addr'
      BY <2>1, <2>2
  <2>4. KernelDir'
      BY <1>1, <2>1, <2>3, SameKernelDir
  <2>5. KernelTables' = KernelTables
      BY <2>1 DEF KernelTables
  <2>6. DirOK(kernel_directory)'
      BY <1>1, <2>1, <2>5 DEF DirOK, KernelDir, KernelTables, IsDir
  <2> DEFINE n == p + HEAP_PAGES
  <2>7. n \in Nat /\ p <= n /\ frames = 0 .. n - 1
      BY <1>1 DEF Filled
  <2> HIDE DEF n
  <2>8. n \in Cleared
      BY <2>7, FirstFrame
  <2>9. p < HEAP_PAGE
      BY <1>1, <2>7, <2>8, Geometry
  <2>10. LowMapped(p)
    <3>1. \A x \in Nat : x < p => /\ Mapped(kernel_directory, x)
                                  /\ Translate(kernel_directory, x) = x
        BY <1>1 DEF Filled
    <3>2. ASSUME NEW j \in Nat, j < HEAP_PAGES
          PROVE  /\ Mapped(kernel_directory, HEAP_PAGE + j)
                 /\ Translate(kernel_directory, HEAP_PAGE + j) = p + j
      <4> DEFINE x == HEAP_PAGE + j
      <4>1. x \in Nat /\ HEAP_PAGE <= x /\ x < HEAP_PAGE + HEAP_PAGES
          BY <3>2, Geometry
      <4> HIDE DEF x
      <4>2. Mapped(kernel_directory, x)
          BY <1>1, <4>1 DEF Filled
      <4>3. Translate(kernel_directory, HEAP_PAGE + j) = p + j
          BY <1>1, <3>2 DEF Filled
      <4> QED
          BY <4>2, <4>3 DEF x
    <3> QED
        BY <1>1, <2>9, <3>1, <3>2 DEF LowMapped
  <2>11. SameMap
      BY <2>1 DEF SameMap, Mapped, HasTable, Translate, table_idx
  <2>12. LowMapped(p)'
      BY <2>1, <2>10, <2>11, KeepLowMapped
  <2>13. LateMem'
      BY <1>1, <2>1, <2>4, <2>6, <2>12 DEF LateMem
  <2>14. Ends(script, Clones, DOMAIN KernelTables)'
      BY <2>1, MainEnds
  <2>15. LateMain'
      BY <1>1, <2>1, <2>14 DEF LateMain
  <2> QED
      BY <2>13, <2>15 DEF Late
<1> QED
    BY <1>5, <1>6

\* Before the kernel's directory.
Early ==
    /\ kheap = FALSE /\ kernel_directory = 0 /\ dirs = <<>> /\ tables = <<>> /\ frames = {}
    /\ free_mem_addr \in Nat
    /\ script = Then(Display, AtBitmap) \/ script = AtBitmap \/ script = AtDirectory

LEMMA EarlyPlace ==
    ASSUME KNext, BitmapInv, Early, NEW x, NEW rest, IsList(rest), script = Then(x, rest),
           x.op = "kmalloc", x.what \in {"display", "frames"}, x.size \in Nat, x.align = FALSE,
           rest = AtBitmap \/ rest = AtDirectory
    PROVE  UNCHANGED <<pvars, script, BootVars>> \/ Early'
<1>1. kheap = FALSE /\ free_mem_addr \in Nat
    BY DEF Early
<1>2. UNCHANGED <<pvars, script, BootVars>> \/ kmalloc_placement
    BY ONLY <1>1, KNext, BitmapInv, IsList(rest), script = Then(x, rest), x.op = "kmalloc",
            HeadStep
<1>3. CASE kmalloc_placement
  <2>1. Current = x /\ Tail(script) = rest
      BY ThenFacts DEF Current
  <2>2. /\ free_mem_addr' = free_mem_addr + x.size /\ UNCHANGED <<frames, kheap>>
        /\ Placed(free_mem_addr \div PAGE, free_mem_addr \div PAGE)
      BY <1>3, <2>1 DEF kmalloc_placement
  <2>3. script' = rest /\ UNCHANGED <<tables, dirs, cr3, kernel_directory>>
      BY <2>1, <2>2 DEF Placed
  <2>4. free_mem_addr' \in Nat
      BY <1>1, <2>2
  <2> QED
      BY <2>2, <2>3, <2>4 DEF Early
<1> QED
    BY <1>2, <1>3

LEMMA PlacedDirectory ==
    ASSUME NEW at, NEW phys, Placed(at, phys), Current.what = "kernel_directory"
    PROVE  /\ dirs' = Put(<<>>, at, [physicalAddr |-> Physical(phys), tables |-> <<>>,
                                     tablesPhysical |-> <<>>])
           /\ kernel_directory' = at /\ script' = Tail(script) /\ UNCHANGED tables
BY DEF Placed

\* The kernel's directory is placed, with no table in it.
LEMMA EarlyDirectory ==
    ASSUME KNext, BitmapInv, Early, script = AtDirectory
    PROVE  UNCHANGED <<pvars, script, BootVars>> \/ Boot'
<1> DEFINE x == KDir
           rest == AtSlots(0)
<1>1. /\ x.op = "kmalloc" /\ x.what = "kernel_directory" /\ x.align = TRUE /\ x.size = 8196
    BY DEF KDir, Request, DIRECTORY_SIZE
<1>2. script = Then(x, rest) /\ IsList(rest)
    BY AreLists DEF AtDirectory
<1> HIDE DEF x, rest
<1>3. /\ kheap = FALSE /\ free_mem_addr \in Nat /\ dirs = <<>> /\ tables = <<>>
      /\ frames = {} /\ PAGE = 4096
    BY Geometry DEF Early
<1>4. UNCHANGED <<pvars, script, BootVars>> \/ kmalloc_placement
  <2>1. x.op = "kmalloc" /\ kheap = FALSE
      BY <1>1, <1>3
  <2> QED
      BY ONLY <1>2, <2>1, KNext, BitmapInv, HeadStep
<1>5. CASE kmalloc_placement
  <2> DEFINE up == AlignUp(free_mem_addr)
             at == up \div PAGE
             new == [physicalAddr |-> Physical(at), tables |-> <<>>, tablesPhysical |-> <<>>]
  <2>1. Current = x /\ Tail(script) = rest
      BY <1>2, ThenFacts DEF Current
  <2>2. /\ free_mem_addr' = up + 8196 /\ Placed(at, at) /\ UNCHANGED <<frames, kheap>>
      BY <1>1, <1>5, <2>1 DEF kmalloc_placement
  <2>3. /\ up \in Nat /\ at \in Nat /\ at * PAGE = up
      BY <1>3, AlignedPage
  <2> HIDE DEF up, at
  <2>4. /\ dirs' = Put(<<>>, at, new) /\ kernel_directory' = at /\ script' = rest
        /\ UNCHANGED tables
    <3>1. Current.what = "kernel_directory"
        BY <1>1, <2>1
    <3> QED
        BY ONLY <2>1, <2>2, <3>1, PlacedDirectory
  <2>5. /\ new.physicalAddr = at + 1 /\ new.tables = <<>> /\ new.tablesPhysical = <<>>
        /\ IsDir(new)
      BY DEF IsDir, Physical
  <2> HIDE DEF new
  <2>6. DOMAIN <<>> = {}
      OBVIOUS
  <2>7. DOMAIN dirs' = {at} /\ dirs'[at] = new
      BY <2>4, <2>6 DEF Put
  <2>8. KernelTables' = <<>> /\ DOMAIN KernelTables' = {} /\ DOMAIN tables' = {}
      BY <1>3, <2>4, <2>5, <2>6, <2>7 DEF KernelTables
  <2>9. free_mem_addr' \in Nat /\ (at + 2) * PAGE <= free_mem_addr'
      BY <1>3, <2>2, <2>3
  <2>10. KernelDir'
      BY <2>3, <2>4, <2>5, <2>6, <2>7, <2>8, <2>9 DEF KernelDir
  <2>11. BootState'
      BY <1>3, <2>2, <2>4, <2>7, <2>8, <2>10 DEF BootState
  <2>12. Filled(0, 0)'
    <3>1. frames' = 0 .. 0 + 0 - 1
        BY <1>3, <2>2
    <3>2. \A y \in Nat : ~Mapped(kernel_directory, y)'
        BY <2>8 DEF Mapped, HasTable, KernelTables
    <3>3. \A y \in Nat : ~(y < 0 \/ (HEAP_PAGE <= y /\ y < HEAP_PAGE + 0))
        BY Geometry
    <3> QED
        BY <3>1, <3>2, <3>3 DEF Filled, HEAP_PAGE, ENTRIES
  <2>13. Slots(0)'
      BY DEF Slots
  <2>14. InSlots(0)'
      BY <2>4, <2>12, <2>13, Geometry DEF InSlots, rest
  <2> QED
      BY <2>11, <2>14 DEF Boot
<1> QED
    BY <1>4, <1>5

LEMMA EarlyStep ==
    ASSUME KNext, BitmapInv, Early
    PROVE  UNCHANGED <<pvars, script, BootVars>> \/ Early' \/ Boot'
<1>0. IsList(AtBitmap) /\ IsList(AtDirectory)
    BY AreLists
<1>1. CASE script = Then(Display, AtBitmap)
  <2>1. /\ Display.op = "kmalloc" /\ Display.what \in {"display", "frames"}
        /\ Display.size \in Nat /\ Display.align = FALSE
      BY DEF Display, Request, DISPLAY_SIZE
  <2> QED
      BY <1>0, <1>1, <2>1, EarlyPlace
<1>2. CASE script = AtBitmap
  <2>1. /\ Bitmap.op = "kmalloc" /\ Bitmap.what \in {"display", "frames"}
        /\ Bitmap.size \in Nat /\ Bitmap.align = FALSE
      BY Sizes DEF Bitmap, Request
  <2>2. script = Then(Bitmap, AtDirectory)
      BY <1>2 DEF AtBitmap
  <2> QED
      BY <1>0, <2>1, <2>2, EarlyPlace
<1>3. CASE script = AtDirectory
    BY <1>3, EarlyDirectory
<1> QED
    BY <1>1, <1>2, <1>3 DEF Early

\* As long as a frame is left.
KernelInv == Exhausted \/ Early \/ Boot \/ Late

LEMMA SameKernel ==
    ASSUME KernelInv, UNCHANGED <<pvars, script, BootVars>>
    PROVE  KernelInv'
<1>1. /\ frames' = frames /\ tables' = tables /\ dirs' = dirs /\ script' = script
      /\ kheap' = kheap /\ kernel_directory' = kernel_directory
      /\ free_mem_addr' = free_mem_addr
    BY DEF pvars, BootVars
<1>2. Exhausted => Exhausted'
    BY <1>1 DEF Exhausted, Cleared
<1>3. Early => Early'
    BY <1>1 DEF Early
<1>4. Late => Late'
    BY SameLate
<1>5. ASSUME Boot PROVE Boot'
  <2>1. BootState
      BY <1>5 DEF Boot
  <2>2. /\ BootState' /\ SameMap /\ UNCHANGED <<frames, kernel_directory, free_mem_addr>>
        /\ \A x \in Nat : HasTable(kernel_directory, x) => HasTable(kernel_directory, x)'
      BY <1>1, <2>1, ScriptOnly
  <2>3. \A page, al, rest : AskPage(page, al, rest) => AskPage(page, al, rest)'
      BY <1>1 DEF AskPage, HasTable, table_idx
  <2>4. \A k : Slots(k) => Slots(k)'
      BY <2>2, KeepSlots
  <2>5. \A p \in Nat, k \in Nat : k <= HEAP_PAGES /\ Filled(p, k) => Filled(p, k)'
      BY <2>2, KeepFilled
  <2>6. 0 \in Nat /\ 0 <= HEAP_PAGES /\ HEAP_PAGES \in Nat /\ HEAP_PAGES <= HEAP_PAGES
      BY Geometry
  <2>7. ASSUME NEW k, InSlots(k) PROVE InSlots(k)'
      BY <1>1, <2>3, <2>4, <2>5, <2>6, <2>7 DEF InSlots
  <2>8. ASSUME NEW p, InIdentity(p) PROVE InIdentity(p)'
      BY <1>1, <2>3, <2>4, <2>5, <2>6, <2>8 DEF InIdentity
  <2>9. ASSUME NEW p, NEW k, InHeap(p, k) PROVE InHeap(p, k)'
      BY <1>1, <2>4, <2>5, <2>6, <2>9 DEF InHeap
  <2>10. ASSUME NEW p, InHeapT(p) PROVE InHeapT(p)'
      BY <1>1, <2>5, <2>6, <2>10 DEF InHeapT
  <2>11. ASSUME NEW p, InCreate(p) PROVE InCreate(p)'
      BY <1>1, <2>5, <2>6, <2>11 DEF InCreate
  <2> QED
      BY <1>5, <2>2, <2>7, <2>8, <2>9, <2>10, <2>11 DEF Boot
<1> QED
    BY <1>2, <1>3, <1>4, <1>5 DEF KernelInv

LEMMA BootNext ==
    ASSUME KNext, BitmapInv, Boot, ~Exhausted
    PROVE  UNCHANGED <<pvars, script, BootVars>> \/ Boot' \/ Late'
<1>1. BootState
    BY DEF Boot
<1>2. ASSUME NEW k, InSlots(k) PROVE UNCHANGED <<pvars, script, BootVars>> \/ Boot'
    BY <1>1, <1>2, SlotsStep
<1>3. ASSUME NEW p, InIdentity(p) PROVE UNCHANGED <<pvars, script, BootVars>> \/ Boot'
    BY <1>1, <1>3, IdentityStep
<1>4. ASSUME NEW p, NEW k, InHeap(p, k) PROVE UNCHANGED <<pvars, script, BootVars>> \/ Boot'
    BY <1>1, <1>4, HeapPagesStep
<1>5. ASSUME NEW p, InHeapT(p) PROVE UNCHANGED <<pvars, script, BootVars>> \/ Boot'
    BY <1>1, <1>5, HeapTStep
<1>6. ASSUME NEW p, InCreate(p) PROVE UNCHANGED <<pvars, script, BootVars>> \/ Late'
    BY <1>1, <1>6, CreateStep
<1> QED
    BY <1>2, <1>3, <1>4, <1>5, <1>6 DEF Boot

LEMMA KernelStep ==
    ASSUME KernelInv, FInv, BitmapInv, HeapInv, [KNext]_kvars
    PROVE  KernelInv'
<1>1. CASE UNCHANGED kvars
  <2>1. UNCHANGED <<pvars, script, BootVars>>
      BY <1>1 DEF kvars, pvars, BootVars
  <2> QED
      BY <2>1, SameKernel
<1>2. CASE KNext
  <2>1. CASE Exhausted
    <3>1. frames \subseteq frames'
        BY EveryStep DEF FrameStep
    <3> QED
        BY <2>1, <3>1 DEF Exhausted, KernelInv, Cleared
  <2>2. CASE ~Exhausted /\ Early
      BY <1>2, <2>2, EarlyStep, SameKernel DEF KernelInv
  <2>3. CASE ~Exhausted /\ Boot
      BY <1>2, <2>3, BootNext, SameKernel DEF KernelInv
  <2>4. CASE ~Exhausted /\ Late
      BY <1>2, <2>4, LateNext DEF KernelInv
  <2> QED
      BY <2>1, <2>2, <2>3, <2>4 DEF KernelInv
<1> QED
    BY <1>1, <1>2

LEMMA SpecKernelInv == KSpec => []KernelInv
<1>1. KInit => KernelInv
  <2>1. ASSUME KInit PROVE Early
    <3>1. /\ kheap = FALSE /\ kernel_directory = 0 /\ dirs = <<>> /\ tables = <<>>
          /\ frames = {} /\ free_mem_addr \in Nat /\ script = kernel_main
        BY <2>1, KernelMemoryAssumption DEF KInit
    <3> QED
        BY <3>1, MainScript DEF Early
  <2> QED
      BY <2>1 DEF KernelInv
<1>2. KernelInv /\ FInv /\ BitmapInv /\ HeapInv /\ [KNext]_kvars => KernelInv'
    BY KernelStep
<1> QED
    BY <1>1, <1>2, SpecFInv, SpecBitmapInv, SpecHeapInv, PTL DEF KSpec

\* For every end of the ramdisk, heap size and memory size: once paging is on, all
\* the memory kmalloc placed before is mapped onto itself, heap_t included, which
\* is placed after the identity loop, as long as a frame that the bitmap says is
\* free is left.  The loop's bound moves while the loop makes tables; the page it
\* maps beyond its bound is the one heap_t needs.
THEOREM IdentityMappedUntilFull == KSpec => [](~Exhausted => IdentityMapped)
<1>1. KernelInv => (~Exhausted => IdentityMapped)
  <2> SUFFICES ASSUME KernelInv, ~Exhausted, kheap,
                      NEW page \in 0 .. (free_mem_addr - 1) \div PAGE
               PROVE  /\ Mapped(kernel_directory, page)
                      /\ Translate(kernel_directory, page) = page
      BY DEF IdentityMapped
  <2>1. LateMem
      BY DEF KernelInv, Early, Boot, BootState, Late
  <2>2. PICK p : LowMapped(p)
      BY <2>1 DEF LateMem
  <2>3. /\ p \in Nat /\ free_mem_addr \in Nat /\ free_mem_addr <= p * PAGE /\ PAGE = 4096
        /\ 0 < free_mem_addr
      BY <2>1, <2>2, Geometry DEF LowMapped, LateMem, KernelDir
  <2>4. page \in Nat /\ page < p
      BY <2>3
  <2> QED
      BY <2>2, <2>4 DEF LowMapped
<1> QED
    BY <1>1, SpecKernelInv, PTL

\* For every end of the ramdisk, heap size and memory size: every directory a
\* process can run on has the kernel's tables for low memory and for the start of
\* the heap, whatever is cloned from which directory, as long as a frame that the
\* bitmap says is free is left.
THEOREM KernelSharedUntilFull == KSpec => [](~Exhausted => KernelShared)
<1>1. KernelInv => (~Exhausted => KernelShared)
  <2> SUFFICES ASSUME KernelInv, ~Exhausted, NEW d \in DOMAIN dirs,
                      NEW s \in {0, table_idx(HEAP_PAGE)}
               PROVE  IF s \in DOMAIN dirs[d].tables
                      THEN dirs[d].tables[s] = dirs[kernel_directory].tables[s]
                      ELSE ~Running
      BY DEF KernelShared
  <2>1. CASE Early
    <3>1. DOMAIN <<>> = {}
        OBVIOUS
    <3> QED
        BY <2>1, <3>1 DEF Early
  <2>2. CASE Boot
    <3>1. d = kernel_directory
        BY <2>2 DEF Boot, BootState
    <3>2. ~Running
      <4>1. /\ IsList(AtHeapT) /\ IsList(AtCreate) /\ IsList(Later)
            /\ \A k : IsList(AtHeap(k)) /\ IsList(AtIdentity(k)) /\ IsList(AtSlots(k))
          BY AreLists
      <4>2. \A x, t : IsList(t) => Then(x, t) # <<>> /\ IsList(Then(x, t))
          BY ThenFacts
      <4>3. \A page, al, rest : IsList(rest) /\ AskPage(page, al, rest) => script # <<>>
          BY <4>2 DEF AskPage
      <4>4. (\E k : InSlots(k)) => script # <<>>
          BY <4>1, <4>2, <4>3 DEF InSlots, AtSlots
      <4>5. (\E p : InIdentity(p)) => script # <<>>
          BY <4>1, <4>2, <4>3 DEF InIdentity, AtIdentity
      <4>6. (\E p, k : InHeap(p, k)) => script # <<>>
          BY <4>1, <4>2 DEF InHeap, AtHeap
      <4>7. (\E p : InHeapT(p)) => script # <<>>
          BY <4>1, <4>2 DEF InHeapT, AtHeapT
      <4>8. (\E p : InCreate(p)) => script # <<>>
          BY <4>1, <4>2 DEF InCreate, AtCreate
      <4> QED
          BY <2>2, <4>4, <4>5, <4>6, <4>7, <4>8 DEF Boot, Running
    <3> QED
        BY <3>1, <3>2
  <2>3. CASE Late
    <3>1. LateMem /\ DirOK(d)
        BY <2>3 DEF Late, LateMem
    <3>2. PICK p : LowMapped(p)
        BY <3>1 DEF LateMem
    <3>3. Mapped(kernel_directory, 0)
        BY <3>2 DEF LowMapped
    <3>4. Mapped(kernel_directory, HEAP_PAGE)
      <4>1. 0 \in Nat /\ 0 < HEAP_PAGES /\ HEAP_PAGE + 0 = HEAP_PAGE
          BY Geometry
      <4> QED
          BY <3>2, <4>1 DEF LowMapped
    <3>5. table_idx(0) = 0
        BY DEF table_idx, ENTRIES
    <3>6. s \in DOMAIN KernelTables
        BY <3>3, <3>4, <3>5 DEF Mapped, HasTable, KernelTables
    <3> QED
        BY <3>1, <3>6 DEF DirOK, KernelTables
  <2> QED
      BY <2>1, <2>2, <2>3 DEF KernelInv
<1> QED
    BY <1>1, SpecKernelInv, PTL

-----------------------------------------------------------------------------
(* Physical addresses                                                      *)

\* A finite set of numbers that has a member has a greatest one: the one with the
\* fewest members above it.
LEMMA FiniteGreatest ==
    ASSUME NEW T \in SUBSET Nat, T # {}, IsFiniteSet(T)
    PROVE  \E x \in T : \A y \in T : y <= x
<1> DEFINE Above(x) == {y \in T : x < y}
           C == {Cardinality(Above(x)) : x \in T}
<1>1. \A x \in T : IsFiniteSet(Above(x)) /\ Cardinality(Above(x)) \in Nat
  <2>1. ASSUME NEW x \in T PROVE IsFiniteSet(Above(x)) /\ Cardinality(Above(x)) \in Nat
    <3>1. Above(x) \in SUBSET T
        OBVIOUS
    <3> HIDE DEF Above
    <3> QED
        BY <3>1, FS_Subset, FS_CardinalityType
  <2> QED
      BY <2>1
<1>2. C \in SUBSET Nat /\ C # {}
    BY <1>1
<1>3. PICK n \in C : \A m \in C : n <= m
    BY <1>2, LeastNumber
<1>4. PICK x \in T : n = Cardinality(Above(x))
    BY <1>3
<1>5. ASSUME NEW y \in T, ~(y <= x) PROVE FALSE
  <2>1. x \in Nat /\ y \in Nat /\ x < y
      BY <1>5
  <2>2. Above(y) \in SUBSET Above(x) /\ y \in Above(x) /\ y \notin Above(y)
    <3>1. \A z \in T : y < z => x < z
        BY <2>1
    <3>2. ~(y < y)
        BY <2>1
    <3> QED
        BY <2>1, <3>1, <3>2
  <2>3. IsFiniteSet(Above(x)) /\ Cardinality(Above(y)) \in C /\ Cardinality(Above(y)) \in Nat
      BY <1>1
  <2>4. n <= Cardinality(Above(y)) /\ n \in Nat
      BY <1>2, <1>3, <2>3
  <2> HIDE DEF Above, C
  <2>5. /\ Cardinality(Above(y)) <= Cardinality(Above(x))
        /\ Cardinality(Above(x)) = Cardinality(Above(y)) => Above(x) = Above(y)
      BY <2>2, <2>3, FS_Subset
  <2> QED
      BY <1>4, <2>2, <2>3, <2>4, <2>5
<1> QED
    BY <1>5

LEMMA FiniteTiles ==
    ASSUME HeapType
    PROVE  IsFiniteSet(Tiles) /\ Tiles \in SUBSET Nat
<1>1. index \in Seq(Nat) /\ HDR \in Nat /\ START \in Nat
    BY NowParts, HeapSizes DEF HeapType, HeapMem
<1>2. IsFiniteSet(Holes) /\ Holes \in SUBSET Nat
  <2>1. index \in Surjection(DOMAIN index, Holes)
      BY <1>1 DEF Holes, Surjection
  <2>2. IsFiniteSet(DOMAIN index)
      BY <1>1, FS_Interval
  <2> QED
      BY <1>1, <2>1, <2>2, FS_Surjection DEF Holes
<1>3. IsFiniteSet(Blocks) /\ Blocks \in SUBSET Nat
  <2> DEFINE f == [p \in DOMAIN live |-> p - HDR]
  <2>1. f \in Surjection(DOMAIN live, Blocks)
      BY DEF Blocks, Header, Surjection
  <2> HIDE DEF f
  <2>2. IsFiniteSet(Blocks)
      BY <2>1, FS_Surjection DEF HeapType
  <2>3. \A p \in DOMAIN live : p - HDR \in Nat
      BY <1>1 DEF HeapType
  <2> QED
      BY <2>2, <2>3 DEF Blocks, Header
<1> QED
    BY <1>2, <1>3, FS_Union DEF Tiles

\* In a tiled heap no block reaches beyond its end: a tile that did would be
\* followed by another one.
LEMMA TiledInside ==
    ASSUME HeapType, Tiling
    PROVE  ContractKeepsLive
<1> DEFINE Over == {t \in Tiles : ~(EndOf(t) <= end)}
<1>1. IsFiniteSet(Tiles) /\ Tiles \in SUBSET Nat /\ end \in Nat
    BY FiniteTiles DEF HeapType
<1>2. ASSUME NEW t \in Tiles
      PROVE  /\ hdr[t].size \in Nat /\ 0 < hdr[t].size /\ EndOf(t) \in Nat /\ t < EndOf(t)
             /\ EndOf(t) \in Tiles \cup {end}
  <2>1. t \in DOMAIN hdr /\ hdr[t].size >= HDR + FTR /\ EndOf(t) \in Tiles \cup {end}
      BY DEF Tiling
  <2>2. hdr[t].size \in Nat
      BY <2>1, NowParts DEF HeapType, HeapMem
  <2> QED
      BY <1>1, <2>1, <2>2, HeapSizes DEF EndOf
<1>3. Over = {}
  <2> SUFFICES ASSUME Over # {} PROVE FALSE
      OBVIOUS
  <2>1. Over \in SUBSET Tiles
      OBVIOUS
  <2>2. IsFiniteSet(Over) /\ Over \in SUBSET Nat
      BY <1>1, <2>1, FS_Subset
  <2>3. PICK t \in Over : \A u \in Over : u <= t
      BY <2>2, FiniteGreatest
  <2>4. /\ t \in Tiles /\ t \in Nat /\ EndOf(t) \in Nat /\ t < EndOf(t) /\ ~(EndOf(t) <= end)
        /\ EndOf(t) \in Tiles
      BY <1>1, <1>2
  <2> DEFINE v == EndOf(t)
  <2>5. v \in Tiles /\ v \in Nat /\ v < EndOf(v) /\ EndOf(v) \in Nat
      BY <1>2, <2>4
  <2>6. v \in Over
      BY <1>1, <2>4, <2>5
  <2> QED
      BY <2>3, <2>4, <2>6
<1>4. ASSUME NEW p \in DOMAIN live PROVE p + live[p] <= end
  <2> DEFINE t == Header(p)
  <2>1. t \in Tiles
      BY DEF Tiles, Blocks
  <2>2. hdr[t].size >= Gross(live[p])
      BY DEF Tiling
  <2>3. EndOf(t) <= end /\ hdr[t].size \in Nat
      BY <1>2, <1>3, <2>1
  <2>4. p \in Nat /\ live[p] \in Nat
      BY DEF HeapType
  <2> QED
      BY <1>1, <2>2, <2>3, <2>4, HeapSizes DEF EndOf, Gross, Header
<1> QED
    BY <1>4 DEF ContractKeepsLive

\* The kernel's tables put the page into the frame.
Lies(page, frame) ==
    /\ page \in Nat /\ Mapped(kernel_directory, page)
    /\ Translate(kernel_directory, page) = frame

\* What the CPU is told of the directory is where it lies.
PhysDir(d) ==
    /\ Lies(d + 1, dirs[d].physicalAddr)
    /\ DOMAIN dirs[d].tablesPhysical = DOMAIN dirs[d].tables
    /\ \A s \in DOMAIN dirs[d].tables : Lies(dirs[d].tables[s], dirs[d].tablesPhysical[s])

LEMMA LiesStill ==
    ASSUME SameMap, UNCHANGED kernel_directory
    PROVE  \A page, frame : Lies(page, frame) => Lies(page, frame)'
<1> SUFFICES ASSUME NEW page, NEW frame, Lies(page, frame) PROVE Lies(page, frame)'
    OBVIOUS
<1>1. /\ page \in Nat /\ Mapped(kernel_directory, page)
      /\ Translate(kernel_directory, page) = frame
    BY DEF Lies
<1>2. /\ Mapped(kernel_directory, page)'
      /\ Translate(kernel_directory, page)' = frame
    BY <1>1 DEF SameMap
<1> QED
    BY <1>1, <1>2 DEF Lies

\* The directory and the tables placed before the heap lie in mapped low memory.
LEMMA KernelPhys ==
    ASSUME LateMem
    PROVE  PhysDir(kernel_directory)
<1>1. PICK p : LowMapped(p)
    BY DEF LateMem
<1>2. p \in Nat /\ free_mem_addr <= p * PAGE /\ free_mem_addr \in Nat /\ PAGE = 4096
    BY <1>1, Geometry DEF LowMapped, LateMem, KernelDir
<1>3. ASSUME NEW x \in Nat, (x + 1) * PAGE <= free_mem_addr PROVE Lies(x, x)
  <2>1. x < p
      BY <1>2, <1>3
  <2> QED
      BY <1>1, <2>1 DEF LowMapped, Lies
<1>4. /\ kernel_directory \in Nat /\ (kernel_directory + 2) * PAGE <= free_mem_addr
      /\ dirs[kernel_directory].physicalAddr = kernel_directory + 1
      /\ DOMAIN dirs[kernel_directory].tablesPhysical = DOMAIN KernelTables
      /\ \A s \in DOMAIN KernelTables :
            /\ KernelTables[s] \in Nat /\ (KernelTables[s] + 1) * PAGE <= free_mem_addr
            /\ dirs[kernel_directory].tablesPhysical[s] = KernelTables[s]
    BY DEF LateMem, KernelDir
<1> DEFINE x == kernel_directory + 1
<1>5. x \in Nat /\ (x + 1) * PAGE <= free_mem_addr
    BY <1>2, <1>4
<1>6. Lies(x, x)
    BY <1>3, <1>5
<1> QED
    BY <1>3, <1>4, <1>6 DEF PhysDir, KernelTables

\* A directory that a step leaves alone.
LEMMA PhysKept ==
    ASSUME SameMap, UNCHANGED kernel_directory, NEW d, PhysDir(d), dirs'[d] = dirs[d]
    PROVE  PhysDir(d)'
<1>1. \A page, frame : Lies(page, frame) => Lies(page, frame)'
    BY LiesStill
<1> QED
    BY <1>1 DEF PhysDir

\* The table goes into the page directory entry of its slot.
LEMMA PhysTable ==
    ASSUME SameMap, UNCHANGED kernel_directory, \A d \in DOMAIN dirs : PhysDir(d),
           NEW dir \in DOMAIN dirs, NEW slot, NEW at, NEW phys, Lies(at, phys),
           NewTableDirs(dir, slot, at, phys)
    PROVE  \A d \in DOMAIN dirs' : PhysDir(d)'
<1> DEFINE T == dirs[dir].tables
           P == dirs[dir].tablesPhysical
           N == Put(T, slot, at)
           Q == Put(P, slot, phys)
<1>1. /\ DOMAIN dirs' = DOMAIN dirs
      /\ \A d \in DOMAIN dirs : d # dir => dirs'[d] = dirs[d]
      /\ dirs'[dir] = [physicalAddr |-> dirs[dir].physicalAddr, tables |-> N,
                       tablesPhysical |-> Q]
    BY DEF NewTableDirs
<1>2. /\ DOMAIN N = DOMAIN T \cup {slot} /\ N[slot] = at
      /\ \A s \in DOMAIN T : s # slot => N[s] = T[s]
      /\ DOMAIN Q = DOMAIN P \cup {slot} /\ Q[slot] = phys
      /\ \A s \in DOMAIN P : s # slot => Q[s] = P[s]
    BY DEF Put
<1>3. /\ Lies(dir + 1, dirs[dir].physicalAddr)
      /\ DOMAIN P = DOMAIN T /\ \A s \in DOMAIN T : Lies(T[s], P[s])
    BY DEF PhysDir
<1> HIDE DEF T, P, N, Q
<1>4. \A page, frame : Lies(page, frame) => Lies(page, frame)'
    BY LiesStill
<1>5. ASSUME NEW s \in DOMAIN N PROVE Lies(N[s], Q[s])
  <2>1. CASE s = slot
      BY <1>2, <2>1
  <2>2. CASE s # slot
    <3>1. s \in DOMAIN T /\ s \in DOMAIN P
        BY <1>2, <1>3, <1>5, <2>2
    <3> QED
        BY <1>2, <1>3, <2>2, <3>1
  <2> QED
      BY <2>1, <2>2
<1>6. PhysDir(dir)'
  <2>1. /\ dirs'[dir].physicalAddr = dirs[dir].physicalAddr
        /\ dirs'[dir].tables = N /\ dirs'[dir].tablesPhysical = Q
      BY <1>1
  <2>2. DOMAIN Q = DOMAIN N
      BY <1>2, <1>3
  <2> QED
      BY <1>3, <1>4, <1>5, <2>1, <2>2 DEF PhysDir
<1>7. ASSUME NEW d \in DOMAIN dirs, d # dir PROVE PhysDir(d)'
    BY <1>1, <1>7, PhysKept
<1> QED
    BY <1>1, <1>6, <1>7

\* A new directory: the entries of the tables it shares are copied.
LEMMA PhysDirectory ==
    ASSUME SameMap, UNCHANGED kernel_directory, \A d \in DOMAIN dirs : PhysDir(d),
           cr3 \in DOMAIN dirs, NEW at, NEW phys, Lies(at + 1, phys + 1),
           NewDirectory(at, phys, kernel_directory, cr3)
    PROVE  \A d \in DOMAIN dirs' : PhysDir(d)'
<1> DEFINE Sh == Shared(kernel_directory, cr3)
           N == [i \in Sh |-> dirs[cr3].tables[i]]
           Q == [i \in Sh |-> dirs[cr3].tablesPhysical[i]]
           new == [physicalAddr |-> Physical(phys), tables |-> N, tablesPhysical |-> Q]
<1>1. dirs' = Put(dirs, at, new)
    BY DEF NewDirectory
<1>2. \A s \in Sh : Lies(dirs[cr3].tables[s], dirs[cr3].tablesPhysical[s])
    BY DEF PhysDir, Shared
<1>3. DOMAIN N = Sh /\ DOMAIN Q = Sh /\ \A s \in Sh : Lies(N[s], Q[s])
    BY <1>2
<1>4. new.physicalAddr = phys + 1 /\ new.tables = N /\ new.tablesPhysical = Q
    BY DEF Physical
<1> HIDE DEF new, N, Q, Sh
<1>5. /\ DOMAIN dirs' = DOMAIN dirs \cup {at} /\ dirs'[at] = new
      /\ \A d \in DOMAIN dirs : d # at => dirs'[d] = dirs[d]
    BY <1>1 DEF Put
<1>6. \A page, frame : Lies(page, frame) => Lies(page, frame)'
    BY LiesStill
<1>7. PhysDir(at)'
    BY <1>3, <1>4, <1>5, <1>6 DEF PhysDir
<1>8. ASSUME NEW d \in DOMAIN dirs, d # at PROVE PhysDir(d)'
    BY <1>5, <1>8, PhysKept
<1> QED
    BY <1>5, <1>7, <1>8

\* The pages of the heap lie in frames that follow each other.
LEMMA HeapLies ==
    ASSUME LateMem, NEW q \in Nat, q < HEAP_PAGES
    PROVE  /\ Lies(HEAP_PAGE + q, Translate(kernel_directory, HEAP_PAGE + q))
           /\ q + 1 < HEAP_PAGES =>
                 Lies(HEAP_PAGE + q + 1, Translate(kernel_directory, HEAP_PAGE + q) + 1)
<1>1. PICK p : LowMapped(p)
    BY DEF LateMem
<1>2. p \in Nat /\ HEAP_PAGE \in Nat /\ HEAP_PAGES \in Nat
    BY <1>1, Geometry DEF LowMapped
<1>3. ASSUME NEW j \in Nat, j < HEAP_PAGES
      PROVE  Lies(HEAP_PAGE + j, p + j) /\ Translate(kernel_directory, HEAP_PAGE + j) = p + j
  <2>1. HEAP_PAGE + j \in Nat
      BY <1>2
  <2> QED
      BY <1>1, <1>3, <2>1 DEF LowMapped, Lies
<1>4. Lies(HEAP_PAGE + q, p + q) /\ Translate(kernel_directory, HEAP_PAGE + q) = p + q
    BY <1>3
<1>5. ASSUME q + 1 < HEAP_PAGES PROVE Lies(HEAP_PAGE + q + 1, p + q + 1)
  <2>1. Lies(HEAP_PAGE + (q + 1), p + (q + 1))
      BY <1>3, <1>5
  <2>2. HEAP_PAGE + (q + 1) = HEAP_PAGE + q + 1 /\ p + (q + 1) = p + q + 1
      BY <1>2
  <2> QED
      BY <2>1, <2>2
<1> QED
    BY <1>4, <1>5

\* Boot code and page commands only run while the heap has its initial size.
Whole ==
    /\ window = "cli" => Running
    /\ ~Running => Unresized

LEMMA WholeStep ==
    ASSUME Whole, BitmapInv, [KNext]_kvars
    PROVE  Whole'
<1>1. CASE UNCHANGED <<script, window, end>>
    BY <1>1 DEF Whole, Running, Unresized
<1>2. CASE UNCHANGED <<window, end>> /\ ~Running
    BY <1>2 DEF Whole, Running, Unresized
<1>3. CASE kill_directory \/ kill_process
  <2>1. Running /\ UNCHANGED script
      BY <1>3 DEF kill_directory, kill_process, Whole
  <2> QED
      BY <2>1 DEF Whole, Running
<1>4. CASE schedule
  <2>1. Running /\ UNCHANGED script /\ window' = "no"
      BY <1>4 DEF schedule
  <2> QED
      BY <2>1 DEF Whole, Running
<1>5. CASE command_page
  <2>1. window # "cli" /\ Unresized /\ UNCHANGED <<window, end>>
      BY <1>5 DEF command_page, vars
  <2> QED
      BY <2>1 DEF Whole, Unresized
<1>6. CASE kmalloc_return
  <2>1. UNCHANGED <<window, end>> /\ req # NoReq
      BY <1>6 DEF kmalloc_return, alloc_take, ProcessVars
  <2>2. ~Running
      BY <2>1, RequestFacts DEF Doing, Running
  <2> QED
      BY <1>2, <2>1, <2>2
<1>7. CASE kmalloc
    BY <1>1, <1>7 DEF kmalloc, alloc, ProcessVars
<1>8. CASE kmalloc_placement \/ get_page_make \/ get_page_there \/ clone_page
    BY <1>2, <1>8
       DEF kmalloc_placement, get_page_make, get_page_there, clone_page, Doing, Running,
           ProcessVars, vars
<1>9. CASE identity_map \/ heap_map \/ create_heap \/ move_stack \/ __exec
    BY <1>2, <1>9
       DEF identity_map, heap_map, create_heap, move_stack, __exec, Doing, Running,
           ProcessVars, vars
<1>10. CASE UNCHANGED kvars
    BY <1>1, <1>10 DEF kvars, vars
<1> QED
    BY <1>3, <1>4, <1>5, <1>6, <1>7, <1>8, <1>9, <1>10 DEF KNext

LEMMA SpecWhole == KSpec => []Whole
<1>1. KInit => Whole
    BY DEF KInit, Init, Whole, Unresized
<1>2. Whole /\ BitmapInv /\ [KNext]_kvars => Whole'
    BY WholeStep
<1> QED
    BY <1>1, <1>2, SpecBitmapInv, PTL DEF KSpec

\* The block a request returns lies in the pages of the heap, all of it.
LEMMA TakenInside ==
    ASSUME HeapInv, BitmapInv, Whole, kmalloc_return, ContractKeepsLive'
    PROVE  LET a == Taken(Now, HoleFor(req), req.size, req.align).ptr
           IN  /\ a \in Nat /\ Current.size \in Nat
               /\ a + Current.size <= HEAP_PAGES * PAGE
<1> DEFINE a == Taken(Now, HoleFor(req), req.size, req.align).ptr
<1>1. /\ req # NoReq /\ HoleFor(req) <= Len(index)
      /\ live' = At(live, a, req.size) /\ end' = end
    BY DEF kmalloc_return, alloc_take
<1>2. a \in Nat
    BY <1>1, TakeFacts DEF HeapInv
<1>3. /\ ~Running /\ req.size = Current.size /\ req.size \in Nat
    BY <1>1, RequestFacts DEF Doing, Running
<1> HIDE DEF a
<1>4. a \in DOMAIN live' /\ live'[a] = req.size
    BY <1>1 DEF At
<1>5. a + req.size <= end
    BY <1>1, <1>4 DEF ContractKeepsLive
<1>6. end = START + INITIAL
    BY <1>3 DEF Whole, Unresized
<1>7. HEAP_PAGES * PAGE = START + INITIAL
  <2>1. /\ START \in Nat /\ INITIAL \in Nat /\ START % PAGE = 0 /\ INITIAL % PAGE = 0
        /\ PAGE = 4096 /\ FRAME_SIZE = 4096
      BY HeapAssumption, Geometry
  <2>2. ((START + INITIAL) \div 4096) * 4096 = START + INITIAL
      BY <2>1
  <2> QED
      BY <2>1, <2>2 DEF HEAP_PAGES
<1> QED
    BY <1>2, <1>3, <1>5, <1>6, <1>7 DEF a

AllPhys == \A d \in DOMAIN dirs : PhysDir(d)

\* kmalloc returns to the code that makes a table or a directory, or to other code.
LEMMA PhysPlaced ==
    ASSUME Late, AllPhys, UNCHANGED <<kheap, free_mem_addr>>, Doing("kmalloc"),
           NEW q \in Nat, Current.size \in Nat, q * PAGE + Current.size <= HEAP_PAGES * PAGE,
           Placed(HEAP_PAGE + q, Translate(kernel_directory, HEAP_PAGE + q))
    PROVE  AllPhys'
<1> DEFINE at == HEAP_PAGE + q
           phys == Translate(kernel_directory, at)
<1>0. script # <<>> /\ Current.op = "kmalloc" /\ LateMem
    BY DEF Doing, Current, Late
<1>1. at \in Nat /\ HEAP_PAGE <= at /\ HEAP_PAGES \in Nat /\ PAGE = 4096
    BY Geometry
<1>2. Placed(at, phys)
    OBVIOUS
<1>3. /\ q < HEAP_PAGES => Lies(at, phys)
      /\ q < HEAP_PAGES /\ q + 1 < HEAP_PAGES => Lies(at + 1, phys + 1)
    BY <1>0, HeapLies
<1> HIDE DEF at, phys
<1>4. ASSUME UNCHANGED <<tables, dirs, kernel_directory>> PROVE AllPhys'
  <2>1. SameMap
      BY <1>4 DEF SameMap, Mapped, HasTable, Translate, table_idx
  <2> QED
      BY <1>4, <2>1, PhysKept DEF AllPhys
<1>5. CASE LateRun
  <2>1. Current.what = "page"
      BY <1>0, <1>5, OneRequest DEF LateRun, Current
  <2>2. UNCHANGED <<tables, dirs, kernel_directory>>
      BY <1>2, <2>1 DEF Placed
  <2> QED
      BY <1>4, <2>2
<1>6. CASE LateMain
  <2>1. LateStep(Current, Clones, DOMAIN KernelTables) /\ cr3 \in DOMAIN dirs
      BY <1>0, <1>6, LateHead
  <2>2. \/ Current.what \in {"node", "process", "stack"}
        \/ Current.what = "directory" /\ Current.size = 8196
        \/ /\ Current.what = "table" /\ Current.size = 4096
           /\ Current.dir \in Clones /\ Current.slot \notin DOMAIN KernelTables
      BY <1>0, <2>1 DEF LateStep, DIRECTORY_SIZE, TABLE_SIZE
  <2>3. CASE Current.what \in {"node", "process", "stack"}
    <3>1. UNCHANGED <<tables, dirs, kernel_directory>>
        BY <1>2, <2>3 DEF Placed
    <3> QED
        BY <1>4, <3>1
  <2>4. CASE Current.what = "directory" /\ Current.size = 8196
    <3>1. NewDirectory(at, phys, kernel_directory, cr3) /\ UNCHANGED <<tables, kernel_directory>>
        BY <1>2, <2>4 DEF Placed
    <3>2. q + 1 < HEAP_PAGES /\ q < HEAP_PAGES
        BY <1>1, <2>4
    <3>3. SameMap
      <4>1. UNCHANGED <<kheap, kernel_directory, free_mem_addr, tables>>
          BY <3>1
      <4> QED
          BY ONLY <1>0, <1>1, <2>1, <3>1, <4>1, LateDirectory
    <3> QED
        BY <1>3, <2>1, <3>1, <3>2, <3>3, PhysDirectory DEF AllPhys
  <2>5. CASE /\ Current.what = "table" /\ Current.size = 4096
             /\ Current.dir \in Clones /\ Current.slot \notin DOMAIN KernelTables
    <3> DEFINE dir == Current.dir
               slot == Current.slot
    <3>1. NewTable(dir, slot, at, phys) /\ UNCHANGED kernel_directory
        BY <1>2, <2>5 DEF Placed
    <3>2. q < HEAP_PAGES
        BY <1>1, <2>5
    <3>3. SameMap
        BY <1>0, <1>1, <2>5, <3>1, LateTable
    <3>4. dir \in DOMAIN dirs /\ NewTableDirs(dir, slot, at, phys)
        BY <1>0, <2>5, <3>1, NewTableFacts DEF Clones, LateMem, DirOK
    <3> HIDE DEF dir, slot
    <3> QED
        BY <1>3, <3>1, <3>2, <3>3, <3>4, PhysTable DEF AllPhys
  <2> QED
      BY <2>2, <2>3, <2>4, <2>5
<1> QED
    BY <1>5, <1>6 DEF Late

LEMMA PhysReturn ==
    ASSUME Late, AllPhys, HeapInv, BitmapInv, Whole, kmalloc_return, ContractKeepsLive'
    PROVE  AllPhys'
<1> DEFINE a == Taken(Now, HoleFor(req), req.size, req.align).ptr
           q == a \div PAGE
<1>1. a \in Nat /\ Current.size \in Nat /\ a + Current.size <= HEAP_PAGES * PAGE
    BY TakenInside
<1>2. /\ Placed(HEAP_PAGE + q, Translate(kernel_directory, HEAP_PAGE + q))
      /\ UNCHANGED <<kheap, free_mem_addr>>
    BY DEF kmalloc_return
<1>3. Doing("kmalloc")
    BY RequestFacts DEF kmalloc_return, alloc_take
<1> HIDE DEF a
<1>4. PAGE = 4096 /\ HEAP_PAGES \in Nat
    BY Geometry
<1>5. q \in Nat /\ q * PAGE <= a
    BY <1>1, <1>4
<1> HIDE DEF q
<1>6. q * PAGE + Current.size <= HEAP_PAGES * PAGE
    BY <1>1, <1>4, <1>5
<1> QED
    BY <1>1, <1>2, <1>3, <1>5, <1>6, PhysPlaced

\* The other steps that change tables give frames to pages the kernel's do not map.
LEMMA PhysPages ==
    ASSUME Late, AllPhys, get_page_there \/ clone_page
    PROVE  AllPhys'
<1>1. /\ script # <<>> /\ LateMem /\ UNCHANGED <<dirs, BootVars, kernel_directory>>
      /\ \/ Current.op = "get_page" /\ get_page_there
         \/ Current.op = "alloc_frame" /\ clone_page
    BY DEF get_page_there, clone_page, Doing, Current, Late, BootVars
<1>2. LateMain
  <2>1. ~LateRun
      BY <1>1, OneRequest DEF LateRun, Current
  <2> QED
      BY <2>1 DEF Late
<1>3. LateStep(Current, Clones, DOMAIN KernelTables)
    BY <1>1, <1>2, LateHead
<1>4. SameMap
  <2>1. CASE get_page_there
    <3> DEFINE dir == Current.dir
               page == Current.page
               t == dirs[dir].tables[table_idx(page)]
    <3>1. dir \in Clones /\ table_idx(page) \notin DOMAIN KernelTables
        BY <1>1, <1>3, <2>1 DEF LateStep, get_page_there, Doing, Current
    <3>2. /\ table_idx(page) \in DOMAIN dirs[dir].tables
          /\ UNCHANGED tables \/ alloc_frame(t, page % ENTRIES)
        BY <2>1 DEF get_page_there, get_page, HasTable
    <3>3. t \in Nat /\ HEAP_PAGE <= t
        BY <1>1, <3>1, <3>2 DEF LateMem, DirOK, Clones
    <3> HIDE DEF t
    <3> QED
        BY <1>1, <3>2, <3>3, LateSame, LateFrame
  <2>2. CASE clone_page
    <3>1. Current.table \in Nat /\ HEAP_PAGE <= Current.table
        BY <1>1, <1>3, <2>2 DEF LateStep, clone_page, Doing, Current
    <3>2. alloc_frame(Current.table, Current.i)
        BY <2>2 DEF clone_page
    <3> QED
        BY <1>1, <3>1, <3>2, LateFrame
  <2> QED
      BY <2>1, <2>2
<1> QED
    BY <1>1, <1>4, PhysKept DEF AllPhys

PhysInv == Exhausted \/ ~kheap \/ AllPhys

LEMMA PhysStep ==
    ASSUME PhysInv, KernelInv, KernelInv', (LateMem => PhysDir(kernel_directory))', FInv,
           BitmapInv, HeapInv, Whole, ContractKeepsLive', [KNext]_kvars
    PROVE  PhysInv'
<1>1. CASE Exhausted
  <2>1. CASE UNCHANGED kvars
      BY <1>1, <2>1 DEF PhysInv, Exhausted, Cleared, kvars, pvars
  <2>2. CASE KNext
    <3>1. frames \subseteq frames'
        BY <2>2, EveryStep DEF FrameStep
    <3> QED
        BY <1>1, <3>1 DEF Exhausted, PhysInv, Cleared
  <2> QED
      BY <2>1, <2>2
<1>2. ASSUME UNCHANGED <<tables, dirs, kernel_directory>>, AllPhys PROVE AllPhys'
  <2>1. SameMap
      BY <1>2 DEF SameMap, Mapped, HasTable, Translate, table_idx
  <2> QED
      BY <1>2, <2>1, PhysKept DEF AllPhys
<1>3. CASE ~Exhausted /\ kheap
  <2>1. Late /\ AllPhys
      BY <1>3 DEF KernelInv, Early, Boot, BootState, PhysInv
  <2>2. CASE kmalloc_return
      BY <2>1, <2>2, PhysReturn DEF PhysInv
  <2>3. CASE get_page_there \/ clone_page
      BY <2>1, <2>3, PhysPages DEF PhysInv
  <2>4. ~kmalloc_placement
      BY <1>3 DEF kmalloc_placement
  <2>5. CASE kmalloc \/ get_page_make \/ identity_map \/ heap_map \/ create_heap \/ move_stack
      BY <1>2, <2>1, <2>5
         DEF PhysInv, kmalloc, get_page_make, identity_map, heap_map, create_heap, move_stack,
             pvars, BootVars
  <2>6. CASE __exec \/ schedule \/ kill_directory \/ kill_process \/ command_page
      BY <1>2, <2>1, <2>6
         DEF PhysInv, __exec, schedule, kill_directory, kill_process, command_page,
             pvars, BootVars
  <2>7. CASE UNCHANGED kvars
      BY <1>2, <2>1, <2>7 DEF PhysInv, kvars, pvars
  <2> QED
      BY <2>2, <2>3, <2>4, <2>5, <2>6, <2>7 DEF KNext
<1>4. CASE ~Exhausted /\ ~kheap
  <2>1. CASE kheap' = kheap
      BY <1>4, <2>1 DEF PhysInv
  <2>2. CASE create_heap
    <3>1. UNCHANGED <<frames, dirs, kernel_directory>> /\ kheap'
        BY <2>2 DEF create_heap
    <3>2. ~Exhausted'
        BY <1>4, <3>1 DEF Exhausted, Cleared
    <3>3. LateMem'
        BY <3>1, <3>2 DEF KernelInv, Early, Boot, BootState, Late
    <3>4. PhysDir(kernel_directory)'
        BY <3>3
    <3>5. DOMAIN dirs' \subseteq {kernel_directory}
      <4>1. DOMAIN <<>> = {}
          OBVIOUS
      <4>2. Early \/ Boot
          BY <1>4 DEF KernelInv, Late, LateMem
      <4> QED
          BY <3>1, <4>1, <4>2 DEF Early, Boot, BootState
    <3>6. AllPhys'
        BY <3>1, <3>4, <3>5 DEF AllPhys
    <3> QED
        BY <3>6 DEF PhysInv
  <2>3. CASE KNext /\ ~create_heap
    <3>1. kheap' = kheap
        BY <2>3
           DEF KNext, kmalloc_placement, kmalloc, kmalloc_return, get_page_make, get_page_there,
               clone_page, identity_map, heap_map, move_stack, __exec, schedule,
               kill_directory, kill_process, command_page, BootVars
    <3> QED
        BY <2>1, <3>1
  <2>4. CASE UNCHANGED kvars
      BY <2>1, <2>4 DEF kvars
  <2> QED
      BY <2>2, <2>3, <2>4
<1> QED
    BY <1>1, <1>3, <1>4

\* For every end of the ramdisk, heap size and memory size: what CR3 and the page
\* directory entries hold are the frames in which the directory's entries and the
\* tables lie, a directory's second page in the frame after that of its first, as
\* long as the heap is tiled, as the run with these requests shows it to be, and a
\* frame that the bitmap says is free is left.
THEOREM PhysicalAddressesUntilFull ==
    KSpec /\ []Tiling => [](~Exhausted => PhysicalAddresses)
<1>1. HeapInv /\ Tiling => ContractKeepsLive
    BY TiledInside DEF HeapInv
<1>2. KInit => PhysInv
    BY DEF KInit, PhysInv
<1>3. /\ PhysInv /\ KernelInv /\ KernelInv' /\ (LateMem => PhysDir(kernel_directory))'
      /\ FInv /\ BitmapInv /\ HeapInv /\ Whole /\ ContractKeepsLive' /\ [KNext]_kvars
      => PhysInv'
    BY PhysStep
<1>4. PhysInv => (~Exhausted => PhysicalAddresses)
    BY DEF PhysInv, AllPhys, PhysDir, Lies, PhysicalAddresses
<1>5. LateMem => PhysDir(kernel_directory)
    BY KernelPhys
<1> QED
    BY <1>1, <1>2, <1>3, <1>4, <1>5, SpecKernelInv, SpecFInv, SpecBitmapInv, SpecHeapInv, SpecWhole,
       PTL DEF KSpec

=============================================================================
