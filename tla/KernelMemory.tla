---------------------------- MODULE KernelMemory ----------------------------
(***************************************************************************)
(* The memory of the running kernel with its real constants: kernel_main   *)
(* from the end of the ramdisk on (placement allocator, initialise_paging, *)
(* create_heap, initialise_initrd, move_stack and the three processes),    *)
(* then task switches, the two processes that kill themselves, and the     *)
(* shell's page command whenever interrupts are on.                        *)
(*                                                                         *)
(* Heap addresses count from KHEAP_START.  The boot code runs with         *)
(* interrupts off: it is a list of steps, and a step that calls others     *)
(* puts them in front of the rest.                                         *)
(***************************************************************************)
EXTENDS Heap, Paging

CONSTANTS InitrdEnds, \* where the ramdisk may end in memory
          NFILES,     \* files in it
          MaxPages    \* bound on the number of page commands

\* Whole bytes of the bitmap for whole words of it, of memory that a 32-bit
\* address reaches: 16 MB are 4096 frames.  The heap, which may grow to
\* 0xCFFFF000, ends below the stack's pages.
ASSUME KernelMemoryAssumption ==
    /\ InitrdEnds \subseteq Nat /\ NFILES \in Nat
    /\ NFRAMES % 128 = 0 /\ NFRAMES <= 1048576
    /\ PAGE = FRAME_SIZE /\ MAX_END <= 127 * ENTRIES * FRAME_SIZE

VARIABLES script,        \* steps still to be taken by the code that runs
          free_mem_addr, \* the placement allocator
          kheap,         \* create_heap has run
          bitmap,        \* where kmalloc put the frame bitmap
          kernel_directory,
          cp,            \* the running process, 0 before the first
          ptr,           \* what each heap request returned
          window,        \* the running process is inside _kill: "no", between
                         \* its two kfree "cli", after its sti "sti"
          npages         \* page commands so far

kvars == <<vars, pvars, script, free_mem_addr, kheap, bitmap, kernel_directory,
           cp, ptr, window, npages>>

PROCESS_SIZE == 36
DIRECTORY_SIZE == 8196
TABLE_SIZE == 4096
NODE_SIZE == 184
HEAP_T_SIZE == 32
DISPLAY_SIZE == 32

HEAP_PAGE == 768 * ENTRIES                       \* page of KHEAP_START
HEAP_PAGES == (START + INITIAL) \div FRAME_SIZE  \* KHEAP_INITIAL_SIZE
STACK_PAGES == <<896 * ENTRIES, 896 * ENTRIES - 1, 896 * ENTRIES - 2>>

\* Steps.  A request: what it is for, its size, page aligned or not, and whether
\* the caller fills the block at once; dir, slot and src only for a new table.
Request(what, pid, size, align, fill) ==
    [op |-> "kmalloc", what |-> what, pid |-> pid, size |-> size,
     align |-> align, fill |-> fill, dir |-> 0, slot |-> 0, src |-> 0]
MakeTable(dir, slot, src) ==
    [op |-> "kmalloc", what |-> "table", pid |-> 0, size |-> TABLE_SIZE,
     align |-> TRUE, fill |-> TRUE, dir |-> dir, slot |-> slot, src |-> src]
\* get_page(page, 1, dir), passed to alloc_frame or not.
GetPage(dir, page, alloc_it) ==
    [op |-> "get_page", dir |-> dir, page |-> page, alloc |-> alloc_it]
AllocFrame(table, i) == [op |-> "alloc_frame", table |-> table, i |-> i]
IdentityLoop(page) == [op |-> "identity", page |-> page]
HeapLoop(page, alloc_it) == [op |-> "heap", page |-> page, alloc |-> alloc_it]
Step(name) == [op |-> name]

CloneDirectory(pid) == Request("directory", pid, DIRECTORY_SIZE, TRUE, TRUE)

\* A bit for a frame, but only a byte for each 32 of them.
BitmapBytes_Quarter == INDEX_FROM_BIT(NFRAMES) \div 4   \* fault: even less
BitmapBytes == INDEX_FROM_BIT(NFRAMES)

initialise_paging ==
    << Request("frames", 0, BitmapBytes, FALSE, TRUE),
       Request("kernel_directory", 0, DIRECTORY_SIZE, TRUE, TRUE),
       HeapLoop(0, FALSE),
       IdentityLoop(0),
       HeapLoop(0, TRUE),
       Request("heap_t", 0, HEAP_T_SIZE, FALSE, TRUE),
       Step("create_heap"),
       CloneDirectory(0) >>

initialise_initrd ==
    << Request("node", 0, NODE_SIZE, FALSE, FALSE),
       Request("node", 0, NODE_SIZE, FALSE, FALSE),
       Request("node", 0, NODE_SIZE * NFILES, FALSE, FALSE) >>

createProcess(pid) ==
    << Request("process", pid, PROCESS_SIZE, FALSE, TRUE), CloneDirectory(pid),
       Request("stack", pid, 4096, FALSE, FALSE) >>

kernel_main ==
    <<Request("display", 0, DISPLAY_SIZE, FALSE, FALSE)>>
        \o initialise_paging \o initialise_initrd \o <<Step("move_stack")>>
        \o createProcess(1) \o createProcess(2) \o createProcess(3)
        \o <<Step("exec")>>

\* The heap's variables hold what create_heap will find; kheap says it has run.
KInit ==
    /\ Init
    /\ frames = {} /\ tables = <<>> /\ dirs = <<>> /\ cr3 = 0
    /\ script = kernel_main
    /\ free_mem_addr \in InitrdEnds
    /\ kheap = FALSE
    /\ bitmap = 0 /\ kernel_directory = 0
    /\ cp = 0 /\ ptr = {} /\ window = "no" /\ npages = 0

Running == script = <<>>
Doing(op) == script # <<>> /\ Head(script).op = op
Current == Head(script)

ProcessVars == <<cp, window, npages>>
BootVars == <<free_mem_addr, kheap, bitmap, kernel_directory>>

-----------------------------------------------------------------------------
(* kmalloc_int                                                             *)

AlignUp(a) == IF a % PAGE = 0 THEN a ELSE a - (a % PAGE) + PAGE

\* What the caller does with a new table or directory at page at, frame phys.
\* get_page makes an empty table; clone_table then takes a frame for each page
\* of its source, clone_directory calls clone_table for each table it may not
\* share.  The source is current_directory, at first the kernel's.
InOrder(is) == [k \in 1 .. Cardinality(is) |->
                   CHOOSE i \in is : Cardinality({j \in is : j < i}) = k - 1]

Placed(at, phys) ==
    CASE Current.what = "table" ->
           /\ NewTable(Current.dir, Current.slot, at, phys)
           /\ script' = (IF Current.src = 0 THEN <<>>
                         ELSE LET is == InOrder(FramesToCopy(Current.src))
                              IN  [k \in DOMAIN is |-> AllocFrame(at, is[k])])
                        \o Tail(script)
           /\ UNCHANGED <<cr3, kernel_directory>>
      [] Current.what = "directory" ->
           /\ NewDirectory(at, phys, kernel_directory, cr3)
           /\ LET is == InOrder(Cloned(kernel_directory, cr3))
              IN  script' = [k \in DOMAIN is |->
                                MakeTable(at, is[k], dirs[cr3].tables[is[k]])]
                            \o Tail(script)
           /\ IF Current.pid = 0 THEN switch_page_directory(at) ELSE UNCHANGED cr3
           /\ UNCHANGED <<tables, kernel_directory>>
      [] Current.what = "kernel_directory" ->
           /\ dirs' = Put(<<>>, at, [physicalAddr |-> Physical(phys), tables |-> <<>>,
                                     tablesPhysical |-> <<>>])
           /\ kernel_directory' = at
           /\ script' = Tail(script)
           /\ UNCHANGED <<tables, cr3>>
      [] OTHER ->
           /\ script' = Tail(script)
           /\ UNCHANGED <<tables, dirs, cr3, kernel_directory>>

\* Before the heap exists.
kmalloc_placement ==
    /\ Doing("kmalloc") /\ ~kheap
    /\ LET ret == IF Current.align THEN AlignUp(free_mem_addr) ELSE free_mem_addr
       IN  /\ free_mem_addr' = ret + Current.size
           /\ bitmap' = IF Current.what = "frames" THEN ret ELSE bitmap
           /\ Placed(ret \div PAGE, ret \div PAGE)
    /\ UNCHANGED <<vars, frames, kheap, ptr, ProcessVars>>

kmalloc ==
    /\ Doing("kmalloc") /\ kheap
    /\ alloc(Current.size, Current.align)
    /\ UNCHANGED <<pvars, script, BootVars, ptr, ProcessVars>>

\* The physical address of the block is looked up in the kernel's tables.
kmalloc_return ==
    /\ alloc_take(Current.fill)
    /\ LET a == Taken(Now, HoleFor(req), req.size, req.align).ptr
           page == HEAP_PAGE + a \div PAGE
       IN  /\ ptr' = ptr \cup {[what |-> Current.what, pid |-> Current.pid, addr |-> a]}
           /\ Placed(page, Translate(kernel_directory, page))
    /\ UNCHANGED <<frames, free_mem_addr, kheap, bitmap, ProcessVars>>

-----------------------------------------------------------------------------
(* initialise_paging and move_stack                                        *)

get_page_make ==
    /\ Doing("get_page")
    /\ ~HasTable(Current.dir, Current.page)
    /\ script' = <<MakeTable(Current.dir, table_idx(Current.page), 0)>> \o script
    /\ UNCHANGED <<vars, pvars, BootVars, ptr, ProcessVars>>

get_page_there ==
    /\ Doing("get_page")
    /\ HasTable(Current.dir, Current.page)
    /\ LET page == get_page(Current.dir, Current.page)
       IN  IF Current.alloc THEN alloc_frame(page[1], page[2])
                         ELSE UNCHANGED <<frames, tables>>
    /\ script' = Tail(script)
    /\ UNCHANGED <<vars, dirs, cr3, BootVars, ptr, ProcessVars>>

\* A page of a table being cloned.
clone_page ==
    /\ Doing("alloc_frame")
    /\ alloc_frame(Current.table, Current.i)
    /\ script' = Tail(script)
    /\ UNCHANGED <<vars, dirs, cr3, BootVars, ptr, ProcessVars>>

\* The bound moves while the loop makes tables.
IdentityBound_Exact == free_mem_addr                   \* fault: nothing extra
IdentityBound == free_mem_addr + FRAME_SIZE
identity_map ==
    /\ Doing("identity")
    /\ script' = IF Current.page * FRAME_SIZE < IdentityBound
                 THEN <<GetPage(kernel_directory, Current.page, TRUE),
                        IdentityLoop(Current.page + 1)>> \o Tail(script)
                 ELSE Tail(script)
    /\ UNCHANGED <<vars, pvars, BootVars, ptr, ProcessVars>>

heap_map ==
    /\ Doing("heap")
    /\ script' = IF Current.page < HEAP_PAGES
                 THEN <<GetPage(kernel_directory, HEAP_PAGE + Current.page, Current.alloc),
                        HeapLoop(Current.page + 1, Current.alloc)>> \o Tail(script)
                 ELSE Tail(script)
    /\ UNCHANGED <<vars, pvars, BootVars, ptr, ProcessVars>>

\* Paging is switched on; the heap's first hole is written.
create_heap ==
    /\ Doing("create_heap")
    /\ switch_page_directory(kernel_directory)
    /\ kheap' = TRUE
    /\ script' = Tail(script)
    /\ UNCHANGED <<vars, frames, tables, dirs, free_mem_addr, bitmap,
                   kernel_directory, ptr, ProcessVars>>

move_stack ==
    /\ Doing("move_stack")
    /\ script' = [k \in DOMAIN STACK_PAGES |-> GetPage(cr3, STACK_PAGES[k], TRUE)]
                 \o Tail(script)
    /\ UNCHANGED <<vars, pvars, BootVars, ptr, ProcessVars>>

-----------------------------------------------------------------------------
(* Processes and the shell                                                 *)

\* The kernel is followed until its heap is resized, which NeverResizes excludes:
\* no request is served that needs expand, and contract is the last step.
Unresized == end = START + INITIAL

Owned(what, pid) == {r.addr : r \in {q \in ptr : q.what = what /\ q.pid = pid}}
Alive == {pid \in 1 .. 3 : Owned("process", pid) \cap DOMAIN live # {}}
DirectoryOf(pid) ==
    HEAP_PAGE + (CHOOSE a \in Owned("directory", pid) : TRUE) \div PAGE

__exec ==
    /\ Doing("exec")
    /\ cp' = 1
    /\ switch_page_directory(DirectoryOf(1))
    /\ script' = Tail(script)
    /\ UNCHANGED <<vars, frames, tables, dirs, BootVars, ptr, window, npages>>

\* schedule, from a tick or at the end of _kill; which process it takes is the
\* subject of module Tasking, here it may be any that is left.
schedule ==
    /\ Running /\ window # "cli" /\ Unresized
    /\ \E pid \in Alive \ {cp} :
          /\ cp' = pid
          /\ switch_page_directory(DirectoryOf(pid))
    /\ window' = "no"
    /\ UNCHANGED <<vars, frames, tables, dirs, script, BootVars, ptr, npages>>

\* _kill: kfree(cp->page_directory), then kfree(cp), then sti.
kill_directory ==
    /\ Running /\ window = "no" /\ cp \in {2, 3} /\ Unresized
    /\ \E a \in Owned("directory", cp) : free(a)
    /\ window' = "cli"
    /\ UNCHANGED <<pvars, script, BootVars, cp, ptr, npages>>

kill_process ==
    /\ window = "cli" /\ Unresized
    /\ \E a \in Owned("process", cp) : free(a)
    /\ window' = "sti"
    /\ UNCHANGED <<pvars, script, BootVars, cp, ptr, npages>>

\* The shell's page command: kmalloc_int(1000, 1, &phys_addr), never freed.
command_page ==
    /\ Running /\ window # "cli" /\ Idle /\ Unresized
    /\ npages < MaxPages
    /\ script' = <<Request("page", 0, 1000, TRUE, FALSE)>>
    /\ npages' = npages + 1
    /\ UNCHANGED <<vars, pvars, BootVars, cp, ptr, window>>

KNext ==
    \/ kmalloc_placement \/ kmalloc \/ kmalloc_return
    \/ get_page_make \/ get_page_there \/ clone_page
    \/ identity_map \/ heap_map \/ create_heap \/ move_stack
    \/ __exec \/ schedule
    \/ kill_directory \/ kill_process
    \/ command_page

KSpec == KInit /\ [][KNext]_kvars

-----------------------------------------------------------------------------
(* Properties                                                              *)

\* Every page aligned request got a page aligned block: page directories and
\* tables must start on a page, the CPU ignores the low bits of their address.
PageAligned ==
    \A r \in ptr : r.what \in {"directory", "table", "page"} => r.addr % PAGE = 0

\* All of these requests are served from a hole and no free gives memory back:
\* expand, which would not leave the heap on a page boundary, and contract,
\* which would free frames wrongly, are not needed.
NeverResizes ==
    /\ Unresized
    /\ req # NoReq => HoleFor(req) <= Len(index)

\* Once paging is on, all the memory the placement allocator gave out (heap_t
\* is placed after the loop that maps it) is mapped onto itself.
IdentityMapped ==
    kheap => \A page \in 0 .. (free_mem_addr - 1) \div PAGE :
                /\ Mapped(kernel_directory, page)
                /\ Translate(kernel_directory, page) = page

\* What CR3 and the page directory entries hold are the frames in which the
\* directory's entries and the tables lie.  A directory is larger than a page:
\* its second page must lie in the frame after that of its first.
PhysicalAddresses ==
    kheap => \A d \in DOMAIN dirs :
        /\ dirs[d].physicalAddr = Translate(kernel_directory, d + 1)
        /\ \A s \in DOMAIN dirs[d].tables :
              dirs[d].tablesPhysical[s]
                  = Translate(kernel_directory, dirs[d].tables[s])

\* Every directory a process can run on maps low memory and the heap as the
\* kernel's does, so a task switch changes neither.
KernelShared ==
    \A d \in DOMAIN dirs, s \in {0, table_idx(HEAP_PAGE)} :
        IF s \in DOMAIN dirs[d].tables
        THEN dirs[d].tables[s] = dirs[kernel_directory].tables[s]
        ELSE ~Running

\* The bitmap got a quarter of the bytes it needs: the words that are written
\* must end before the page directory that was placed behind it.
BitmapFits ==
    kernel_directory # 0 =>
        \A f \in frames :
            bitmap + 4 * INDEX_FROM_BIT(f) + 4 <= kernel_directory * PAGE

\* _kill frees the directory the CPU keeps using until schedule: until then
\* nothing the allocator writes may lie on the entries of the page directory.
Cr3Intact ==
    (Running /\ cp # 0) =>
        \A s \in DOMAIN dirs[cr3].tables :
            LET entry == (cr3 - HEAP_PAGE + 1) * PAGE + 4 * s
            IN  /\ \A h \in DOMAIN hdr : ~Overlap(h, HDR, entry, 4)
                /\ \A f \in DOMAIN ftr : ~Overlap(f, FTR, entry, 4)

=============================================================================
