# HackOS: TLA+ models, checks and proofs

HackOS is a 32-bit x86 hobby kernel. It boots through multiboot, sets up the
screen, the interrupt tables, paging, a kernel heap and an initial ramdisk, and
then starts a round-robin scheduler with three processes. After that it lives in
interrupt handlers: the timer preempts, the keyboard feeds a shell, the mouse
moves a pointer. This directory models these parts, checks the models with TLC
and proves, with TLAPS and for every value of the constants, the main results about
the scheduler, the heap, the frames and page tables, the interrupt stubs, the
console, the mouse, and the ramdisk with the memory primitives it uses.

## 1. Inventory

| Part | Source (under `src/kernel/`) | State | Operations | Interacts with |
|---|---|---|---|---|
| Tasking | `cpu/tasking/task.c`, `cpu/timer.c`, `cpu/process.asm` | list of `PROCESS`, `cp`, `ready_queue`, `lpid`, `task`, `task_was_on`, `__enabled` | create, add, kill, signal, probe, schedule, tick | heap (`PROCESS` blocks), page directories, interrupts |
| Heap | `libc/memory.c`, `ordered_array.c` | headers and footers in memory, index of holes, `end_address` | alloc, free, expand, contract, placement | frames, page tables |
| memcpy, memset | `libc/memory.c` | loop variables | both functions | everything |
| Paging | `cpu/paging/paging.c` | frame bitmap, tables, directories, CR3 | alloc/free frame, get_page, clone, switch | heap, tasking |
| Interrupts | `cpu/interrupts.asm`, `cpu/isr.c`, `cpu/idt.c` | stack, IF, PIC registers, handler table | 48 stubs, dispatch, EOI, iret | timer, keyboard, mouse, page fault |
| Screen | `drivers/screen.c` | video memory, CRTC index and cursor registers | put_char, scroll, clear | everybody who prints |
| Keyboard, shell | `drivers/keyboard.c`, `shell/shell.c`, `kernel.c` | line buffer, modifier bits, shell mode | one scancode, one line | screen, heap |
| Mouse | `drivers/mouse.c` | packet buffer, pointer, inverted cell | one byte | screen |
| ATA | `drivers/ata/ata.c` | none | read and write sectors | the drive |
| Ramdisk, VFS | `filesystem/`, `src/tools/initrd_creator/` | image, node table | load, read, readdir, finddir | memcpy, heap |
| Strings, printf | `libc/string.c`, `libc/stdio.c` | none | - | screen, shell |
| RTC, GDT, ports, boot code, bindump | `drivers/rtc.c`, `cpu/`, `boot/`, `src/tools/bindump` | none after boot | - | - |

What is hard to test here: code that runs with IF set between two accesses to
`cp`, or between two port accesses that belong together; a `PROCESS` and a page
directory that are used after they were freed; the preemption flag as a lock
shared by everybody; interrupt handlers that never return; exception frames of
two different shapes; a boundary-tag allocator whose own metadata can be stale;
page tables allocated by the loops that fill them; lost and unexpected bytes of
a device; rounding, masks and narrow integers. `PROJECT.json` lists each hazard
at its line with the properties that would catch it.

## 2. Modules

| Module | Models | Used by |
|---|---|---|
| `Tasking` | the process list, `schedule`, the API of `task.h`, the boot processes | `MCTasking`, `TaskingProofs` |
| `OrderedArray` | `ordered_array.c` as operators on sequences | `Heap`, `OrderedArrayProofs` |
| `Heap` | the allocator, one action per call or per half of a retried call | `MCHeap`, `KernelMemory` |
| `Allocator` | what callers of kmalloc and kfree rely on (abstract) | refined by `MCHeap` |
| `Paging` | frame bitmap, tables, directories, cloning | `MCPaging`, `KernelMemory` |
| `KernelMemory` | `Heap` and `Paging` composed under `kernel_main` and the running kernel, real constants | `KernelMemoryProofs` |
| `Interrupts` | stubs, dispatch, PIC pair, nesting | `MCInterrupts`, `InterruptsProofs` |
| `Console` | screen, keyboard, shell and the processes that print | `MCConsole`, `ConsoleProofs` |
| `LineInput` | what a line editor promises (abstract) | refined by `Console` |
| `Mouse` | packet assembly, pointer, the colours it swaps and the screen driver moves | `MCMouse`, `MouseProofs` |
| `Ata` | the polling driver against a drive | - |
| `Memops` | the loops of memcpy and memset | `Ramdisk` |
| `Ramdisk` | image, nodes and traversal, over `Memops` | `RamdiskProofs` |
| `MCX` | the module `X` with the clients, users or values of its run | the runs, `HeapProofs` |
| `XProofs` | theorems and proofs about `X` | - |

Operators named `X_Something` next to an operator `X`, marked *fault*, describe
a plausible bug in `X`; each shows that a property is able to fail. They are not
part of any specification.

### Tasking

A `PROCESS` is its id. `next`, `state` and `mem` are functions on ids; `mem` says
whether the heap block is allocated, freed (bytes still readable) or handed out
again. `schedule()` never saves the context it leaves: it jumps to the entry
stored by `createProcess`. So a process restarts each time it is chosen and one
program counter `pc` describes the CPU. A step is what no interrupt can divide:
code between `cli` and `sti`, and a whole interrupt handler. Code with IF set is
cut at each access to shared variables, in particular the `schedule()` that
`_kill` calls after `sti` (`schedule_next`, `schedule_wrap`, `schedule_load`).
Walks over the list are `ChainFrom`, the least set closed under `next`, defined
without recursion so that proofs can use it. A walk that leaves the list, or a
dereference of NULL or of a reused block, ends in `pc = "wild"`. Nothing is promised
of that state: that `schedule` reads a block which a keyboard command got in between
is a defect the model has and no property rules out.

Processes beyond the three of `initialise_tasking` are *clients*: their body may
make any call of `task.h`. The keyboard handler matters here only as a caller of
the allocator, which can hand out the block of the process just freed.

### Heap

Memory holds headers and footers at addresses; a write over some of their bytes
destroys them (`Wipe`), a payload that the caller does not fill keeps them
(`Fills`). Sizes are unsigned modulo `Word` (2^32 in the code; 2^30 in the run
with real sizes, the largest power of two TLC's integers hold with room for
sums). `ASSERT` only prints, so it is no guard. `expand`, `contract` and the
right merge are translated as written, with the effect their operator
precedence and masks really have. Because of that the allocator is only right
for callers that avoid some cases. These are stated as a *discipline*:

* `CutSafe`, `ExpandSafe`: a request never uses up the last hole, an aligned
  request leaves room for a header and footer on either side, and when the heap
  has to grow it ends in a hole and the new size is a whole number of pages;
* `FreeSafe`: a hole that free merges with the last one starts below the minimum
  heap size, because `contract` is wrong; and the footer before a freed block names
  a hole or a block, because a left merge follows it.

The second half of `FreeSafe` is about `memory.c:456`. The comment there says that a
right merge rewrites the footer of the hole it absorbs, but the code only assigns a
local variable, so the merged hole ends in a footer that points to the absorbed
header. The discipline allows such merges, with a hole in the middle of the heap as
with the last one, and the stale footers stay in memory through everything that
follows; `FootersInside` says that they never point out of their own hole. What is not
allowed is to free the block right behind such a hole, as the left merge would then
enlarge a header that is no longer one.

`heap` shows that the discipline suffices, `heap_contract` what goes wrong
without it, and `kernel_memory` that the kernel's own calls are served correctly
although some of them are outside the discipline.

### Paging and KernelMemory

`Paging` names a table or directory by its first virtual page, keeps of a page
only present and frame, and has one operator for each function of `paging.c`.
`first_frame` returns a set: beyond the bytes that were cleared the code reads
what memory held, and with no bit clear it returns no value.

`KernelMemory` extends both `Heap` and `Paging` with the sizes and addresses of
the kernel: it starts where the ramdisk ends and follows `kernel_main` through
the placement allocator, `initialise_paging`, `create_heap`, the ramdisk's nodes,
`move_stack` and three `createProcess`. This code runs with interrupts off and is
a list of steps (`script`); a step that calls others puts them in front of the
rest, so a new page table is allocated inside the loop that needs it, from the
placement allocator or from the heap, exactly when the code does. Then the
processes run: `schedule`, the two processes that kill themselves, and the
shell's page command at any moment with interrupts on. `_kill` is cut where
interrupts are on again (`window`): from there to `schedule` the CPU walks a page
directory that is already free. A page command in that window does get memory
of that directory; `Cr3Intact` says that no header or footer of the allocator is
written over a directory entry in use. The kernel is followed until its heap
would be resized (`Unresized` guards what processes do), which `NeverResizes` shows
not to happen within the run's bounds. The requests are those of booting, of
`createProcess` and of the page command. The calculator's `split` also calls `kmalloc`,
`kmalloc(0)` included, and writes behind the blocks it gets; these requests are left
out, and `Console` leaves their outcome open.

### Interrupts

The stack is a sequence of named words. The CPU's frame and error code, the
8259s' priority resolution, acknowledgement and end-of-interrupt are external,
modelled from how the code uses them. Handlers return, switch process for good
(the timer) or halt (`page_fault`). Exceptions may occur at any instruction
boundary the model has, also inside a stub.

### Console

`put_char` is one operator for a handler, which runs with IF clear, and nine
steps for a process, one per access to the CRTC's index and data ports, with the
drawing between. A tick abandons the process, which later starts from its
beginning. The keyboard handler is one action per kind of key, each with the
echo, the flush of a full line, the call of `user_input` and the whole command of
the shell. Texts keep what moves the cursor. Scancodes outside of the tables
may do nothing or fault, after the flush of a full line as for any key. Modifiers may
repeat their make codes and be released without one; the right Ctrl and Alt arrive as a
byte outside of the tables followed by the code of the left one. `torn` records that a handler came inside a
`put_char` or a tick between the two halves of the cursor: the properties of the
screen are about runs without it, and `console_torn` shows why.

### Mouse and Ata

`Mouse` receives single bytes from a device that sends packets of three; bytes may
be lost, the acknowledgement of 0xF4 may come late and is then taken for a
byte of a packet. The pointer's `int8_t` arithmetic is kept. A cell is normal,
swapped by the pointer, or black (attribute 0, which a swap does not change). The screen
driver does to it what `screen.c` does: `put_char` makes a cell normal, `scroll_up` copies
the attributes of each row to the one above, the pointer's swapped cell with them, and
blackens the last row, `clear_screen` makes all cells normal. So text leaves wrongly
coloured cells, and `TrailBounded` counts how many it may: at most one for a character on
the pointer's cell, two for a scroll. Moving the pointer adds none. `Ata` has a step for
each port access and a drive that is busy, then asks for data or fails. An `outl`
to the data register moves two words, so a write of a sector sends two sectors'
worth.

### Memops and Ramdisk

`Memops` takes one step per turn of the loop; the destination records which source
byte (or which byte of the widened fill value) was written where, and the eight
bytes behind the destination are watched. `Ramdisk` extends it: the creator's two
loops give the image, `initialise_initrd` relocates it, and `kernel_task`'s
traversal calls `readdir_fs`, `finddir_fs` and `read_fs`; each memset and memcpy is
a run of `Memops`. `strcpy` copies no NUL, so a node's name is what its heap block
makes of it: any name, the right one among them. `printf("%s")` has no bound: for a file
that fills the buffer it goes on with the bytes behind it, up to the first NUL, of which
there may be any number in `Behind`. `initrd_read` does not test whether `offset + size`
wraps; a client's read that does is not clipped, and one of more than `MaxN` bytes runs on
until a page without a frame stops it (`at = "fault"`).

## 3. Runs

| Run | Bounds | Shows |
|---|---|---|
| `tasking` | 5 ids, 4 at boot | types, `ListSound`, `IdleProtected`, `RunsListed`, `PreemptionRestored`, `LeavesByOwnKill`; under fairness `RoundRobin` |
| `tasking_window` | the 3 boot processes | violation: a tick finds `cp` = NULL |
| `heap` | pages of 16 bytes, 2 to 3 pages, sizes 3, 4 and 8; 3 filled unaligned blocks, 2 filled ones aligned or not, or 2 that are not filled | `NoFault`, `Tiling`, `Coalesced`, `LiveBacked`, `FootersInside`, refinement of `Allocator` |
| `heap_contract` | 4 blocks, no discipline | violation: blocks in use are cut off |
| `kernel_memory` | real sizes, two ends of the ramdisk, 3 files, 12 page commands | `Tiling`, `PageAligned`, `NeverResizes`, `IdentityMapped`, `FramesExclusive`, `PhysicalAddresses`, `KernelShared`, `BitmapFits`, `Cr3Intact` |
| `paging_free` | 4 low pages, 4 heap pages | violation: a page of the heap is put on low memory |
| `interrupts` | IRQ 0 and 12, twice each, all 32 exceptions, depth 2 | `ConsistentFrame`, `BalancedReturn`, `NothingInService`; under fairness `Served` |
| `console` | 4 rows of 3, lines of 3, three kinds of user | types, `ScreenKept`, `Echo`, `TailIsFlushed`, refinement of `LineInput` |
| `console_torn` | the same | violation: the cursor leaves the screen |
| `mouse` | real screen, 4 packets, a lost byte, 2 prints, scrolls or clears | `PointerOnScreen`, `FollowsDevice`, `TrailBounded` |
| `ata_drq` | sectors of 2 words, 2 calls | violation: data without DRQ |
| `ramdisk` | 2 files of 0, 3 or 35 bytes, buffers of 0 to 35 | `PrefixDone`, `Correct`, `ShowsImage`, `ReadsInside`; under fairness `TraversalEnds` |

Why the bounds suffice.

* Tasking: an append after a kill, two clients that kill each other, and a
  wrap-around all need at most two clients beside idle; the five ids give exactly
  that, and the theorems of section 5 extend every safety property to any number.
* Heap: a page of 16 bytes with a 3-byte header and a 2-byte footer keeps every
  ratio that the code tests (several blocks per page, front holes too small for
  a block, a block larger than a front hole), and three blocks give every pattern
  of neighbours a free can meet.
* KernelMemory: nothing is scaled. With one end of the ramdisk the frame bitmap
  ends exactly where the page directory starts, with the other it crosses a page;
  in both the table that the identity map allocates for itself ends on a page
  boundary, so that `heap_t` comes to lie on the page behind the loop's last
  allocation. Twelve page commands fall on either side
  of, and into, both kills. After about a hundred of them the heap would have to
  grow, which is where `NeverResizes` ends and the discipline of `Heap` begins; a
  ramdisk of more than about 1.8 MB would use frames beyond the 1024 that the
  bitmap has room for.
* Interrupts: one line of each PIC, every vector, and one exception inside
  another.
* Console: lines are longer than half the screen, so that wrapping, scrolling,
  erasing across a row and a full buffer happen within nine keys; a cursor
  register of two bits makes the cursor's halves matter.
* Mouse: the packets hold the movements at which a signed byte wraps; two prints are
  a scroll followed by text on the cell where the scroll left a copy of the pointer, on the
  pointer's own, or by another scroll.
* Ramdisk: lengths to 35 cover every residue modulo 8 with several turns at
  width 8; offsets and sizes lie at, before and behind the end, and the largest size
  wraps. Buffers are shorter than, as long as and longer than the files.

Deadlock is checked only in `paging_free`. The others may stop: idle's empty loop
with preemption off and the `wild` states (`tasking`), clients that are not
obliged to ask for more (`heap`), the halted page fault handler (`interrupts`), the
power switched off (`console`), a user who stops (`console`, `mouse`,
`kernel_memory`), calls that have returned (`ramdisk`, `ata_drq`).

### Fairness

* `Tasking!FairSpec`: weak fairness of the CPU's own steps, because the CPU
  keeps executing; strong fairness of the tick, because the timer runs at 1 kHz
  and the 8259 holds a tick that arrives while IF is clear, so a process that
  returns to a preemptible state again and again is preempted.
* `Interrupts!FairSpec`: weak fairness of stubs and handlers; strong fairness of
  accepting a presented line (it stays requested and is taken at the first
  instruction with IF set); strong fairness of `sti`, since every `cli` of the
  kernel is followed by the `sti` of `_kill` or `jump_to_ecx` with no wait
  between them.
* `Ramdisk!RSpec`: weak fairness of the traversal, which runs with IF clear.

## 4. Findings

* `tasking_window` (`task.c:249`): `_kill` calls `schedule()` with interrupts on
  and preemption enabled. If the dying process is the last one, `cp` is NULL
  until the next statement, and a tick in between dereferences it. It needs
  nothing but the boot processes.
* `heap_contract` (`memory.c:272`): the mask keeps bit 12 alone, so blocks in use
  are cut off.
* `paging_free` (`paging.c:96`): `free_frame` clears the bit of the frame *number*
  divided by the page size, so freeing any page marks frame 0 free.
* `console_torn` (`screen.c:131`): the cursor is read and written in separate port
  accesses that an interrupt may divide; it can end up outside of the screen.
* `ata_drq` (`ata.c:80`): the wait for DRQ tests RDY.

More disagreements showed up while translating and have no run of their own:

* the footer of an absorbed right hole is not rewritten (`memory.c:456`, against the
  comment on that line);
* a read of a file whose offset and size add up to more than 2^32 is not clipped
  (`initrd.c:22`); the kernel makes none;
* a file of 256 bytes or more is printed with what lies behind the buffer
  (`kernel.c:73`);
* a scroll moves the pointer's swapped colours up a row, so that the next movement
  leaves two wrongly coloured cells (`screen.c:141`, `mouse.c:35`);
* `expand` rounds only odd sizes to a page (`memory.c:242`, against the comment at
  `:251`);
* `memset` widens the value instead of repeating it (`memory.c:62`); the kernel
  only passes 0;
* holes change size while they are in the index (`memory.c:446`), so it is not
  always sorted as `ordered_array.h:8` says;
* `ASSERT` only prints (`memory.c:249`), so growth past `max_address` is reported
  and then done;
* the frame bitmap gets a quarter of the bytes it needs (`paging.c:112`);
* the ATA write sends two sectors' worth of words and never advances `bytes`.

## 5. Proofs

`TaskingProofs` proves six theorems for every number of processes, every number of
boot processes and every assignment of bodies in which exactly the first process
is idle (`BoundAssumption`, `ProgramAssumption`).

The argument. *Walks*: `ChainFrom(p, next)` is closed under `next` and contained in
every closed set that holds `p` (`ChainFacts`, `ChainLeast`); links outside of it do
not matter (`ChainAgree`). *List operations*: appending to the tail adds exactly
the new process (`LinkList`), the loop of `_kill` removes exactly `cp`
(`UnlinkList`); each is shown by two inclusions, exhibiting a closed set for
either side. *Invariant*: `ListSound` is not inductive. `IInv` adds that listed ids
are at most `lpid` (so that a created process is younger than the list and not on
it), that the process between creation and append is unlisted with no
successor, and where `cp` points in each stage of `schedule`: after `_kill`, the
freed `cp`'s successor is NULL or listed. *Idle*: `kill()` does not return after
refusing idle; it is harmless because ids grow along the list, so a walk that
starts at a process other than idle stays among younger ones (`WalkMissesIdle`).
One lemma per action shows that it keeps `IInv` and takes a process off the list
only in its own `_kill`; `StepGood` collects them, and the theorems
`TypeCorrect`, `ListCorrect`, `IdleCorrect`, `RunsCorrect`, `LeavesCorrect` and
`PreemptionCorrect` follow.

`HeapProofs`, with lemmas of `OrderedArrayProofs`, proves the five invariants of
`heap` and the refinement of `Allocator`, for every size of heap, page, header
and footer, every set of clients, and every sequence of calls within the
discipline (the hypothesis `Disciplined`; `heap_contract` is what happens without).
`HeapAssumption` asks that sizes be what `create_heap` is given: the start and the
initial and minimum sizes are whole pages, and no address below twice
`MAX_END` wraps. `IInv` says that holes and blocks in use are
disjoint, that together they tile the heap, each header with the size that leads
to the next tile, each block in use with a footer that points back and each hole but the
last with one that points into the hole (`Sound`, over the *regions* between two addresses), that no two holes touch and no
block in use ends the heap, that `end` is a whole number of backed pages, and that
a request in progress is still safe, because `alloc` runs again after `expand`.
The region lemmas split and join tilings; each case of `alloc`
(cut at the front, at the back, aligned, taken whole) and of `free` (merged to the
left, to the right, both, contracted) is an instance of them. The index is only
used as a set without repetitions, since holes change size while they are in it:
`OrderedArrayProofs` shows for an array in any order that insert adds and remove
takes away exactly one element.

`KernelMemoryProofs` proves, for every end of the ramdisk, every number of files,
page commands and frames, that no frame backs two pages and that the words of the
bitmap that are written end before the page directory behind it, as long as a bit that
`initialise_paging` cleared is still clear (`FramesExclusiveUntilFull`,
`BitmapFitsUntilFull`). The condition is the code's: with no clear bit
`first_frame` reads on behind the bitmap or returns no value, and both properties
are then false. The invariant of the first, `FInv`, adds that set bits are cleared
bits and that every present page's frame has its bit set; that makes `alloc_frame`'s
choice new (`LowestClear`, by the least number principle), and `clone_table`'s loop
is shown to give different frames to the pages of one table. It says nothing of
where the tables lie, so it holds also where the heap is used
outside the discipline and a table overwrites another. The second follows the
placement allocator: `BitmapInv` says what is at the head of the script until the
page directory is placed, behind the bitmap. It needs
a number of frames divisible by 128 (the code has 4096), so that the bytes that were
cleared are whole words.

The same module proves four more properties of the composed system.
`PageAlignedAlways` has no condition. `HeapInv` is a typing of the heap's data that
holds without discipline or tiling: every header has a size, no footer or index
entry points below the heap's start, whatever was overwritten; a page-aligned block is then
on a page because of how `alloc` computes its place, not because of what the hole was.

`IdentityMappedUntilFull` and `KernelSharedUntilFull` hold as long as a cleared bit
is left, from `KernelInv`, which follows `kernel_main` phase by phase. *Early*: up to
the page directory. *Boot*: five parts, one per loop or step of `initialise_paging`
(`InSlots`, `InIdentity`, `InHeap`, `InHeapT`, `InCreate`); each says what the script
still holds, that the set bits are exactly the first `p + k`, that the first
`p` pages lie in the frames of their own number, and the first `k` heap pages in the
`k` frames behind those (`Filled`). The loop's bound moves while the loop makes
tables, so the part after it carries `free_mem_addr + PAGE <= p * PAGE`: that is the
page which `heap_t` needs. *Late*: every directory but the kernel's, and every table but
the kernel's, lies in the heap, so nothing placed there can touch the
kernel's tables; a clone shares exactly the kernel's slots; and what is left of the
script makes tables only in clones and only in other slots (`Ends`).
`PhysicalAddressesUntilFull` has as a further hypothesis that the heap is tiled, which
the `kernel_memory` run checks for the kernel's requests. In a tiled heap no block ends
behind the heap's end (`TiledInside`; a tile that did would have a follower, and a
finite set of tiles has a last one), so that a directory's second page is a heap page
too and, by *Late*, in the frame after that of the first.

These theorems assume of the constants what the code has: the heap's page is the
frame's size, there are at most 2^20 frames (32-bit addresses), and the heap ends below
the slots of the stack (`KernelMemoryAssumption`; `create_heap` is given 0xCFFFF000 as
the maximum). Sizes, the ramdisk's end, the number of files and of page commands are
arbitrary.

`InterruptsProofs` proves `ConsistentFrame`, `BalancedReturn` and
`NothingInService` for every set of lines and exceptions, every table of handlers and
every depth of nesting. It assumes that only handlers of `irq_handler` switch process,
since the only handler that calls `schedule` is the timer's. `IInv` describes the
stack as one frame per interrupt in progress, each beginning where the one below
ends, of 15 named words, or 3 or 4 before its stub has run; every interrupt but the
outermost is an exception taken with IF clear; and only the outermost may have a
line in service, its own (with the cascade's), until its EOI.

`MouseProofs` proves `PointerOnScreen`, `FollowsDevice` and `TrailBounded` for every screen
whose coordinates, plus a movement of up to `SLOW`, fit the signed byte, and every set
of packets. `IInv` says that a moved pointer is on the screen, that while no byte was
lost or late the driver's `offset` and buffer agree with what the device has sent
and the rest of the packet leads where the device wants, and that the wrong cells
are at most `marks`. A movement swaps the old and the new cell and thereby keeps
the set of wrong cells as it is; a scroll maps them one to one and adds at most two.

`ConsoleProofs` proves the types, `ScreenKept`, `Echo`, `TailIsFlushed`
and the refinement of `LineInput` for every size of screen and
buffer, every alphabet, every text that processes print and every output of the commands. It
assumes what the tables and sizes of the code give: `sc_ascii` has no NUL and
no control character among its letters, the cursor registers can hold every cell,
a full line leaves a row of the screen free, and the word `print` is shorter than
the buffer. `IInv` is about the line (it is a string of letters that ends in the
buffer, with zeros or the flushed line behind it); `SInv` is about the screen: as long as no `put_char`
was torn, a process that prints holds in its local variable exactly the part of
the cursor it has read or has yet to write, and otherwise the
cursor is on the screen with the line's echo before it. What `printf` leaves is found by
unfolding its recursive function one character at a time, with the least number
principle in the place of an induction.

`RamdiskProofs` proves `MemopsCorrect` and `PrefixCorrect` about memcpy and memset on
their own: the types, the loop invariant (`i + sz = n`, everything below `i` final,
nothing at or beyond it touched) and the result, for every length. The key fact is
that the width chosen divides what remains, so a wide store never runs over the
end. It then proves the same of each call in the ramdisk (`CallsCorrect`),
`ReadsInside` and `ShowsImage`, for every number of files, their lengths and names,
every size of buffer, whatever lies behind the buffer, and every offset and size a client
asks for, the ones whose sum wraps included (of which `ReadsInside` promises nothing). It assumes
that the image fits below 2^32 and that no name stands for a null pointer.
`RInv` adds to the loop invariant what `initialise_initrd` made of the image, where the
traversal is and which node it has found, what the call in progress was given, and that
what was shown is the beginning of what is expected. The lemmas on the creator's two
loops show that header offsets and data agree for every file, although one loop
adds up lengths and the other appends contents.

tlapm 1.4.5 hands its SMT solver an axiom that equates `DOMAIN s = 1 .. n` with
`Len(s) = n` for negative `n` too, which is inconsistent. No proof rests on this: all
of them were also checked with the axiom weakened to the sound direction.

Checked by TLC only:

* liveness (`RoundRobin`, `Served`, `TraversalEnds`), which needs fairness and is out of
  the prover's reach;
* `NeverResizes` and `Cr3Intact` of `KernelMemory`, and `Tiling` there: they hold
  because of the kernel's own sequence of requests with the code's sizes, some of them
  outside the heap's discipline, and are false for other constants (more page commands
  make the heap grow);
* the five runs that expect a violation.

## 6. Not modelled, and the plan

Not modelled: the boot code, the GDT and port instructions, which run once or are
single instructions; the real-time clock, whose registers are only read and
printed; number formatting and padding of printf, which only choose characters;
`bindump` and `init_rd_reader`, host tools that print a file. Of the modelled parts:
`move_stack`'s scan for pointers among raw words of the stack; the page table
`expand` would have to allocate from the heap it expands when the heap passes
4 MB; the contents of copied pages; colours other than the pointer's; the damage
`split` does to the heap when a line with a space is given to the calculator, whose
outcome `Console` leaves open; `write_fs`, `open_fs` and `close_fs`, whose function
pointers are null in every node of this file system; `test_frame` and the
constructors of the ordered array that the kernel does not call.

Next, proofs: `Tiling` of `KernelMemory` from its own sequence of requests, which would
discharge the hypothesis of `PhysicalAddressesUntilFull` and, with the sizes of the
blocks, lead to `NeverResizes` and `Cr3Intact`; weaker forms of `LowMemoryKept` for the
frames that are never freed.
