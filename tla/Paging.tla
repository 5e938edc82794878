------------------------------- MODULE Paging -------------------------------
(***************************************************************************)
(* Frames, page tables and page directories: kernel/cpu/paging/paging.c.   *)
(*                                                                         *)
(* Tables and directories are page aligned, so they are named by the       *)
(* number of their (first) virtual page; frames are numbers as well.  Of a *)
(* page_t only present and frame are kept: a table maps the index of each  *)
(* present page to its frame.  rw and user decide nothing here, CR0.WP is  *)
(* clear and everything runs in ring 0.                                    *)
(***************************************************************************)
EXTENDS Integers, Sequences, FiniteSets

CONSTANT NFRAMES    \* nframes, whole words of the bitmap

ASSUME PagingAssumption == NFRAMES \in Nat \ {0} /\ NFRAMES % 32 = 0

VARIABLES
    frames,   \* the frames whose bit is set
    tables,   \* table -> index of a present page -> frame
    dirs,     \* directory -> [physicalAddr, tables, tablesPhysical]
    cr3       \* the directory in CR3, and current_directory

pvars == <<frames, tables, dirs, cr3>>

FRAME_SIZE == 4096
ENTRIES == 1024

INDEX_FROM_BIT(a) == a \div 32

\* f with the value v at x.
Put(f, x, v) == [y \in DOMAIN f \cup {x} |-> IF y = x THEN v ELSE f[y]]

-----------------------------------------------------------------------------
(* The frame bitmap                                                        *)

set_frame_Never(frame_addr) == frames                \* fault: bit not set
set_frame(frame_addr) == frames \cup {frame_addr \div FRAME_SIZE}
clear_frame(frame_addr) == frames \ {frame_addr \div FRAME_SIZE}

\* memset clears INDEX_FROM_BIT(nframes) bytes, a quarter of the bitmap.
Cleared == 0 .. 8 * INDEX_FROM_BIT(NFRAMES) - 1

\* The results first_frame may return.  Beyond the bits that were cleared it
\* reads what the memory held, and with no bit clear it returns no value.
first_frame_Highest ==                               \* fault: searches downwards
    {CHOOSE f \in Cleared \ frames : \A g \in Cleared \ frames : g <= f}
first_frame ==
    IF Cleared \subseteq frames
    THEN 0 .. NFRAMES - 1
    ELSE {CHOOSE f \in Cleared \ frames : \A g \in Cleared \ frames : f <= g}

\* page->frame, 0 in a page that is not present.
Frame(table, i) == IF i \in DOMAIN tables[table] THEN tables[table][i] ELSE 0

alloc_frame(table, i) ==
    IF Frame(table, i) # 0
    THEN UNCHANGED <<frames, tables>>
    ELSE \E idx \in first_frame :
            /\ frames' = set_frame(idx * FRAME_SIZE)
            /\ tables' = [tables EXCEPT ![table] = Put(@, i, idx)]

\* clear_frame is given the frame's number, and present stays set.
free_frame(table, i) ==
    IF Frame(table, i) = 0
    THEN UNCHANGED <<frames, tables>>
    ELSE /\ frames' = clear_frame(Frame(table, i))
         /\ tables' = [tables EXCEPT ![table][i] = 0]

-----------------------------------------------------------------------------
(* Tables and directories                                                  *)

table_idx(page) == page \div ENTRIES
HasTable(dir, page) == table_idx(page) \in DOMAIN dirs[dir].tables
get_page(dir, page) == <<dirs[dir].tables[table_idx(page)], page % ENTRIES>>

\* Where the page lies in memory, as the tables of dir say.
Mapped(dir, page) ==
    /\ HasTable(dir, page)
    /\ page % ENTRIES \in DOMAIN tables[dirs[dir].tables[table_idx(page)]]
Translate(dir, page) ==
    tables[dirs[dir].tables[table_idx(page)]][page % ENTRIES]

\* A new table, all zero, at page at and frame phys, in slot of dir.
NewTable(dir, slot, at, phys) ==
    /\ tables' = Put(tables, at, <<>>)
    /\ dirs' = [dirs EXCEPT ![dir].tables = Put(@, slot, at),
                            ![dir].tablesPhysical = Put(@, slot, phys)]

\* clone_directory shares the tables that are the kernel's own...
Shared_None(kernel, src) == {}             \* fault: every table is cloned
Shared(kernel, src) ==
    {i \in DOMAIN dirs[src].tables :
        /\ i \in DOMAIN dirs[kernel].tables
        /\ dirs[kernel].tables[i] = dirs[src].tables[i]}
\* ... and gives the others to clone_table.
Cloned(kernel, src) ==
    {i \in 0 .. ENTRIES - 1 : i \in DOMAIN dirs[src].tables \ Shared(kernel, src)}

\* physicalAddr is that of tablesPhysical, one page behind the directory.
Physical(phys) == phys + 1

NewDirectory(at, phys, kernel, src) ==
    dirs' = Put(dirs, at,
                [physicalAddr |-> Physical(phys),
                 tables |-> [i \in Shared(kernel, src) |-> dirs[src].tables[i]],
                 tablesPhysical |->
                   [i \in Shared(kernel, src) |-> dirs[src].tablesPhysical[i]]])

\* clone_table gives a frame to each page of src that has one.
FramesToCopy(src) ==
    {i \in 0 .. ENTRIES - 1 : i \in DOMAIN tables[src] /\ tables[src][i] # 0}

switch_page_directory(dir) == cr3' = dir

-----------------------------------------------------------------------------
(* Properties                                                              *)

Pages == UNION {{<<t, i>> : i \in DOMAIN tables[t]} : t \in DOMAIN tables}

\* No frame backs two pages: alloc_frame never hands out a frame that is in
\* use, for low memory, the heap, or the stack of any process.
FramesExclusive ==
    Cardinality({tables[p[1]][p[2]] : p \in Pages}) = Cardinality(Pages)

=============================================================================
