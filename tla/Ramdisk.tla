------------------------------- MODULE Ramdisk -------------------------------
(***************************************************************************)
(* The initial ramdisk: the image that tools/initrd_creator writes, the    *)
(* nodes that kernel/filesystem/initrd.c makes of it, and the traversal of *)
(* kernel_task through the file system interface of fs.c, with memset and  *)
(* memcpy as the loops of module Memops.  All of it runs with IF clear.    *)
(*                                                                         *)
(* A byte of a file is its file and its position, and none of them is 0    *)
(* (the files are texts); names are model values.                          *)
(* strcpy copies no NUL, so the name of a node is the file's name and what *)
(* the heap block held behind it: any name, chosen when the node is made.  *)
(***************************************************************************)
EXTENDS Memops, Sequences

CONSTANTS
    NFILES,        \* files in the image
    Lengths,       \* their lengths
    Names,         \* names a node may end up with, "dev" among them
    HEADERS,       \* bytes of nfiles and of the max_headers file headers
    LOCATION,      \* where the boot loader put the image
    Word,          \* 2^32
    Behind,        \* how many bytes may lie behind kernel_task's buffer
                   \* before the first NUL
    Offsets, Sizes \* what other callers of read_fs pass

Files == 1 .. NFILES

DEV  == 0
NONE == -1
ZERO == <<0, 0>>    \* a byte 0

ASSUME RamdiskAssumption ==
    /\ {HEADERS, LOCATION, Word} \subseteq Nat
    /\ {NFILES, MaxN} \subseteq 0 .. Word - 1
    /\ Lengths \subseteq 0 .. MaxN
    /\ "none" \notin Names    \* stands for a null pointer
    /\ 0 \in Fills            \* kernel_task passes it to memset
    /\ Behind \subseteq Nat
    /\ LOCATION + HEADERS + NFILES * MaxN < Word
    /\ Offsets \subseteq 0 .. Word - 1 /\ Sizes \subseteq 0 .. Word - 1

VARIABLES
    len,        \* lengths of the files
    name,       \* names of root_nodes
    offset,     \* file_headers[i].offset
    bufsize,    \* sizeof(buf) of kernel_task, 256 in the code
    at,         \* where kernel_task is
    entry,      \* its i
    dirent,     \* dirent.name
    node,       \* fsnode: a file, DEV or NONE
    asked,      \* offset + size of the last read, before it wraps
    base,       \* source address of the last memcpy
    buf,        \* bytes of its buffer
    shown       \* what it printed: [name, bytes] for each entry

rvars == <<vars, len, name, offset, bufsize, at, entry, dirent, node, asked,
           base, buf, shown>>
files == <<len, name, offset, bufsize>>

-----------------------------------------------------------------------------
(* init_rd_creator.c                                                       *)

\* The first loop: offset starts behind the headers and grows by each length.
HeaderOffset(lengths, k) ==
    LET off[j \in 0 .. NFILES] ==
            IF j = 0 THEN HEADERS ELSE off[j - 1] + lengths[j]
    IN  off[k - 1]

\* The second loop: the files one after the other.
Data(lengths) ==
    LET written[j \in 0 .. NFILES] ==
            IF j = 0 THEN <<>>
            ELSE written[j - 1] \o [x \in 1 .. lengths[j] |-> <<j, x>>]
    IN  written[NFILES]

\* The byte at an address of memory once the image is loaded.
Byte(a) == LET x == a - LOCATION - HEADERS + 1
           IN  IF x \in DOMAIN Data(len) THEN Data(len)[x] ELSE <<NONE, a>>

-----------------------------------------------------------------------------
(* initrd.c, behind read_fs, readdir_fs and finddir_fs                     *)

\* The number of bytes that initrd_read copies.
ReadSize_Unclipped(k, off, size) == size   \* fault: not clipped
ReadSize(k, off, size) ==
    IF off > len[k] THEN 0
    ELSE IF (off + size) % Word > len[k] THEN len[k] - off ELSE size

\* The entry's name; NONE at the end of the directory.
initrd_readdir_Short(k) ==                 \* fault: the last file is left out
    IF k = 0 THEN "dev"
    ELSE IF (k - 1) % Word >= NFILES - 1 THEN "none" ELSE name[k]
initrd_readdir(k) == IF k = 0 THEN "dev"
                     ELSE IF (k - 1) % Word >= NFILES THEN "none" ELSE name[k]

\* The first node with that name.
initrd_finddir(nm) ==
    IF nm = "dev" THEN DEV
    ELSE IF \E k \in Files : name[k] = nm
         THEN CHOOSE k \in Files : name[k] = nm /\ \A j \in 1 .. k - 1 : name[j] # nm
         ELSE NONE

\* file_headers[i].offset += location, and the names as they come out.
initialise_initrd ==
    /\ at = "boot"
    /\ offset' = [k \in Files |-> offset[k] + LOCATION]
    /\ name' \in [Files -> Names]
    /\ at' = "readdir"
    /\ UNCHANGED <<vars, len, bufsize, entry, dirent, node, asked, base, buf, shown>>

-----------------------------------------------------------------------------
(* kernel_task.  Calls of memset and memcpy start a run of Memops.         *)

Call(o, length) ==
    /\ op' = o /\ n' = length /\ c' = 0
    /\ i' = 0 /\ sz' = length
    /\ dest' = [x \in Idx |-> UNTOUCHED]
    /\ pc' = IF length = 0 THEN "done" ELSE "loop"

Returned == pc = "done"

\* buf after the call: memset's zeros, or the bytes that memcpy moved.
Stored == [x \in Idx |-> IF dest[x] = UNTOUCHED THEN buf[x]
                         ELSE IF op = "memset" THEN ZERO ELSE Byte(base + dest[x])]

readdir_fs ==
    /\ at = "readdir"
    /\ dirent' = initrd_readdir(entry)
    /\ at' = IF initrd_readdir(entry) = "none" THEN "end" ELSE "finddir"
    /\ UNCHANGED <<vars, files, entry, node, asked, base, buf, shown>>

finddir_fs ==
    /\ at = "finddir"
    /\ node' = initrd_finddir(dirent)
    /\ IF node' = DEV
       THEN /\ shown' = Append(shown, [name |-> dirent, bytes |-> <<>>])
            /\ entry' = entry + 1
            /\ at' = "readdir"
            /\ UNCHANGED vars
       ELSE /\ Call("memset", bufsize)
            /\ at' = "memset"
            /\ UNCHANGED <<shown, entry>>
    /\ UNCHANGED <<files, dirent, asked, base, buf>>

read_fs ==
    /\ at = "memset" /\ Returned
    /\ buf' = Stored
    /\ asked' = 0 + bufsize
    /\ base' = offset[node] + 0
    /\ Call("memcpy", ReadSize(node, 0, bufsize))
    /\ at' = "read"
    /\ UNCHANGED <<files, entry, dirent, node, shown>>

\* The bytes behind the buffer, which belong to no file.
Stack(t) == [x \in 1 .. t |-> <<NONE, x>>]

\* printf("%s") prints up to the first 0, wherever that is: a file that fills
\* the buffer leaves none in it, and the bytes behind it follow.
Printed(b) ==
    LET k == CHOOSE x \in 0 .. bufsize : /\ x = bufsize \/ b[x] = ZERO
                                        /\ \A y \in 0 .. x - 1 : b[y] # ZERO
        text == [x \in 1 .. k |-> b[x - 1]]
    IN  IF k < bufsize THEN {text} ELSE {text \o Stack(t) : t \in Behind}

print ==
    /\ at = "read" /\ Returned
    /\ buf' = Stored
    /\ \E t \in Printed(Stored) : shown' = Append(shown, [name |-> dirent, bytes |-> t])
    /\ entry' = entry + 1
    /\ at' = "readdir"
    /\ UNCHANGED <<vars, files, dirent, node, asked, base>>

\* Another caller of read_fs, with a buffer large enough for the whole file.
\* Nothing tests whether offset + size wraps: then size is not clipped, and
\* memcpy runs on until a page without a frame stops it.
client_read(k, off, size) ==
    /\ at = "end" /\ entry <= NFILES + 1
    /\ len[k] <= bufsize
    /\ node' = k
    /\ asked' = off + size
    /\ base' = offset[k] + off
    /\ IF ReadSize(k, off, size) <= MaxN
       THEN Call("memcpy", ReadSize(k, off, size)) /\ at' = "client"
       ELSE UNCHANGED vars /\ at' = "fault"
    /\ entry' = NFILES + 2
    /\ UNCHANGED <<files, dirent, buf, shown>>

client_return ==
    /\ at = "client" /\ Returned
    /\ buf' = Stored
    /\ at' = "end"
    /\ UNCHANGED <<vars, files, entry, dirent, node, asked, base, shown>>

-----------------------------------------------------------------------------
RInit ==
    /\ Init /\ op = "memset" /\ n = 0
    /\ len \in [Files -> Lengths]
    /\ offset = [k \in Files |-> HeaderOffset(len, k)]
    /\ name = [k \in Files |-> "none"]
    /\ bufsize \in 0 .. MaxN
    /\ at = "boot"
    /\ entry = 0
    /\ dirent = "none"
    /\ node = NONE
    /\ asked = 0 /\ base = 0
    /\ buf = [x \in Idx |-> <<NONE, x>>]
    /\ shown = <<>>

Memop == Next /\ UNCHANGED <<files, at, entry, dirent, node, asked, base, buf, shown>>

RNext ==
    \/ Memop
    \/ initialise_initrd \/ readdir_fs \/ finddir_fs \/ read_fs \/ print
    \/ \E k \in Files, off \in Offsets, size \in Sizes : client_read(k, off, size)
    \/ client_return

\* kernel_task runs with IF clear, so nothing keeps it from going on.
RSpec == RInit /\ [][RNext]_rvars
           /\ WF_rvars(Memop \/ initialise_initrd \/ readdir_fs \/ finddir_fs
                         \/ read_fs \/ print \/ client_return)

-----------------------------------------------------------------------------
(* Properties                                                              *)

Bytes(k, from, to) == [x \in 1 .. to - from |-> <<k, from + x>>]

\* The names by which the nodes are found again.
NamesDistinct == \A j, k \in Files : name[j] # "dev" /\ (j # k => name[j] # name[k])

Smaller(a, b) == IF a < b THEN a ELSE b

\* What may be shown of a file: a shorter one than the buffer whole, of another
\* one what the buffer holds and then what lies behind the buffer.
Contents(k) == IF len[k] < bufsize THEN {Bytes(k, 0, len[k])}
               ELSE {Bytes(k, 0, bufsize) \o Stack(t) : t \in Behind}

Expected ==
    [e \in 1 .. NFILES + 1 |->
        IF e = 1 THEN {[name |-> "dev", bytes |-> <<>>]}
        ELSE {[name |-> name[e - 1], bytes |-> t] : t \in Contents(e - 1)}]

\* If the names are still distinct after strcpy, the traversal shows /dev and
\* then every file of the image once, in the order in which the creator wrote
\* them: a file shorter than the buffer with exactly its own contents, a longer
\* one with its beginning and with bytes that are not its own behind it.
ShowsImage == at # "boot" /\ NamesDistinct =>
    /\ Len(shown) <= NFILES + 1
    /\ \A e \in 1 .. Len(shown) : shown[e] \in Expected[e]
    /\ at = "end" => Len(shown) = NFILES + 1

\* A read whose offset + size fits in 32 bits copies bytes of that file only,
\* from the place asked for, and never more than the file has behind that place;
\* only a read that wraps copies beyond the file, or all over memory.
ReadsInside ==
    /\ at \in {"read", "client"} /\ asked < Word =>
          \A x \in 0 .. n - 1 :
              Byte(base + x) = <<node, base - offset[node] + x + 1>>
    /\ at = "fault" => asked >= Word

\* The traversal comes to its end.
TraversalEnds == <>(at = "end")

=============================================================================
