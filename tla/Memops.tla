------------------------------- MODULE Memops -------------------------------
(***************************************************************************)
(* memcpy and memset of kernel/libc/memory.c: a loop that moves 8, 4, 2 or *)
(* 1 bytes depending on how many remain, and skips the index over them.    *)
(***************************************************************************)
EXTENDS Integers

CONSTANTS
    MaxN,    \* bound on the length of a call
    Fills    \* values passed to memset, as an int that fits a signed 9 bits

ASSUME MaxNAssumption == MaxN \in Nat
ASSUME FillsAssumption == Fills \subseteq -256 .. 255

\* The destination and what lies behind it.
Idx == 0 .. MaxN + 7

UNTOUCHED == -1    \* no byte and no index of the source has this value

VARIABLES
    op, n, c,   \* the call
    i, sz,      \* its local variables
    dest,       \* dest[x]: the byte written to dest + x; the bytes of the
                \* source are told apart by their index
    pc

vars == <<op, n, c, i, sz, dest, pc>>

\* The width chosen by the chain of tests on sz.
Chunk_NoByte(s) == IF s % 8 = 0 THEN 8     \* fault: the last case is missing
                   ELSE IF s % 4 = 0 THEN 4 ELSE IF s % 2 = 0 THEN 2 ELSE 0
Chunk(s) == IF s % 8 = 0 THEN 8
            ELSE IF s % 4 = 0 THEN 4
            ELSE IF s % 2 = 0 THEN 2 ELSE 1

\* Byte j of (uint64_t)c, which is also that of the narrower casts.
ByteOf(v, j) == IF j = 0 THEN v % 256 ELSE IF v < 0 THEN 255 ELSE 0

\* What one write puts at index x when it starts at index s.
Written_FirstSource(x, s) ==               \* fault: the source does not advance
    IF op = "memcpy" THEN x - s ELSE ByteOf(c, x - s)
Written(x, s) == IF op = "memcpy" THEN x ELSE ByteOf(c, x - s)

\* What the C library's functions leave at index x of the destination.
Standard(x) == IF x >= n THEN UNTOUCHED
               ELSE IF op = "memcpy" THEN x ELSE c % 256

Init ==
    /\ op \in {"memcpy", "memset"}
    /\ n \in 0 .. MaxN
    /\ c \in Fills
    /\ i = 0
    /\ sz = n
    /\ dest = [x \in Idx |-> UNTOUCHED]
    /\ pc = IF n = 0 THEN "done" ELSE "loop"

Move ==
    /\ pc = "loop"
    /\ i < n
    /\ dest' = [x \in Idx |-> IF i <= x /\ x < i + Chunk(sz)
                              THEN Written(x, i) ELSE dest[x]]
    /\ sz' = sz - Chunk(sz)
    /\ i' = i + (Chunk(sz) - 1) + 1
    /\ UNCHANGED <<op, n, c, pc>>

\* Fault: the loop ends one turn early.
Return_Early ==
    /\ pc = "loop"
    /\ ~(i + 1 < n)
    /\ pc' = "done"
    /\ UNCHANGED <<op, n, c, i, sz, dest>>

Return ==
    /\ pc = "loop"
    /\ ~(i < n)
    /\ pc' = "done"
    /\ UNCHANGED <<op, n, c, i, sz, dest>>

Next == Move \/ Return

Spec == Init /\ [][Next]_vars

-----------------------------------------------------------------------------
\* The call's arguments and the loop's index and rest stay in range.
TypeOK ==
    /\ op \in {"memcpy", "memset"}
    /\ n \in 0 .. MaxN
    /\ c \in Fills
    /\ i \in 0 .. MaxN
    /\ sz \in 0 .. MaxN
    /\ dest \in [Idx -> Int]
    /\ pc \in {"loop", "done"}

\* At every turn of the loop the bytes below i are final, i and sz split n,
\* and nothing at or beyond i has been touched: a wide write never runs over
\* the end of the destination although the loop only tests i < n.
PrefixDone ==
    /\ i + sz = n
    /\ (op = "memset" => c \in {0, -1}) =>
          \A x \in Idx : dest[x] = IF x < i THEN Standard(x) ELSE UNTOUCHED

\* memcpy, and memset with a value whose bytes are all equal (the kernel only
\* passes 0), leave what the C library's functions would.
Correct ==
    /\ pc = "done" => i = n
    /\ pc = "done" /\ (op = "memset" => c \in {0, -1}) =>
          \A x \in Idx : dest[x] = Standard(x)

=============================================================================
