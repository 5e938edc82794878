---------------------------- MODULE OrderedArray ----------------------------
(***************************************************************************)
(* The insertion-sorted array of kernel/libc/data_structures/              *)
(* ordered_array.c.  Its storage is fixed and big enough for the bounds    *)
(* used here; the array is a sequence, index 0 of the code is index 1.     *)
(* The less_than function of an array is a function on pairs of items.     *)
(***************************************************************************)
EXTENDS Integers, Sequences, SequencesExt

\* The first position whose element is not less than item.
InsertPosition(item, array, less) ==
    CHOOSE i \in 1 .. Len(array) + 1 :
        /\ \A k \in 1 .. i - 1 : less[<<array[k], item>>]
        /\ i <= Len(array) => ~less[<<array[i], item>>]

insert_ordered_array(item, array, less) ==
    InsertAt(array, InsertPosition(item, array, less), item)

\* The loops that look for an item stop at the array's size when it is absent.
PositionOf(item, array) ==
    CHOOSE i \in 1 .. Len(array) + 1 :
        /\ \A k \in 1 .. i - 1 : array[k] # item
        /\ i <= Len(array) => array[i] = item

\* Nothing is shifted when i is past the end, but size is decremented all the
\* same: the last element is dropped.
remove_ordered_array(i, array) ==
    IF i <= Len(array) THEN RemoveAt(array, i)
                       ELSE SubSeq(array, 1, Len(array) - 1)

=============================================================================
