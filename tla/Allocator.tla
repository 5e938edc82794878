------------------------------ MODULE Allocator ------------------------------
(***************************************************************************)
(* What the callers of kmalloc and kfree rely on: a block that nobody else *)
(* has, in the address range of the heap, that stays theirs until they     *)
(* give it back.                                                           *)
(***************************************************************************)
EXTENDS Integers

CONSTANTS LO, HI   \* the address range

VARIABLE live      \* address -> size of the blocks handed out

Free(a, n) == \A p \in DOMAIN live : a + n <= p \/ p + live[p] <= a

Init == live = <<>>

Malloc(a, n) ==
    /\ LO <= a /\ a + n <= HI
    /\ Free(a, n)
    /\ live' = [p \in DOMAIN live \cup {a} |-> IF p = a THEN n ELSE live[p]]

Release(a) == live' = [p \in DOMAIN live \ {a} |-> live[p]]

Next ==
    \/ \E a \in DOMAIN live' : Malloc(a, live'[a])
    \/ \E a \in DOMAIN live : Release(a)

Spec == Init /\ [][Next]_live

=============================================================================
