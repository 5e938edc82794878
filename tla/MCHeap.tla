------------------------------- MODULE MCHeap -------------------------------
(* The heap with a client that allocates and frees in any order, within    *)
(* the discipline AllocSafe / FreeSafe or without it.                      *)
EXTENDS Heap

CONSTANTS
    Clients,        \* [kinds, max]: the requests a client makes, as triples
                    \* <<size, aligned, fills the block>>, and how many of its
                    \* blocks are in use at a time
    Disciplined     \* the client keeps to the discipline

ASSUME ClientAssumption ==
    /\ \A c \in Clients : c.kinds \subseteq Nat \X BOOLEAN \X BOOLEAN
    /\ Disciplined \in BOOLEAN

VARIABLE client

hvars == <<vars, client>>

Request(size, align) ==
    /\ Cardinality(DOMAIN live) < client.max
    /\ end <= MAX_END
    /\ Disciplined => AllocSafe(size, align)
    /\ alloc(size, align)

Release(p) ==
    /\ Disciplined => FreeSafe(p)
    /\ free(p)

HInit == Init /\ client \in Clients

HNext ==
    /\ \/ \E r \in client.kinds : Request(r[1], r[2])
       \/ \E r \in client.kinds :
             r[1] = req.size /\ r[2] = req.align /\ alloc_take(r[3])
       \/ alloc_expand
       \/ \E p \in DOMAIN live : Release(p)
    /\ UNCHANGED client

Spec == HInit /\ [][HNext]_hvars

\* Two clients fill their blocks, with up to three of them or with alignment; the
\* third leaves the old bytes in its blocks.
Tidy    == [kinds |-> {4, 8} \X {FALSE} \X {TRUE}, max |-> 3]
Aligned == [kinds |-> {3, 8} \X BOOLEAN \X {TRUE}, max |-> 2]
Untidy  == [kinds |-> ({3, 8} \X {FALSE} \X {FALSE}) \cup {<<8, TRUE, FALSE>>},
            max |-> 2]
MCClients == {Tidy, Aligned, Untidy}

\* A client that never asks for alignment.
Plain     == [kinds |-> {3, 8} \X {FALSE} \X {TRUE}, max |-> 4]
MCPlain   == {Plain}

Alloc == INSTANCE Allocator WITH LO <- START, HI <- MAX_END

\* What callers rely on: see module Allocator.
ImplementsAllocator == Alloc!Spec

=============================================================================
