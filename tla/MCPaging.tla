------------------------------ MODULE MCPaging ------------------------------
(***************************************************************************)
(* The calls expand and contract make on a small machine: alloc_frame for  *)
(* the page behind the heap, free_frame for its last page.  Low memory is  *)
(* identity mapped by table 0, the heap is mapped by table 1.              *)
(***************************************************************************)
EXTENDS Paging, TLC

CONSTANTS LowPages,    \* pages initialise_paging identity maps
          MaxHeapPages \* bound on the heap

VARIABLE heapPages

Low == 0 .. LowPages - 1

Init ==
    /\ frames = Low
    /\ tables = (0 :> [i \in Low |-> i]) @@ (1 :> <<>>)
    /\ dirs = (0 :> [physicalAddr |-> 1, tables |-> (0 :> 0) @@ (1 :> 1),
                     tablesPhysical |-> (0 :> 0) @@ (1 :> 1)])
    /\ cr3 = 0
    /\ heapPages = 0

expand ==
    /\ heapPages < MaxHeapPages
    /\ alloc_frame(1, heapPages)
    /\ heapPages' = heapPages + 1
    /\ UNCHANGED <<dirs, cr3>>

contract ==
    /\ heapPages > 0
    /\ free_frame(1, heapPages - 1)
    /\ heapPages' = heapPages - 1
    /\ UNCHANGED <<dirs, cr3>>

Next == expand \/ contract

Spec == Init /\ [][Next]_<<pvars, heapPages>>

\* "We need to identity map (phys addr = virt addr) from 0x0 to the end of used
\* memory, so we can access this transparently" (paging.c:131): the frames of
\* low memory stay its own, no page of the heap is put on one.
LowMemoryKept == \A i \in 0 .. heapPages - 1 : Frame(1, i) \notin Low

=============================================================================
