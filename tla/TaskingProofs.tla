---------------------------- MODULE TaskingProofs ----------------------------
(***************************************************************************)
(* Proofs about the ready list and the scheduler, for every number of      *)
(* processes and every assignment of bodies to them.                       *)
(***************************************************************************)
EXTENDS Tasking, TLAPS, WellFoundedInduction

-----------------------------------------------------------------------------
(* Facts about walks                                                       *)

LEMMA PidFacts ==
    /\ MaxPid \in Nat /\ IDLE \in Pid /\ NULL \notin Pid
    /\ Pid \subseteq Nat /\ \A p \in Pid : p >= IDLE
    /\ NBoot \in Pid
BY BoundAssumption DEF BoundAssumption, Pid, IDLE, NULL

LEMMA PtrNat == Ptr \subseteq Nat
BY BoundAssumption DEF BoundAssumption, Ptr, Pid, NULL

\* A walk stays inside any set that holds its start and is closed under next.
LEMMA ChainLeast ==
    ASSUME NEW nx, NEW p, NEW S \in SUBSET Pid, p \in S, Closed(S, nx)
    PROVE  ChainFrom(p, nx) \subseteq S
BY DEF ChainFrom

LEMMA ChainFacts ==
    ASSUME NEW nx \in [Pid -> Ptr], NEW p \in Pid
    PROVE  /\ ChainFrom(p, nx) \subseteq Pid
           /\ p \in ChainFrom(p, nx)
           /\ Closed(ChainFrom(p, nx), nx)
<1>1. p # NULL
    BY PidFacts
<1>2. ChainFrom(p, nx) =
        {q \in Pid : \A S \in SUBSET Pid : p \in S /\ Closed(S, nx) => q \in S}
    BY <1>1 DEF ChainFrom
<1>3. ASSUME NEW r \in ChainFrom(p, nx), nx[r] # NULL
      PROVE  nx[r] \in ChainFrom(p, nx)
  <2>1. nx[r] \in Pid
      BY <1>2, <1>3 DEF Ptr
  <2>2. ASSUME NEW S \in SUBSET Pid, p \in S, Closed(S, nx) PROVE nx[r] \in S
      BY <1>2, <1>3, <2>2 DEF Closed
  <2> QED
      BY <1>2, <2>1, <2>2
<1> QED
    BY <1>2, <1>3 DEF Closed

\* Links outside of a walk do not matter to it.
LEMMA ChainAgree ==
    ASSUME NEW nx \in [Pid -> Ptr], NEW ny \in [Pid -> Ptr], NEW p \in Pid,
           \A q \in ChainFrom(p, nx) : ny[q] = nx[q]
    PROVE  ChainFrom(p, ny) = ChainFrom(p, nx)
<1> DEFINE X == ChainFrom(p, nx)
           Y == ChainFrom(p, ny)
<1>1. /\ X \in SUBSET Pid /\ p \in X /\ Closed(X, nx)
      /\ Y \in SUBSET Pid /\ p \in Y /\ Closed(Y, ny)
    BY ChainFacts
<1>2. Closed(X, ny)
    BY <1>1 DEF Closed
<1>3. Y \subseteq X
    BY <1>1, <1>2, ChainLeast
<1>4. Closed(Y, nx)
    BY <1>1, <1>3 DEF Closed
<1>5. X \subseteq Y
    BY <1>1, <1>4, ChainLeast
<1> QED
    BY <1>3, <1>5

\* A nonempty set of processes has a youngest member.
LEMMA Youngest ==
    ASSUME NEW S \in SUBSET Pid, S # {}
    PROVE  \E m \in S : \A q \in S : q <= m
<1> DEFINE T == {MaxPid - q : q \in S}
<1>1. T \subseteq Nat /\ T # {}
    BY PidFacts DEF Pid
<1>2. \E x \in T : \A y \in T : ~ (<<y, x>> \in OpToRel(<, Nat))
    BY <1>1, NatLessThanWellFounded, WFMin
<1>3. PICK x \in T : \A y \in T : ~ (<<y, x>> \in OpToRel(<, Nat))
    BY <1>2
<1>4. \A y \in T : ~(y < x)
    BY <1>1, <1>3 DEF OpToRel
<1>5. PICK m \in S : x = MaxPid - m
    BY DEF T
<1>6. ASSUME NEW q \in S PROVE q <= m
  <2>1. ~(MaxPid - q < MaxPid - m)
      BY <1>4, <1>5
  <2> QED
      BY <2>1, PidFacts
<1> QED
    BY <1>6

-----------------------------------------------------------------------------
(* The inductive invariant.  ListSound alone is not inductive: appending   *)
(* needs to know that the new process is younger than all listed ones,     *)
(* and a switch needs to know where cp points at every stage of schedule.  *)

ListInv ==
    Booted =>
        /\ ready_queue = IDLE
        /\ \A q \in Listed : /\ mem[q] = "allocated"
                             /\ q <= lpid
                             /\ next[q] = NULL \/ next[q] > q
        /\ \A q, r \in Listed : q < r => next[q] # NULL /\ next[q] <= r

CpuInv ==
    /\ pc = "boot" => iflag = FALSE /\ ready_queue = NULL
    /\ pc \in RunningPC => cp \in Listed /\ current_directory = cp
    /\ pc \in {"created", "adding"} =>
          /\ reg \in Pid /\ reg = lpid /\ reg \notin Listed
          /\ mem[reg] = "allocated" /\ next[reg] = NULL
    /\ pc = "sched_next" => /\ cp \in Pid
                            /\ next[cp] = NULL \/ next[cp] \in Listed
    /\ pc = "sched_wrap" => cp = NULL \/ cp \in Listed
    /\ pc = "sched_load" => cp \in Listed
    /\ pc # "halt"

IdleInv == state[IDLE] = "ALIVE"

IInv == TypeOK /\ ListInv /\ CpuInv /\ IdleInv

\* The list between two steps: its head and where its links lead.
LEMMA ListedFacts ==
    ASSUME IInv, Booted
    PROVE  /\ ready_queue = IDLE
           /\ Listed = ChainFrom(IDLE, next)
           /\ Listed \in SUBSET Pid
           /\ IDLE \in Listed
           /\ \A q \in Listed : next[q] \in Ptr /\ (next[q] # NULL => next[q] \in Listed)
           /\ \A q \in Listed : Successor(next[q]) \in Listed
BY PidFacts, ChainFacts DEF IInv, TypeOK, ListInv, Listed, Closed, Successor

\* A step that leaves the links and the head alone leaves the list alone.
LEMMA ListKept ==
    ASSUME ListInv, Booted, UNCHANGED <<next, mem, lpid, ready_queue>>
    PROVE  Listed' = Listed /\ ListInv'
<1>1. Listed' = Listed
    BY DEF Listed
<1> QED
    BY <1>1 DEF ListInv

-----------------------------------------------------------------------------
(* The two operations on the list                                          *)

\* The last element is the youngest one, and the only one without successor.
LEMMA TailFacts ==
    ASSUME IInv, Booted
    PROVE  /\ Tail \in Listed /\ next[Tail] = NULL
           /\ \A q \in Listed : q <= Tail
           /\ \A q \in Listed : q # Tail => next[q] # NULL
<1>1. Listed \in SUBSET Pid /\ Listed # {}
    BY ListedFacts
<1>2. PICK m \in Listed : \A q \in Listed : q <= m
    BY <1>1, Youngest
<1>3. next[m] = NULL
  <2>1. next[m] # NULL => next[m] \in Listed /\ next[m] > m
      BY ListedFacts DEF IInv, ListInv
  <2>2. m \in Nat /\ next[m] \in Nat
      BY <1>1, ListedFacts, PidFacts, PtrNat
  <2> QED
      BY <1>2, <2>1, <2>2
<1>4. Tail \in Listed /\ next[Tail] = NULL
    BY <1>2, <1>3 DEF Tail
<1>5. ASSUME NEW q \in Listed PROVE q <= Tail
  <2>1. ~(Tail < q)
      BY <1>4 DEF IInv, ListInv
  <2> QED
      BY <1>1, <1>4, <2>1, PidFacts
<1>6. ASSUME NEW q \in Listed, q # Tail PROVE next[q] # NULL
  <2>1. q < Tail
      BY <1>1, <1>4, <1>5, <1>6, PidFacts
  <2> QED
      BY <1>4, <2>1 DEF IInv, ListInv
<1> QED
    BY <1>4, <1>5, <1>6

\* __addProcess adds exactly the new process.
LEMMA LinkList ==
    ASSUME IInv, Booted, NEW p \in Pid, p \notin Listed, next[p] = NULL
    PROVE  /\ LinkedAt(p) \in [Pid -> Ptr]
           /\ ChainFrom(IDLE, LinkedAt(p)) = Listed \cup {p}
<1> DEFINE L == Listed
           ny == LinkedAt(p)
           C == ChainFrom(IDLE, ny)
<1>1. /\ L = ChainFrom(IDLE, next) /\ L \in SUBSET Pid /\ IDLE \in L
      /\ \A q \in L : next[q] # NULL => next[q] \in L
    BY ListedFacts
<1>2. Tail \in L /\ next[Tail] = NULL
    BY TailFacts
<1>3. /\ next \in [Pid -> Ptr]
      /\ ny \in [Pid -> Ptr] /\ ny[Tail] = p
      /\ \A q \in Pid : q # Tail => ny[q] = next[q]
    BY <1>1, <1>2 DEF IInv, TypeOK, LinkedAt, Ptr
<1>4. IDLE \in Pid /\ p # Tail
    BY PidFacts, <1>2
<1> HIDE DEF L, ny
<1>5. C \in SUBSET Pid /\ IDLE \in C /\ Closed(C, ny)
    BY <1>3, <1>4, ChainFacts
<1>6. Closed(L \cup {p}, ny)
    BY <1>1, <1>2, <1>3, <1>4 DEF Closed, L
<1>7. C \subseteq L \cup {p}
    BY <1>1, <1>6, ChainLeast
<1>8. Closed(C \cap L, next)
    BY <1>1, <1>2, <1>3, <1>5 DEF Closed
<1>9. L \subseteq C
    BY <1>1, <1>5, <1>8, ChainLeast
<1>10. p \in C
    BY <1>2, <1>3, <1>5, <1>9, PidFacts DEF Closed
<1> QED
    BY <1>3, <1>7, <1>9, <1>10 DEF L, ny

\* The loop of _kill removes exactly cp.
LEMMA UnlinkList ==
    ASSUME IInv, Booted, cp \in Listed, cp # IDLE
    PROVE  /\ Unlinked \in [Pid -> Ptr]
           /\ ChainFrom(IDLE, Unlinked) = Listed \ {cp}
           /\ Unlinked[cp] = next[cp]
           /\ next[cp] # cp
<1> DEFINE L == Listed
           ny == Unlinked
           C == ChainFrom(IDLE, ny)
<1>1. /\ L = ChainFrom(IDLE, next) /\ L \in SUBSET Pid /\ IDLE \in L
      /\ \A q \in L : next[q] # NULL => next[q] \in L
    BY ListedFacts
<1>2. next \in [Pid -> Ptr] /\ cp \in L /\ cp \in Pid /\ IDLE \in Pid
    BY <1>1 DEF IInv, TypeOK
<1>3. next[cp] # cp
  <2>1. next[cp] = NULL \/ next[cp] > cp
      BY <1>2 DEF IInv, ListInv
  <2> QED
      BY <1>2, <2>1, PidFacts
<1>4. /\ ny \in [Pid -> Ptr]
      /\ \A q \in L : ny[q] = IF next[q] = cp THEN next[cp] ELSE next[q]
    BY <1>1, <1>2 DEF Unlinked
<1>5. ny[cp] = next[cp]
    BY <1>2, <1>3, <1>4
<1> HIDE DEF L, ny
<1>6. C \in SUBSET Pid /\ IDLE \in C /\ Closed(C, ny)
    BY <1>2, <1>4, ChainFacts
<1>7. Closed(L \ {cp}, ny)
    BY <1>1, <1>2, <1>3, <1>4 DEF Closed
<1>8. C \subseteq L \ {cp}
    BY <1>1, <1>7, ChainLeast
<1>9. \E q \in C : next[q] = cp
  <2> SUFFICES ASSUME \A q \in C : next[q] # cp PROVE FALSE
      OBVIOUS
  <2>1. Closed(C, next)
      BY <1>4, <1>6, <1>8 DEF Closed
  <2>2. L \subseteq C
      BY <1>1, <1>6, <2>1, ChainLeast
  <2> QED
      BY <1>2, <1>8, <2>2
<1>10. Closed(C \cup {cp}, next)
  <2>1. next[cp] # NULL => next[cp] \in C
      BY <1>4, <1>6, <1>8, <1>9 DEF Closed
  <2> QED
      BY <1>4, <1>6, <1>8, <2>1 DEF Closed
<1>11. L \subseteq C \cup {cp}
    BY <1>1, <1>2, <1>6, <1>10, ChainLeast
<1> QED
    BY <1>3, <1>4, <1>5, <1>8, <1>11 DEF L, ny

-----------------------------------------------------------------------------
(* Every step keeps the invariant, and takes a process off the list only   *)
(* in its own _kill.                                                       *)

Leaves == Listed \ Listed' = {} \/ (Listed \ Listed' = {cp} /\ pc' = "sched_next")

Good == IInv' /\ Leaves

\* Steps that change neither the list nor the blocks on it.
LEMMA QuietStep ==
    ASSUME IInv, Booted, Booted', TypeOK',
           UNCHANGED <<next, mem, lpid, ready_queue, state>>,
           pc' \in RunningPC => cp' \in Listed /\ current_directory' = cp',
           pc' \in {"created", "adding"} =>
              pc \in {"created", "adding"} /\ reg' = reg,
           pc' = "sched_next" => pc = "sched_next" /\ cp' = cp,
           pc' = "sched_wrap" => cp' = NULL \/ cp' \in Listed,
           pc' = "sched_load" => cp' \in Listed,
           pc' # "halt"
    PROVE  Good
<1>1. Listed' = Listed /\ ListInv'
    BY ListKept DEF IInv
<1>2. CpuInv'
    BY <1>1 DEF CpuInv, IInv, Booted
<1>3. IdleInv'
    BY DEF IdleInv, IInv
<1> QED
    BY <1>1, <1>2, <1>3 DEF Good, Leaves, IInv

LEMMA PCFacts ==
    ASSUME IInv
    PROVE  /\ pc \in RunningPC => Booted
           /\ pc \in SwitchPC => Booted
           /\ iflag => Booted
           /\ Booted => pc \in RunningPC \cup SwitchPC \cup {"wild"}
BY DEF IInv, TypeOK, CpuInv, Booted, RunningPC, SwitchPC, StoppedPC

LEMMA InitialiseTasking ==
    ASSUME IInv, initialise_tasking
    PROVE  Good
<1> DEFINE nx == [p \in Pid |-> IF p < NBoot THEN p + 1 ELSE NULL]
           B == {p \in Pid : p <= NBoot}
<1>1. next' = nx /\ ready_queue' = IDLE /\ pc' = "entry"
    BY DEF initialise_tasking, JumpTo, BootLinks
<1>2. nx \in [Pid -> Ptr]
    BY PidFacts, BoundAssumption DEF Pid, Ptr
<1>3. IDLE \in B /\ Closed(B, nx)
    BY PidFacts, BoundAssumption DEF Pid, Closed, IDLE, NULL
<1>4. Listed' = ChainFrom(IDLE, nx)
    BY <1>1 DEF Listed
<1>5. Listed' \subseteq B /\ IDLE \in Listed'
    BY <1>2, <1>3, <1>4, ChainLeast, ChainFacts, PidFacts
<1>6. TypeOK'
  <2>1. next' \in [Pid -> Ptr]
      BY <1>1, <1>2
  <2>2. lpid' \in 0 .. MaxPid
      BY BoundAssumption DEF initialise_tasking
  <2>3. mem' \in [Pid -> {"none", "allocated", "freed", "reused"}]
      BY DEF initialise_tasking
  <2> QED
      BY <2>1, <2>2, <2>3, PidFacts
         DEF IInv, TypeOK, initialise_tasking, JumpTo, timer, Ptr, RunningPC
<1>7. ListInv'
  <2>1. ASSUME NEW q \in Listed'
        PROVE  /\ mem'[q] = "allocated"
               /\ q <= lpid'
               /\ next'[q] = NULL \/ next'[q] > q
      BY <1>1, <1>5, PidFacts DEF initialise_tasking
  <2>2. ASSUME NEW q \in Listed', NEW r \in Listed', q < r
        PROVE  next'[q] # NULL /\ next'[q] <= r
      BY <1>1, <1>5, <2>2, PidFacts DEF NULL
  <2> QED
      BY <1>1, <2>1, <2>2 DEF ListInv
<1>8. CpuInv'
    BY <1>1, <1>5 DEF CpuInv, initialise_tasking, JumpTo, RunningPC
<1>9. IdleInv'
    BY DEF IInv, IdleInv, initialise_tasking
<1>10. Listed = {}
    BY DEF IInv, CpuInv, initialise_tasking, Listed, ChainFrom
<1> QED
    BY <1>6, <1>7, <1>8, <1>9, <1>10 DEF Good, Leaves, IInv

-----------------------------------------------------------------------------
(* Interrupts and schedule                                                 *)

\* Where schedule goes from cp, whatever stage the interrupted code was at.
LEMMA NextProcess ==
    ASSUME IInv, Booted, pc # "wild", Readable(cp)
    PROVE  Successor(next[cp]) \in Listed
<1>1. CASE pc \in RunningPC \/ pc = "sched_wrap" \/ pc = "sched_load"
    BY <1>1, ListedFacts DEF IInv, CpuInv, Readable
<1>2. CASE pc = "sched_next"
    BY <1>2, ListedFacts DEF IInv, CpuInv, Successor
<1> QED
    BY <1>1, <1>2, PCFacts DEF SwitchPC

LEMMA TimerCallback ==
    ASSUME IInv, timer_callback
    PROVE  Good
<1>1. Booted /\ pc # "wild" /\ Booted'
    BY PCFacts DEF timer_callback, StoppedPC, Booted, JumpTo
<1>2. UNCHANGED <<next, mem, lpid, ready_queue, state>>
    BY DEF timer_callback, procs
<1>3. CASE Readable(cp)
  <2>1. /\ cp' \in Listed /\ current_directory' = cp'
        /\ pc' = "entry" /\ iflag' = TRUE /\ reg' = NULL
      BY <1>1, <1>3, NextProcess DEF timer_callback, JumpTo
  <2>2. TypeOK'
      BY <1>1, <2>1, ListedFacts DEF IInv, TypeOK, timer_callback, procs, timer, Ptr, RunningPC
  <2> QED
      BY <1>1, <1>2, <2>1, <2>2, QuietStep
<1>4. CASE ~Readable(cp)
  <2>1. pc' = "wild" /\ UNCHANGED <<cp, current_directory, reg>> /\ iflag' = FALSE
      BY <1>4 DEF timer_callback
  <2>2. TypeOK'
      BY <2>1 DEF IInv, TypeOK, timer_callback, procs, timer, StoppedPC
  <2> QED
      BY <1>1, <1>2, <2>1, <2>2, QuietStep DEF RunningPC
<1> QED
    BY <1>3, <1>4

LEMMA KeyboardCallback ==
    ASSUME IInv, keyboard_callback
    PROVE  Good
<1>1. Booted /\ Booted' /\ pc' = pc
    BY PCFacts DEF keyboard_callback, Booted
<1>2. Listed' = Listed
    BY DEF keyboard_callback, Listed
<1>3. cp \notin Listed /\ cp \in Pid
    BY <1>1 DEF IInv, ListInv, TypeOK, Ptr, keyboard_callback
<1>4. TypeOK'
    BY DEF IInv, TypeOK, keyboard_callback, timer
<1>5. \A q \in Listed : mem'[q] = mem[q]
    BY <1>1, <1>3, ListedFacts DEF IInv, TypeOK, keyboard_callback
<1>6. ListInv'
    BY <1>1, <1>2, <1>5 DEF IInv, ListInv, keyboard_callback
<1>7. CpuInv'
    BY <1>1, <1>2, <1>3 DEF IInv, CpuInv, keyboard_callback, RunningPC
<1>8. IdleInv'
    BY DEF IInv, IdleInv, keyboard_callback
<1> QED
    BY <1>2, <1>4, <1>6, <1>7, <1>8 DEF Good, Leaves, IInv

LEMMA ScheduleNext ==
    ASSUME IInv, schedule_next
    PROVE  Good
<1>1. Booted /\ Booted' /\ UNCHANGED <<next, mem, lpid, ready_queue, state>>
    BY DEF schedule_next, Booted, procs
<1>2. cp \in Pid /\ (next[cp] = NULL \/ next[cp] \in Listed)
    BY DEF IInv, CpuInv, schedule_next
<1>3. CASE Readable(cp)
  <2>1. cp' = next[cp] /\ pc' = "sched_wrap" /\ iflag' = iflag
      BY <1>3 DEF schedule_next
  <2>2. TypeOK'
      BY <1>2, <2>1 DEF IInv, TypeOK, schedule_next, procs, timer, SwitchPC
  <2> QED
      BY <1>1, <1>2, <2>1, <2>2, QuietStep DEF RunningPC
<1>4. CASE ~Readable(cp)
  <2>1. pc' = "wild" /\ cp' = cp /\ iflag' = FALSE
      BY <1>4 DEF schedule_next
  <2>2. TypeOK'
      BY <2>1 DEF IInv, TypeOK, schedule_next, procs, timer, StoppedPC
  <2> QED
      BY <1>1, <2>1, <2>2, QuietStep DEF RunningPC
<1> QED
    BY <1>3, <1>4

LEMMA ScheduleWrap ==
    ASSUME IInv, schedule_wrap
    PROVE  Good
<1>1. Booted /\ Booted' /\ UNCHANGED <<next, mem, lpid, ready_queue, state>>
    BY DEF schedule_wrap, Booted, procs
<1>2. cp' \in Listed /\ pc' = "sched_load"
    BY <1>1, ListedFacts DEF IInv, CpuInv, schedule_wrap, Successor
<1>3. TypeOK'
    BY <1>1, <1>2, ListedFacts DEF IInv, TypeOK, schedule_wrap, procs, timer, SwitchPC, Ptr
<1> QED
    BY <1>1, <1>2, <1>3, QuietStep DEF RunningPC

LEMMA ScheduleLoad ==
    ASSUME IInv, schedule_load
    PROVE  Good
<1>1. Booted /\ Booted' /\ UNCHANGED <<next, mem, lpid, ready_queue, state>>
    BY DEF schedule_load, Booted, procs, JumpTo
<1>2. /\ cp' \in Listed /\ cp' = cp /\ current_directory' = cp'
      /\ pc' = "entry" /\ reg' = NULL /\ iflag' = TRUE
    BY DEF IInv, CpuInv, schedule_load, JumpTo
<1>3. TypeOK'
    BY <1>1, <1>2 DEF IInv, TypeOK, schedule_load, procs, timer, RunningPC, Ptr
<1> QED
    BY <1>1, <1>2, <1>3, QuietStep DEF RunningPC

-----------------------------------------------------------------------------
(* _kill                                                                   *)

LEMMA KillStep ==
    ASSUME IInv, pc \in RunningPC, cp # IDLE, _kill
    PROVE  Good
<1> DEFINE L == Listed
           ny == Unlinked
<1>1. Booted /\ cp \in L
    BY PCFacts DEF IInv, CpuInv
<1>2. /\ next' = ny /\ mem' = [mem EXCEPT ![cp] = "freed"]
      /\ pc' = "sched_next" /\ iflag' = TRUE /\ task' = TaskAfter(TRUE)
      /\ reg' = NULL
      /\ UNCHANGED <<state, lpid, ready_queue, cp, current_directory,
                     task_was_on, enabled>>
    BY DEF _kill, killBody
<1>3. /\ ready_queue = IDLE /\ L \in SUBSET Pid /\ IDLE \in L
      /\ \A q \in L : next[q] \in Ptr /\ (next[q] # NULL => next[q] \in L)
    BY <1>1, ListedFacts
<1>4. /\ ny \in [Pid -> Ptr] /\ ChainFrom(IDLE, ny) = L \ {cp}
      /\ ny[cp] = next[cp] /\ next[cp] # cp
    BY <1>1, UnlinkList
<1>5. \A q \in L : ny[q] = IF next[q] = cp THEN next[cp] ELSE next[q]
    BY <1>3 DEF Unlinked
<1>6. Listed' = L \ {cp}
    BY <1>2, <1>3, <1>4 DEF Listed
<1>7. /\ \A q \in L : mem[q] = "allocated" /\ q <= lpid /\ (next[q] = NULL \/ next[q] > q)
      /\ \A q, r \in L : q < r => next[q] # NULL /\ next[q] <= r
    BY <1>1 DEF IInv, ListInv
<1>8. TypeOK'
    BY <1>2, <1>4 DEF IInv, TypeOK, TaskAfter, SwitchPC, Ptr
<1>9. \A q \in L \ {cp} : mem'[q] = "allocated"
    BY <1>2, <1>3, <1>7 DEF IInv, TypeOK
<1> HIDE DEF L, ny
<1>10. ASSUME NEW q \in L \ {cp} PROVE ny[q] = NULL \/ ny[q] > q
  <2>1. q \in Nat /\ cp \in Nat /\ next[q] \in Nat /\ next[cp] \in Nat
      BY <1>1, <1>3, PidFacts, PtrNat
  <2>2. /\ next[q] = NULL \/ next[q] > q
        /\ next[cp] = NULL \/ next[cp] > cp
        /\ ny[q] = IF next[q] = cp THEN next[cp] ELSE next[q]
        /\ cp # NULL
      BY <1>1, <1>3, <1>5, <1>7, PidFacts
  <2> QED
      BY <2>1, <2>2
<1>11. ASSUME NEW q \in L \ {cp}, NEW r \in L \ {cp}, q < r
       PROVE  ny[q] # NULL /\ ny[q] <= r
  <2>1. next[q] # NULL /\ next[q] <= r
      BY <1>7, <1>11
  <2>2. CASE next[q] # cp
      BY <1>5, <2>1, <2>2
  <2>3. CASE next[q] = cp
    <3>1. cp < r
        BY <1>1, <1>3, <2>1, <2>3, PidFacts
    <3>2. next[cp] # NULL /\ next[cp] <= r
        BY <1>1, <1>7, <3>1
    <3> QED
        BY <1>5, <2>3, <3>2
  <2> QED
      BY <2>2, <2>3
<1>12. ListInv'
    BY <1>2, <1>3, <1>6, <1>7, <1>9, <1>10, <1>11 DEF ListInv
<1>13. CpuInv'
  <2>1. cp \in Pid /\ (next[cp] = NULL \/ next[cp] \in L \ {cp})
      BY <1>1, <1>3, <1>4
  <2> QED
      BY <1>2, <1>4, <1>6, <2>1 DEF CpuInv, RunningPC
<1>14. IdleInv'
    BY <1>2 DEF IInv, IdleInv
<1>15. Leaves
    BY <1>1, <1>2, <1>6 DEF Leaves, L
<1> QED
    BY <1>8, <1>12, <1>13, <1>14, <1>15 DEF Good, IInv

-----------------------------------------------------------------------------
(* The bodies                                                              *)

LEMMA AtFacts ==
    ASSUME IInv, NEW label \in RunningPC, NEW body, At(label, body)
    PROVE  /\ Booted /\ cp \in Pid /\ cp \in Listed /\ current_directory = cp
           /\ pc = label
           /\ body # "idle_thread" => cp # IDLE
BY PCFacts, ListedFacts, ProgramAssumption DEF At, IInv, CpuInv, ProgramAssumption

LEMMA IdleSteps ==
    ASSUME IInv, idle_enable \/ idle_set
    PROVE  Good
<1>1. Booted /\ cp \in Listed /\ current_directory = cp
    BY AtFacts DEF idle_enable, idle_set, RunningPC
<1>2. /\ UNCHANGED <<next, mem, lpid, ready_queue, state, cp, current_directory, iflag, reg>>
      /\ pc' \in {"idle_enabled", "idle_loop"}
    BY DEF idle_enable, idle_set, procs
<1>3. TypeOK'
    BY <1>2 DEF IInv, TypeOK, idle_enable, idle_set, timer, RunningPC
<1> QED
    BY <1>1, <1>2, <1>3, QuietStep DEF Booted

LEMMA KernelTaskCli ==
    ASSUME IInv, kernel_task_cli
    PROVE  Good
<1>1. Booted /\ cp \in Listed /\ current_directory = cp
    BY AtFacts DEF kernel_task_cli, RunningPC
<1>2. /\ UNCHANGED <<next, mem, lpid, ready_queue, state, cp, current_directory, reg>>
      /\ pc' = "kernel_cli"
    BY DEF kernel_task_cli, procs
<1>3. TypeOK'
    BY <1>2 DEF IInv, TypeOK, kernel_task_cli, timer, RunningPC
<1> QED
    BY <1>1, <1>2, <1>3, QuietStep DEF Booted

LEMMA KernelBodyStep ==
    ASSUME IInv, KernelBody
    PROVE  Good
<1>1. CASE task_confirm
    BY <1>1, AtFacts, KillStep DEF task_confirm, RunningPC
<1>2. CASE kernel_task_end
    BY <1>2, AtFacts, KillStep DEF kernel_task_end, RunningPC
<1> QED
    BY <1>1, <1>2, IdleSteps, KernelTaskCli DEF KernelBody

\* The calls of a client that end in _kill.
LEMMA ClientKills ==
    ASSUME IInv, Client, _kill
    PROVE  Good
BY AtFacts, KillStep DEF Client, RunningPC

LEMMA CreateProcess ==
    ASSUME IInv, createProcess
    PROVE  Good
<1> DEFINE n == lpid + 1
<1>1. Booted /\ cp \in Listed /\ current_directory = cp
    BY AtFacts DEF createProcess, Client, RunningPC
<1>2. /\ ready_queue = IDLE /\ Listed = ChainFrom(IDLE, next)
      /\ Listed \in SUBSET Pid /\ IDLE \in Listed
    BY <1>1, ListedFacts
<1>3. /\ \A q \in Listed : q <= lpid
      /\ lpid \in Nat /\ MaxPid \in Nat
    BY <1>1, PidFacts DEF IInv, ListInv, TypeOK
<1>4. n \in Pid
    BY <1>3 DEF createProcess, Pid
<1>5. n \notin Listed /\ n # IDLE
    BY <1>2, <1>3, PidFacts
<1>6. next' \in [Pid -> Ptr] /\ \A q \in Listed : next'[q] = next[q] /\ mem'[q] = mem[q]
    BY <1>2, <1>5 DEF createProcess, IInv, TypeOK, Ptr
<1>7. next \in [Pid -> Ptr] /\ IDLE \in Pid
    BY PidFacts DEF IInv, TypeOK
<1>8. ChainFrom(IDLE, next') = ChainFrom(IDLE, next)
    BY <1>2, <1>6, <1>7, ChainAgree
<1>9. Listed' = Listed
    BY <1>2, <1>8 DEF Listed, createProcess
<1>10. TypeOK'
    BY <1>3, <1>4, <1>6 DEF createProcess, IInv, TypeOK, timer, Ptr, RunningPC, Pid
<1>11. ListInv'
  <2>1. \A q \in Listed : q <= lpid'
      BY <1>2, <1>3, PidFacts DEF createProcess
  <2> QED
      BY <1>1, <1>6, <1>9, <2>1 DEF createProcess, IInv, ListInv
<1>12. CpuInv'
  <2>1. /\ reg' = n /\ lpid' = n /\ pc' = "created"
        /\ mem'[n] = "allocated" /\ next'[n] = NULL
      BY <1>4 DEF createProcess, IInv, TypeOK
  <2> QED
      BY <1>1, <1>4, <1>5, <1>9, <2>1 DEF createProcess, CpuInv, RunningPC
<1>13. IdleInv'
    BY <1>5, <1>7 DEF createProcess, IInv, TypeOK, IdleInv
<1> QED
    BY <1>9, <1>10, <1>11, <1>12, <1>13 DEF Good, Leaves, IInv

LEMMA AddProcess ==
    ASSUME IInv, __addProcess
    PROVE  Good
<1>1. Booted /\ cp \in Listed /\ current_directory = cp
    BY PCFacts DEF IInv, CpuInv, __addProcess, RunningPC
<1>2. /\ reg \in Pid /\ reg = lpid /\ reg \notin Listed
      /\ mem[reg] = "allocated" /\ next[reg] = NULL
    BY DEF IInv, CpuInv, __addProcess
<1>3. /\ ready_queue = IDLE /\ Listed \in SUBSET Pid
      /\ \A q \in Listed : q <= lpid
    BY <1>1, ListedFacts DEF IInv, ListInv
<1>4. /\ next' \in [Pid -> Ptr]
      /\ Listed' = Listed \cup {reg}
    BY <1>1, <1>2, <1>3, LinkList DEF __addProcess, Listed
<1>5. /\ Tail \in Listed /\ next[Tail] = NULL
      /\ \A q \in Listed : q <= Tail
      /\ \A q \in Listed : q # Tail => next[q] # NULL
    BY <1>1, TailFacts
<1>6. /\ next'[Tail] = reg /\ next'[reg] = NULL
      /\ \A q \in Listed : q # Tail => next'[q] = next[q]
    BY <1>2, <1>3, <1>5 DEF IInv, TypeOK, __addProcess, LinkedAt
<1>7. TypeOK'
    BY <1>4 DEF IInv, TypeOK, __addProcess, timer, RunningPC
<1>8. \A q \in Listed : q < reg
    BY <1>2, <1>3, PidFacts
<1>9. ListInv'
  <2>1. ASSUME NEW q \in Listed \cup {reg}
        PROVE  /\ mem'[q] = "allocated"
               /\ q <= lpid'
               /\ next'[q] = NULL \/ next'[q] > q
    <3>1. mem'[q] = "allocated" /\ q <= lpid'
        BY <1>1, <1>2, <1>3, PidFacts DEF IInv, ListInv, __addProcess
    <3>2. next'[q] = NULL \/ next'[q] > q
        BY <1>1, <1>2, <1>3, <1>5, <1>6, <1>8, PidFacts DEF IInv, ListInv
    <3> QED
        BY <3>1, <3>2
  <2>2. ASSUME NEW q \in Listed \cup {reg}, NEW r \in Listed \cup {reg}, q < r
        PROVE  next'[q] # NULL /\ next'[q] <= r
    <3>1. q \in Listed
        BY <1>2, <1>3, <1>8, <2>2, PidFacts
    <3>2. CASE q = Tail
      <4>1. r = reg
          BY <1>3, <1>5, <2>2, <3>2, PidFacts
      <4> QED
          BY <1>2, <1>6, <3>2, <4>1, PidFacts
    <3>3. CASE q # Tail /\ r \in Listed
        BY <1>1, <1>6, <2>2, <3>1, <3>3 DEF IInv, ListInv
    <3>4. CASE q # Tail /\ r = reg
      <4>1. next'[q] = next[q] /\ next[q] # NULL /\ next[q] \in Listed
          BY <1>1, <1>5, <1>6, <3>1, <3>4, ListedFacts
      <4> QED
          BY <1>2, <1>3, <1>8, <3>4, <4>1, PidFacts
    <3> QED
        BY <2>2, <3>2, <3>3, <3>4
  <2> QED
      BY <1>3, <1>4, <2>1, <2>2 DEF ListInv, __addProcess
<1>10. CpuInv'
    BY <1>1, <1>4 DEF CpuInv, __addProcess, RunningPC
<1>11. IdleInv'
    BY DEF IInv, IdleInv, __addProcess
<1> QED
    BY <1>4, <1>7, <1>9, <1>10, <1>11 DEF Good, Leaves, IInv

LEMMA LockSteps ==
    ASSUME IInv, \/ addProcess_lock \/ set_task_on \/ is_pid_running_walk
                 \/ tasking_print_all
                 \/ \E pid \in Pid : is_pid_running_lock(pid)
    PROVE  Good
<1>1. pc \in RunningPC
    BY DEF addProcess_lock, set_task_on, is_pid_running_walk, tasking_print_all,
           is_pid_running_lock, Client, At, RunningPC
<1>2. Booted /\ cp \in Listed /\ current_directory = cp
    BY <1>1, PCFacts DEF IInv, CpuInv
<1>3. UNCHANGED <<next, mem, lpid, ready_queue, state, cp, current_directory,
                  task_was_on, enabled>>
    BY DEF addProcess_lock, set_task_on, is_pid_running_walk, tasking_print_all,
           is_pid_running_lock, procs, timer
<1>4. /\ pc' \in {"adding", "entry", "unlocking", "wild", "probing"}
      /\ pc' = "adding" => pc = "created" /\ reg' = reg
    BY DEF addProcess_lock, set_task_on, is_pid_running_walk, tasking_print_all,
           is_pid_running_lock
<1>5. task' \in BOOLEAN /\ iflag' \in BOOLEAN /\ reg' \in Ptr
  <2>1. task' \in BOOLEAN
      BY DEF addProcess_lock, set_task_on, is_pid_running_walk, tasking_print_all,
             is_pid_running_lock, TaskAfter, timer, IInv, TypeOK
  <2>2. iflag' \in BOOLEAN
    <3>1. CASE addProcess_lock \/ set_task_on \/ \E pid \in Pid : is_pid_running_lock(pid)
        BY <3>1 DEF addProcess_lock, set_task_on, is_pid_running_lock, IInv, TypeOK
    <3>2. CASE is_pid_running_walk
      <4>1. iflag' = (reg \in ChainFrom(cp, next))
          BY <3>2, Zenon DEF is_pid_running_walk
      <4> QED
          BY <4>1
    <3>3. CASE tasking_print_all
      <4>1. iflag' = (cp \in ChainFrom(next[cp], next))
          BY <3>3, Zenon DEF tasking_print_all
      <4> QED
          BY <4>1
    <3> QED
        BY <3>1, <3>2, <3>3
  <2>3. reg' \in Ptr
      BY DEF addProcess_lock, set_task_on, is_pid_running_walk, tasking_print_all,
             is_pid_running_lock, Ptr, IInv, TypeOK
  <2> QED
      BY <2>1, <2>2, <2>3
<1>6. TypeOK'
    BY <1>3, <1>4, <1>5 DEF IInv, TypeOK, RunningPC, StoppedPC
<1> QED
    BY <1>2, <1>3, <1>4, <1>6, QuietStep DEF Booted

\* kill() walks forward from a process that is not idle: it never meets idle.
LEMMA WalkMissesIdle ==
    ASSUME IInv, Booted, cp \in Listed, cp # IDLE
    PROVE  IDLE \notin KillWalk
<1> DEFINE S == {q \in Listed : q >= cp}
<1>1. /\ Listed \in SUBSET Pid /\ cp \in Nat
      /\ \A q \in Listed : next[q] \in Ptr /\ (next[q] # NULL => next[q] \in Listed)
      /\ \A q \in Listed : next[q] = NULL \/ next[q] > q
    BY ListedFacts, PidFacts DEF IInv, ListInv
<1>2. S \in SUBSET Pid /\ cp \in S
  <2>1. cp >= cp
      BY <1>1
  <2> QED
      BY <1>1, <2>1, Zenon
<1>3. ASSUME NEW r \in S, next[r] # NULL PROVE next[r] \in S
  <2>1. r \in Listed /\ r >= cp /\ next[r] \in Listed /\ next[r] > r
      BY <1>1, <1>3
  <2>2. r \in Nat /\ next[r] \in Nat
      BY <1>1, <2>1, PidFacts
  <2>3. next[r] >= cp
      BY <1>1, <2>1, <2>2
  <2> QED
      BY <2>1, <2>3
<1>4. KillWalk \subseteq S
    BY <1>2, <1>3, ChainLeast DEF KillWalk, Closed
<1>5. IDLE \notin S
    BY <1>1, <1>2, PidFacts
<1> QED
    BY <1>4, <1>5

LEMMA KillOther ==
    ASSUME IInv, NEW pid \in Pid, kill_other(pid)
    PROVE  Good
<1>1. Booted /\ cp \in Listed /\ cp # IDLE
    BY AtFacts DEF kill_other, Client, RunningPC
<1>2. Listed' = Listed /\ ListInv'
    BY <1>1, ListKept DEF kill_other, IInv
<1>3. TypeOK'
    BY DEF kill_other, IInv, TypeOK, timer
<1>4. CpuInv'
    BY <1>2 DEF kill_other, IInv, CpuInv
<1>5. IdleInv'
    BY <1>1, WalkMissesIdle DEF kill_other, IInv, TypeOK, IdleInv
<1> QED
    BY <1>2, <1>3, <1>4, <1>5 DEF Good, Leaves, IInv

LEMMA StutterStep ==
    ASSUME IInv, UNCHANGED vars
    PROVE  Good
<1>1. Listed' = Listed
    BY DEF vars, Listed
<1> QED
    BY <1>1 DEF Good, Leaves, IInv, TypeOK, ListInv, CpuInv, IdleInv, Booted, vars

LEMMA ClientBodyStep ==
    ASSUME IInv, ClientBody
    PROVE  Good
<1>1. CASE client_exit
    BY <1>1, ClientKills DEF client_exit
<1>2. CASE \E sig \in Fatal \cup {"other"} : send_sig(sig)
    BY <1>2, ClientKills, StutterStep DEF send_sig
<1>3. CASE \E pid \in Pid : kill_self(pid)
    BY <1>3, ClientKills DEF kill_self
<1>4. CASE \E pid \in Pid : kill_other(pid)
    BY <1>4, KillOther
<1> QED
    BY <1>1, <1>2, <1>3, <1>4, CreateProcess, AddProcess, LockSteps DEF ClientBody

-----------------------------------------------------------------------------
(* Theorems                                                                *)

LEMMA InitIInv == Init => IInv
<1> SUFFICES ASSUME Init PROVE IInv
    OBVIOUS
<1>1. lpid \in 0 .. MaxPid
    BY PidFacts DEF Init
<1>2. TypeOK
    BY <1>1 DEF Init, TypeOK, Ptr
<1> QED
    BY <1>2, PidFacts DEF Init, IInv, ListInv, CpuInv, IdleInv, Booted, RunningPC

LEMMA StepGood == IInv /\ [Next]_vars => Good
<1> SUFFICES ASSUME IInv, [Next]_vars PROVE Good
    OBVIOUS
<1>1. CASE Next
  <2>1. CASE Interrupt
      BY <2>1, TimerCallback, KeyboardCallback DEF Interrupt
  <2>2. CASE Switch
      BY <2>2, ScheduleNext, ScheduleWrap, ScheduleLoad DEF Switch
  <2> QED
      BY <1>1, <2>1, <2>2, InitialiseTasking, KernelBodyStep, ClientBodyStep DEF Next
<1>2. CASE UNCHANGED vars
    BY <1>2, StutterStep
<1> QED
    BY <1>1, <1>2

LEMMA Invariance == Spec => []IInv
<1>1. IInv /\ [Next]_vars => IInv'
    BY StepGood DEF Good
<1> QED
    BY <1>1, InitIInv, PTL DEF Spec

\* Every variable keeps its type through every interleaving of task.c, the
\* timer and the keyboard handler.
THEOREM TypeCorrect == Spec => []TypeOK
<1>1. IInv => TypeOK
    BY DEF IInv
<1> QED
    BY <1>1, Invariance, PTL

\* However processes create, signal and kill each other, __addProcess and the
\* loop of _kill keep the ready list headed by idle, ordered, complete and
\* made of live heap blocks.
THEOREM ListCorrect == Spec => []ListSound
<1>1. IInv => ListSound
    BY DEF IInv, ListInv, ListSound
<1> QED
    BY <1>1, Invariance, PTL

\* Neither kill() nor _kill nor a signal ever removes, marks or halts idle.
THEOREM IdleCorrect == Spec => []IdleProtected
<1>1. IInv => IdleProtected
    BY ListedFacts DEF IInv, IdleInv, CpuInv, IdleProtected
<1> QED
    BY <1>1, Invariance, PTL

\* The CPU runs only listed, live processes, each with its own page directory.
THEOREM RunsCorrect == Spec => []RunsListed
<1>1. IInv => RunsListed
    BY PCFacts DEF IInv, CpuInv, ListInv, RunsListed
<1> QED
    BY <1>1, Invariance, PTL

\* Only a process's own _kill takes it off the list.
THEOREM LeavesCorrect == Spec => LeavesByOwnKill
<1>1. IInv /\ [Next]_vars =>
        [Listed \ Listed' = {} \/ (Listed \ Listed' = {cp} /\ pc' = "sched_next")]_vars
    BY StepGood DEF Good, Leaves
<1> QED
    BY <1>1, Invariance, PTL DEF Spec, LeavesByOwnKill

\* Preemption is off only inside the set_task(0) .. set_task(1) sections.
\* A tick cannot interrupt such a section, because it does nothing while
\* task is clear, and _kill does not leave one: it ends in set_task(1).
LEMMA PreemptionKill ==
    ASSUME PreemptionRestored, cp # IDLE, _kill
    PROVE  PreemptionRestored'
BY DEF PreemptionRestored, _kill, killBody, TaskAfter

LEMMA PreemptionStep ==
    ASSUME IInv, PreemptionRestored, [Next]_vars
    PROVE  PreemptionRestored'
<1>1. CASE UNCHANGED vars
    BY <1>1 DEF PreemptionRestored, vars
<1>2. CASE initialise_tasking \/ Interrupt
  <2>1. CASE initialise_tasking
      BY <2>1 DEF PreemptionRestored, initialise_tasking, timer
  <2>2. CASE timer_callback
      BY <2>2 DEF PreemptionRestored, timer_callback, timer
  <2>3. CASE keyboard_callback
      BY <2>3 DEF PreemptionRestored, keyboard_callback, timer
  <2> QED
      BY <1>2, <2>1, <2>2, <2>3 DEF Interrupt
<1>3. CASE Switch
    BY <1>3 DEF PreemptionRestored, Switch, schedule_next, schedule_wrap,
                schedule_load, JumpTo, timer
<1>4. CASE KernelBody
  <2>1. CASE task_confirm
      BY <2>1, AtFacts, PreemptionKill DEF task_confirm, RunningPC
  <2>2. CASE kernel_task_end
      BY <2>2, AtFacts, PreemptionKill DEF kernel_task_end, RunningPC
  <2>3. CASE idle_enable \/ idle_set \/ kernel_task_cli
      BY <2>3 DEF PreemptionRestored, idle_enable, idle_set, kernel_task_cli, At, timer
  <2> QED
      BY <1>4, <2>1, <2>2, <2>3 DEF KernelBody
<1>5. CASE ClientBody
  <2>1. CASE Client /\ _kill
      BY <2>1, AtFacts, PreemptionKill DEF Client, RunningPC
  <2>2. CASE createProcess \/ addProcess_lock \/ __addProcess \/ set_task_on
      BY <2>2 DEF PreemptionRestored, createProcess, addProcess_lock, __addProcess,
                  set_task_on, Client, At, TaskAfter, timer
  <2>3. CASE is_pid_running_walk \/ tasking_print_all
      BY <2>3 DEF PreemptionRestored, is_pid_running_walk, tasking_print_all,
                  Client, At, timer
  <2>4. ASSUME NEW pid \in Pid, is_pid_running_lock(pid) PROVE PreemptionRestored'
      BY <2>4 DEF PreemptionRestored, is_pid_running_lock
  <2>5. ASSUME NEW pid \in Pid, kill_other(pid) PROVE PreemptionRestored'
      BY <2>5 DEF PreemptionRestored, kill_other, timer
  <2> QED
      BY <1>1, <1>5, <2>1, <2>2, <2>3, <2>4, <2>5 DEF ClientBody, client_exit, send_sig, kill_self
<1> QED
    BY <1>1, <1>2, <1>3, <1>4, <1>5 DEF Next

\* No path through task.c leaves preemption switched off.
THEOREM PreemptionCorrect == Spec => []PreemptionRestored
<1>1. Init => PreemptionRestored
    BY DEF Init, PreemptionRestored
<1>2. IInv /\ PreemptionRestored /\ [Next]_vars => PreemptionRestored'
    BY PreemptionStep
<1> QED
    BY <1>1, <1>2, Invariance, PTL DEF Spec

=============================================================================
