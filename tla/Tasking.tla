------------------------------- MODULE Tasking -------------------------------
(***************************************************************************)
(* Multitasking: kernel/cpu/tasking/task.c, kernel/cpu/timer.c, the jump   *)
(* of kernel/cpu/process.asm and the entry points of kernel/kernel.c.      *)
(*                                                                         *)
(* A PROCESS is named by its id.  The scheduler never saves the context it *)
(* leaves: schedule() reloads eip, esp and ebp from the values             *)
(* createProcess stored, so a process restarts at its entry each time it   *)
(* is chosen.  One program counter therefore describes the whole CPU.      *)
(*                                                                         *)
(* Interrupts are taken only while iflag holds.  Code between cli and sti, *)
(* and an interrupt handler (all gates clear IF), is one step; code that   *)
(* runs with IF set is cut at every access to shared state.                *)
(***************************************************************************)
EXTENDS Integers

CONSTANTS
    MaxPid,   \* bound on the number of processes ever created
    NBoot,    \* processes created by initialise_tasking (3 in the code)
    Program   \* the body each process runs

NULL == 0
IDLE == 1      \* the process kill() and _kill() refuse to remove
Pid  == 1 .. MaxPid

Bodies == {"idle_thread", "task_confirm", "kernel_task", "client"}

ASSUME BoundAssumption == /\ MaxPid \in Nat
                          /\ NBoot \in 1 .. MaxPid
ASSUME ProgramAssumption == /\ Program \in [Pid -> Bodies]
                            /\ \A p \in Pid :
                                  Program[p] = "idle_thread" <=> p = IDLE

VARIABLES
    next,              \* PROCESS.next
    state,             \* PROCESS.state
    mem,               \* what the heap block of each PROCESS is
    lpid,              \* last id handed out
    ready_queue, cp,   \* head of the list, current process
    current_directory, \* id of the process whose page_directory is loaded
    task, task_was_on, \* timer.c: preemption on now, tasking ever enabled
    enabled,           \* __enabled
    iflag,             \* EFLAGS.IF
    pc,                \* where the CPU is
    reg                \* the local variable of the API call in progress

procs == <<next, state, mem, lpid>>
timer == <<task, task_was_on>>
vars  == <<next, state, mem, lpid, ready_queue, cp, current_directory,
           task, task_was_on, enabled, iflag, pc, reg>>

Ptr == Pid \cup {NULL}

\* A process is executing its own body or an API function it called.
RunningPC == {"entry", "idle_enabled", "idle_loop", "kernel_cli",
              "created", "adding", "probing", "unlocking"}
\* _kill has finished and schedule() runs in process context, IF set.
SwitchPC  == {"sched_next", "sched_wrap", "sched_load"}
\* The CPU no longer runs kernel code: halted for good, or executing from a
\* pointer that is not a PROCESS (in practice the page_fault handler's loop).
StoppedPC == {"halt", "wild"}

TypeOK ==
    /\ next \in [Pid -> Ptr]
    /\ state \in [Pid -> {"ALIVE", "ZOMBIE"}]
    /\ mem \in [Pid -> {"none", "allocated", "freed", "reused"}]
    /\ lpid \in 0 .. MaxPid
    /\ ready_queue \in Ptr
    /\ cp \in Ptr
    /\ current_directory \in Ptr
    /\ task \in BOOLEAN
    /\ task_was_on \in BOOLEAN
    /\ enabled \in BOOLEAN
    /\ iflag \in BOOLEAN
    /\ pc \in {"boot"} \cup RunningPC \cup SwitchPC \cup StoppedPC
    /\ reg \in Ptr

-----------------------------------------------------------------------------
(* The list.  A walk "p = p->next" from p visits ChainFrom(p): the least   *)
(* set that holds p and the successor of each of its members.              *)

Closed(S, nx) == \A r \in S : nx[r] # NULL => nx[r] \in S

ChainFrom(p, nx) ==
    LET Walks == {S \in SUBSET Pid : p \in S /\ Closed(S, nx)}
    IN  IF p = NULL THEN {} ELSE {q \in Pid : \A S \in Walks : q \in S}

Listed == ChainFrom(ready_queue, next)

\* __addProcess: walk to the last element and link p behind it.
Tail     == CHOOSE t \in Listed : next[t] = NULL
LinkedAt_NoWalk(p) == [next EXCEPT ![ready_queue] = p]  \* fault: no walk
LinkedAt(p) == [next EXCEPT ![Tail] = p]

\* The loop of _kill: every element whose successor is cp skips it.
Unlinked_Dropped == next                   \* fault: the loop links nothing
Unlinked == [q \in Pid |-> IF q \in Listed /\ next[q] = cp THEN next[cp]
                                                          ELSE next[q]]

\* schedule: "If we're at the end, start over again".
Successor_NoWrap(q) == q                   \* fault: the end is not tested
Successor_Restart(q) == ready_queue        \* fault: starts over every time
Successor(q) == IF q = NULL THEN ready_queue ELSE q

\* set_task has no effect until enable_task was called once.
TaskAfter(i) == IF task_was_on THEN i ELSE task

\* A PROCESS whose fields can still be read: freed memory keeps its bytes
\* until the heap hands the block out again.
Readable(p) == p # NULL /\ mem[p] # "reused"

-----------------------------------------------------------------------------
(* initialise_tasking runs with IF clear, from kernel_main; it creates the *)
(* boot processes in order, links them and enters the first one.           *)

Init ==
    /\ next = [p \in Pid |-> NULL]
    /\ state = [p \in Pid |-> "ALIVE"]
    /\ mem = [p \in Pid |-> "none"]
    /\ lpid = 0
    /\ ready_queue = NULL
    /\ cp = NULL
    /\ current_directory = NULL
    /\ task = FALSE
    /\ task_was_on = FALSE
    /\ enabled = FALSE
    /\ iflag = FALSE
    /\ pc = "boot"
    /\ reg = NULL

\* jump_to_ecx(cp->eip, cp->page_directory, ...): cli, load cr3, sti, jump.
JumpTo(p) ==
    /\ current_directory' = p
    /\ iflag' = TRUE
    /\ pc' = "entry"
    /\ reg' = NULL

BootLinks_Open == [p \in Pid |-> p + 1]    \* fault: next of the last not cleared
BootLinks == [p \in Pid |-> IF p < NBoot THEN p + 1 ELSE NULL]

initialise_tasking ==
    /\ pc = "boot"
    /\ lpid' = NBoot
    /\ mem' = [p \in Pid |-> IF p <= NBoot THEN "allocated" ELSE "none"]
    /\ next' = BootLinks
    /\ cp' = IDLE
    /\ ready_queue' = IDLE
    /\ JumpTo(IDLE)
    /\ UNCHANGED <<state, timer, enabled>>

-----------------------------------------------------------------------------
(* Interrupts                                                              *)

\* timer_callback with task set calls schedule() inside the interrupt, so
\* the whole choice is one step.  With task clear a tick changes nothing here.
timer_callback ==
    /\ iflag
    /\ task
    /\ pc \notin StoppedPC
    /\ IF Readable(cp)
         THEN /\ cp' = Successor(next[cp])
              /\ JumpTo(Successor(next[cp]))
         ELSE /\ pc' = "wild"
              /\ iflag' = FALSE
              /\ UNCHANGED <<cp, current_directory, reg>>
    /\ UNCHANGED <<procs, ready_queue, timer, enabled>>

\* keyboard_callback -> user_input -> shell_command may kmalloc; the block it
\* gets can be the PROCESS that _kill has just freed.  (The reuse of any other
\* freed PROCESS cannot be observed: only cp still points to one.)
keyboard_callback ==
    /\ iflag
    /\ pc \notin StoppedPC
    /\ cp # NULL
    /\ mem[cp] = "freed"
    /\ mem' = [mem EXCEPT ![cp] = "reused"]
    /\ UNCHANGED <<next, state, lpid, ready_queue, cp, current_directory,
                   timer, enabled, iflag, pc, reg>>

-----------------------------------------------------------------------------
(* _kill: everything up to sti is one step; on idle it never returns.      *)

killBody ==
    IF cp = IDLE
    THEN /\ task' = TaskAfter(FALSE)
         /\ iflag' = FALSE
         /\ pc' = "halt"
         /\ UNCHANGED <<procs, task_was_on>>
    ELSE /\ next' = Unlinked
         /\ mem' = [mem EXCEPT ![cp] = "freed"]
         /\ task' = TaskAfter(TRUE)
         /\ iflag' = TRUE
         /\ pc' = "sched_next"
         /\ UNCHANGED <<state, lpid, task_was_on>>

_kill ==
    /\ killBody
    /\ reg' = NULL
    /\ UNCHANGED <<ready_queue, cp, current_directory, enabled>>

\* schedule() called by _kill, cut at each access to cp: cp = cp->next;
schedule_next ==
    /\ pc = "sched_next"
    /\ IF Readable(cp)
         THEN /\ cp' = next[cp]
              /\ pc' = "sched_wrap"
              /\ UNCHANGED iflag
         ELSE /\ pc' = "wild"
              /\ iflag' = FALSE
              /\ UNCHANGED cp
    /\ UNCHANGED <<procs, ready_queue, current_directory, timer, enabled, reg>>

\* if(!cp) cp = ready_queue;
schedule_wrap ==
    /\ pc = "sched_wrap"
    /\ cp' = Successor(cp)
    /\ pc' = "sched_load"
    /\ UNCHANGED <<procs, ready_queue, current_directory, timer, enabled,
                   iflag, reg>>

\* current_directory = cp->page_directory; jump_to_ecx(...)
schedule_load ==
    /\ pc = "sched_load"
    /\ JumpTo(cp)
    /\ UNCHANGED <<procs, ready_queue, cp, timer, enabled>>

-----------------------------------------------------------------------------
(* The bodies of the kernel's own processes                                *)

At(label, body) == pc = label /\ cp # NULL /\ Program[cp] = body

\* enable_task() restarts preemption each time idle is entered.
idle_enable ==
    /\ At("entry", "idle_thread")
    /\ task_was_on' = TRUE
    /\ task' = TRUE
    /\ pc' = "idle_enabled"
    /\ UNCHANGED <<procs, ready_queue, cp, current_directory, enabled, iflag,
                   reg>>

idle_set ==
    /\ At("idle_enabled", "idle_thread")
    /\ enabled' = TRUE
    /\ pc' = "idle_loop"
    /\ UNCHANGED <<procs, ready_queue, cp, current_directory, timer, iflag, reg>>

task_confirm ==
    /\ At("entry", "task_confirm")
    /\ _kill

kernel_task_cli ==
    /\ At("entry", "kernel_task")
    /\ iflag' = FALSE
    /\ pc' = "kernel_cli"
    /\ UNCHANGED <<procs, ready_queue, cp, current_directory, timer, enabled,
                   reg>>

kernel_task_end ==
    /\ At("kernel_cli", "kernel_task")
    /\ _kill

-----------------------------------------------------------------------------
(* The API of task.h, called by a process whose body is "client".          *)

Client == At("entry", "client")

\* A client returns from its body: it has to leave through _kill.
client_exit == Client /\ _kill

\* send_sig -> __notified: the three known signals end in _kill (a missing
\* break makes no difference, _kill does not return), others return.
Fatal == {"SIG_ILL", "SIG_TERM", "SIG_SEGV"}

send_sig(sig) ==
    /\ Client
    /\ IF sig \in Fatal THEN _kill ELSE UNCHANGED vars

createProcess ==
    /\ Client
    /\ lpid < MaxPid
    /\ lpid' = lpid + 1
    /\ mem' = [mem EXCEPT ![lpid + 1] = "allocated"]
    /\ state' = [state EXCEPT ![lpid + 1] = "ALIVE"]
    /\ next' = [next EXCEPT ![lpid + 1] = NULL]
    /\ reg' = lpid + 1
    /\ pc' = "created"
    /\ UNCHANGED <<ready_queue, cp, current_directory, timer, enabled, iflag>>

\* addProcess: set_task(0); __addProcess(p); set_task(1).
addProcess_lock ==
    /\ pc = "created"
    /\ task' = TaskAfter(FALSE)
    /\ pc' = "adding"
    /\ UNCHANGED <<procs, ready_queue, cp, current_directory, task_was_on,
                   enabled, iflag, reg>>

__addProcess ==
    /\ pc = "adding"
    /\ next' = LinkedAt(reg)
    /\ pc' = "unlocking"
    /\ UNCHANGED <<state, mem, lpid, ready_queue, cp, current_directory,
                   timer, enabled, iflag, reg>>

\* Fault: preemption is not switched on again.
set_task_on_Dropped ==
    /\ pc = "unlocking"
    /\ pc' = "entry"
    /\ reg' = NULL
    /\ UNCHANGED <<procs, ready_queue, cp, current_directory, timer, enabled,
                   iflag>>

set_task_on ==
    /\ pc = "unlocking"
    /\ task' = TaskAfter(TRUE)
    /\ pc' = "entry"
    /\ reg' = NULL
    /\ UNCHANGED <<procs, ready_queue, cp, current_directory, task_was_on,
                   enabled, iflag>>

\* is_pid_running walks from cp until it meets cp again; the list ends in
\* NULL, so a pid that is not behind cp sends the walk through address 0.
is_pid_running_lock(pid) ==
    /\ Client
    /\ task' = TaskAfter(FALSE)
    /\ reg' = pid
    /\ pc' = "probing"
    /\ UNCHANGED <<procs, ready_queue, cp, current_directory, task_was_on,
                   enabled, iflag>>

is_pid_running_walk ==
    /\ pc = "probing"
    /\ pc' = IF reg \in ChainFrom(cp, next) THEN "unlocking" ELSE "wild"
    /\ iflag' = (reg \in ChainFrom(cp, next))
    /\ UNCHANGED <<procs, ready_queue, cp, current_directory, timer, enabled,
                   reg>>

\* tasking_print_all has the same walk and no other way out.
tasking_print_all ==
    /\ Client
    /\ pc' = IF cp \in ChainFrom(next[cp], next) THEN "entry" ELSE "wild"
    /\ iflag' = (cp \in ChainFrom(next[cp], next))
    /\ UNCHANGED <<procs, ready_queue, cp, current_directory, timer, enabled,
                   reg>>

\* Where the walk of kill() starts.
KillWalk_FromHead == Listed                \* fault: starts at ready_queue
KillWalk == ChainFrom(cp, next)

\* kill(pid), pid another process: the walk from cp marks it, if it meets it.
kill_other(pid) ==
    /\ Client
    /\ pid # cp
    /\ state' = IF pid \in KillWalk THEN [state EXCEPT ![pid] = "ZOMBIE"]
                                    ELSE state
    /\ UNCHANGED <<next, mem, lpid, ready_queue, cp, current_directory, timer,
                   enabled, iflag, pc, reg>>

kill_self(pid) ==
    /\ Client
    /\ pid = cp
    /\ _kill

-----------------------------------------------------------------------------
Interrupt == timer_callback \/ keyboard_callback

Switch == schedule_next \/ schedule_wrap \/ schedule_load

KernelBody == \/ idle_enable \/ idle_set
              \/ task_confirm
              \/ kernel_task_cli \/ kernel_task_end

ClientBody ==
    \/ client_exit
    \/ \E sig \in Fatal \cup {"other"} : send_sig(sig)
    \/ createProcess \/ addProcess_lock \/ __addProcess \/ set_task_on
    \/ \E pid \in Pid : \/ is_pid_running_lock(pid)
                        \/ kill_other(pid)
                        \/ kill_self(pid)
    \/ is_pid_running_walk
    \/ tasking_print_all

Next == initialise_tasking \/ Interrupt \/ Switch \/ KernelBody \/ ClientBody

(***************************************************************************)
(* Fairness.  The CPU goes on executing (weak fairness on every step that  *)
(* is not an interrupt).  The PIT keeps ticking and the 8259 latches a     *)
(* tick that arrives while IF is clear, so a process that keeps returning  *)
(* to a state in which a tick would preempt it is preempted at last.       *)
(***************************************************************************)
Fairness ==
    /\ WF_vars(initialise_tasking \/ Switch \/ KernelBody \/ ClientBody)
    /\ SF_vars(timer_callback)

Spec     == Init /\ [][Next]_vars
FairSpec == Spec /\ Fairness

-----------------------------------------------------------------------------
(* Properties                                                              *)

Stopped == pc \in StoppedPC
Booted  == pc # "boot"

\* The ready list is sound: it starts at idle, every PROCESS on it is a live
\* heap block, and its links go from an older process to a younger one and
\* skip no listed process, so that every walk ends and nothing is lost.  This
\* is what _kill's unlinking and __addProcess' append must keep while the
\* timer switches between the processes that call them.
ListSound ==
    Booted =>
          /\ ready_queue = IDLE
          /\ \A q \in Listed : /\ mem[q] = "allocated"
                               /\ next[q] = NULL \/ next[q] > q
          /\ \A q, r \in Listed : q < r => next[q] # NULL /\ next[q] <= r

\* "Idle can't be killed!" (task.c:33 and :84): whatever processes kill or
\* signal, idle stays listed, is never marked ZOMBIE and never runs into the
\* hlt loop of _kill.  kill() does not return after its message, so this rests
\* on idle being the head of a list that kill() only walks forward.
IdleProtected ==
    Booted =>
          /\ IDLE \in Listed
          /\ state[IDLE] = "ALIVE"
          /\ pc # "halt"

\* A process that runs is on the list, is not freed, and its own page
\* directory is the one that is loaded.
RunsListed ==
    pc \in RunningPC => /\ cp \in Listed
                        /\ mem[cp] = "allocated"
                        /\ current_directory = cp

\* Once tasking was enabled preemption is off only inside the set_task(0) ..
\* set_task(1) sections of addProcess and is_pid_running: no path leaves one
\* of them with preemption switched off for everybody.
PreemptionRestored ==
    task_was_on /\ ~task => pc \in {"adding", "probing", "unlocking", "wild"}

\* A process leaves the list only by its own _kill: no other process, tick
\* or append unlinks it.
LeavesByOwnKill ==
    [][Listed \ Listed' = {} \/ (Listed \ Listed' = {cp} /\ pc' = "sched_next")]_vars

\* Round robin: a listed process is entered again, unless it is removed
\* or the kernel stops.
RoundRobin ==
    \A p \in Pid : (p \in Listed /\ Booted)
                      ~> (cp = p /\ pc = "entry") \/ p \notin Listed \/ Stopped

\* "If we're at the end, start over again" (task.c:250): the scheduler always
\* finds a PROCESS to run.
AlwaysFindsProcess == pc = "wild" => cp # NULL

=============================================================================
