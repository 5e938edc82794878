------------------------------ MODULE MCTasking ------------------------------
(* Tasking for TLC: the processes of this kernel, and API clients.         *)
EXTENDS Tasking

\* The processes of initialise_tasking, followed by clients of task.h.
MCProgram ==
    [p \in Pid |-> CASE p = 1 -> "idle_thread"
                     [] p = 2 -> "task_confirm"
                     [] p = 3 -> "kernel_task"
                     [] OTHER -> "client"]

=============================================================================
