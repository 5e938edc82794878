----------------------------- MODULE Interrupts -----------------------------
(***************************************************************************)
(* Interrupt entry, dispatch and return: the stubs of                      *)
(* kernel/cpu/interrupts.asm, isr_handler and irq_handler of               *)
(* kernel/cpu/isr.c, the gates of kernel/cpu/idt.c, and the two 8259 PICs  *)
(* and the CPU's own pushes and pops as the code uses them.                *)
(*                                                                         *)
(* The stack is a sequence of words with the top at the end; a word is     *)
(* named for the register it holds and carries a value where a property    *)
(* needs it.  All code runs in ring 0, so the CPU pushes no ss and esp.    *)
(***************************************************************************)
EXTENDS Integers, Sequences, FiniteSets, SequencesExt

CONSTANTS
    IRQs,        \* lines that devices raise
    Exceptions,  \* vectors the CPU raises by itself
    Handlers,    \* interrupt_handlers: vector -> what its handler does
    MaxDepth,    \* bound on nested exceptions
    MaxExc,      \* bound on the number of exceptions
    MaxRaise     \* bound on how often each line is raised

ASSUME InterruptAssumption ==
    /\ IRQs \subseteq 0 .. 15 \ {2}
    /\ Exceptions \subseteq 0 .. 31
    /\ DOMAIN Handlers \subseteq 0 .. 47
    /\ \A v \in DOMAIN Handlers :
          /\ Handlers[v] \in {"return", "switch", "halt"}
          /\ Handlers[v] = "switch" => v >= 32    \* only irq_handler's do
    /\ {MaxDepth, MaxExc, MaxRaise} \subseteq Nat

VARIABLES
    irr, isr,   \* request and in-service bits of both PICs, by line
    iflag,      \* EFLAGS.IF
    stack,      \* the current stack
    ctx,        \* interrupts in progress, innermost last
    raised,     \* how often each line was raised
    nexc        \* exceptions so far

vars == <<irr, isr, iflag, stack, ctx, raised, nexc>>

Word(name, value) == [name |-> name, value |-> value]
W(name) == Word(name, 0)
Push(s, words) == s \o words
Pop(s, n) == SubSeq(s, 1, Len(s) - n)
Nth(s, n) == s[Len(s) - n]      \* the n-th word from the top, from 0

InMain == ctx = <<>>
Top == Last(ctx)
Stage(stage) == ctx # <<>> /\ Top.stage = stage
SetStage(stage) == [ctx EXCEPT ![Len(ctx)].stage = stage]

-----------------------------------------------------------------------------
(* External: the 8259 pair, fully nested, slave on line 2 of the master.   *)

Slave(i) == i >= 8
MasterLine(i) == IF Slave(i) THEN 2 ELSE i

\* A line is presented if nothing of its or a higher priority is in service.
Presented(i) ==
    /\ i \in irr
    /\ \A j \in isr : /\ ~Slave(j) => MasterLine(i) < j
                      /\ Slave(j) /\ Slave(i) => i < j
    /\ \A j \in irr : \/ MasterLine(i) < MasterLine(j)
                      \/ MasterLine(i) = MasterLine(j) /\ i <= j

\* INTA marks the line in service, a slave line in both PICs (2 is the cascade).
Acknowledged(i) == isr \cup {i, MasterLine(i)}

Highest(S) == CHOOSE i \in S : \A j \in S : i <= j
\* A non-specific EOI clears the highest priority bit of one PIC.
EoiMaster(S) == LET M == {i \in S : ~Slave(i)}
                IN  IF M = {} THEN S ELSE S \ {Highest(M)}
EoiSlave(S)  == LET M == {i \in S : Slave(i)}
                IN  IF M = {} THEN S ELSE S \ {Highest(M)}

-----------------------------------------------------------------------------
(* External: the CPU.  An interrupt through a 0x8E gate clears IF.         *)

ErrorCodeVectors == {8, 10, 11, 12, 13, 14, 17, 21}

CpuFrame == <<Word("eflags", IF iflag THEN 1 ELSE 0), W("cs"), W("eip")>>

CpuPush(vector, cause) ==
    IF cause = "exception" /\ vector \in ErrorCodeVectors
    THEN Append(CpuFrame, Word("err_code", vector))
    ELSE CpuFrame

Enter(vector, cause) ==
    /\ stack' = Push(stack, CpuPush(vector, cause))
    /\ ctx' = Append(ctx, [vector |-> vector, stage |-> "stub",
                           base |-> Len(stack)])
    /\ iflag' = FALSE

-----------------------------------------------------------------------------
(* The stubs                                                               *)

\* isr8, isr10 .. isr14, isr17 and isr21 push no dummy; all others do, and the
\* irq stubs push the line in its place.
PushesDummy_Old(vector) == vector \notin {8, 10, 11, 12, 13, 14, 17}  \* fault: 21
PushesDummy(vector) == vector \notin {8, 10, 11, 12, 13, 14, 17, 21}

StubNumbers(vector) ==
    (IF PushesDummy(vector)
     THEN <<Word("err_code", IF vector >= 32 THEN vector - 32 ELSE 0)>>
     ELSE <<>>)
    \o <<Word("int_no", vector)>>

Pusha == <<W("eax"), W("ecx"), W("edx"), W("ebx"), W("useless"), W("ebp"),
           W("esi"), W("edi")>>

\* isr_common_stub and irq_common_stub up to the call: pusha, ds, pointer.
CommonPush == Pusha \o <<W("ds")>>

\* registers_t, from the pointer that was pushed towards higher addresses.
registers_t == <<"ds", "edi", "esi", "ebp", "useless", "ebx", "edx", "ecx",
                 "eax", "int_no", "err_code", "eip", "cs", "eflags">>

\* r->field: the word at the field's offset from the pushed pointer.
Offset(field) == CHOOSE k \in 1 .. Len(registers_t) : registers_t[k] = field
RegsWord(field) == Nth(stack, Offset(field))
RegsField(field) == RegsWord(field).value

-----------------------------------------------------------------------------
Init ==
    /\ irr = {}
    /\ isr = {}
    /\ iflag = FALSE
    /\ stack = <<>>
    /\ ctx = <<>>
    /\ raised = [i \in IRQs |-> 0]
    /\ nexc = 0

\* A device raises its line; a line that is already requested stays requested.
raise(i) ==
    /\ raised[i] < MaxRaise
    /\ raised' = [raised EXCEPT ![i] = @ + 1]
    /\ irr' = irr \cup {i}
    /\ UNCHANGED <<isr, iflag, stack, ctx, nexc>>

accept(i) ==
    /\ iflag
    /\ Presented(i)
    /\ irr' = irr \ {i}
    /\ isr' = Acknowledged(i)
    /\ Enter(32 + i, "irq")
    /\ UNCHANGED <<raised, nexc>>

exception(vector) ==
    /\ Len(ctx) < MaxDepth
    /\ nexc < MaxExc
    /\ ~Stage("halted")
    /\ nexc' = nexc + 1
    /\ Enter(vector, "exception")
    /\ UNCHANGED <<irr, isr, raised>>

\* schedule_noirq: int $0x2E enters the stub of IRQ14.  (It returns at once
\* while tasking is not enabled; here process code may call it at any time.)
schedule_noirq ==
    /\ InMain
    /\ Enter(46, "int")
    /\ UNCHANGED <<irr, isr, raised, nexc>>

\* The code that runs outside of interrupts uses cli and sti.
main_cli == InMain /\ iflag /\ iflag' = FALSE
                   /\ UNCHANGED <<irr, isr, stack, ctx, raised, nexc>>
main_sti == InMain /\ ~iflag /\ iflag' = TRUE
                   /\ UNCHANGED <<irr, isr, stack, ctx, raised, nexc>>

\* isr<n> / irq<n> and the common stub up to the call of the C handler.
stub_enter ==
    /\ Stage("stub")
    /\ stack' = Push(stack, StubNumbers(Top.vector) \o CommonPush
                              \o <<Word("pointer", Len(stack))>>)
    /\ ctx' = SetStage(IF Top.vector < 32 THEN "handler" ELSE "eoi")
    /\ UNCHANGED <<irr, isr, iflag, raised, nexc>>

\* irq_handler: EOI to the slave if int_no >= 40, to the master always.
EoiTo_Master(int_no) == EoiMaster(isr)     \* fault: the slave is forgotten
EoiTo_None(int_no) == isr                  \* fault: left to the handler's return
EoiTo(int_no) == EoiMaster(IF int_no >= 40 THEN EoiSlave(isr) ELSE isr)

irq_handler_eoi ==
    /\ Stage("eoi")
    /\ isr' = EoiTo(RegsField("int_no"))
    /\ ctx' = SetStage("handler")
    /\ UNCHANGED <<irr, iflag, stack, raised, nexc>>

\* isr_handler, and irq_handler after the EOI, call the handler registered for
\* int_no, if there is one.  A handler may return, switch to another process
\* for good (timer_callback: schedule never returns and reloads esp; it is
\* only taken from process code) or halt (page_fault).
HandlerOf(int_no) == IF int_no \in DOMAIN Handlers THEN Handlers[int_no]
                                                  ELSE "return"

handler_return ==
    /\ Stage("handler")
    /\ HandlerOf(RegsField("int_no")) # "halt"
    /\ ctx' = SetStage("leave")
    /\ UNCHANGED <<irr, isr, iflag, stack, raised, nexc>>

handler_switch ==
    /\ Stage("handler")
    /\ HandlerOf(RegsField("int_no")) = "switch"
    /\ stack' = <<>>
    /\ ctx' = <<>>
    /\ iflag' = TRUE
    /\ UNCHANGED <<irr, isr, raised, nexc>>

handler_halt ==
    /\ Stage("handler")
    /\ HandlerOf(RegsField("int_no")) = "halt"
    /\ ctx' = SetStage("halted")
    /\ UNCHANGED <<irr, isr, iflag, stack, raised, nexc>>

\* pop pointer, pop ds, popa, add esp 8: what iret finds on the stack.
Unwound_KeepsNumbers == Pop(stack, 1 + 1 + 8)  \* fault: no add esp, 8
Unwound == Pop(stack, 1 + 1 + 8 + 2)

\* iret pops eip, cs and eflags.
stub_leave ==
    /\ Stage("leave")
    /\ stack' = Pop(Unwound, 3)
    /\ iflag' = (Nth(Unwound, 2).value = 1)
    /\ ctx' = Front(ctx)
    /\ UNCHANGED <<irr, isr, raised, nexc>>

Device == \E i \in IRQs : raise(i)
Cpu ==
    \/ \E i \in IRQs : accept(i)
    \/ stub_enter \/ irq_handler_eoi
    \/ handler_return \/ handler_switch \/ handler_halt
    \/ stub_leave
Next ==
    \/ Device \/ Cpu
    \/ \E vector \in Exceptions : exception(vector)
    \/ schedule_noirq
    \/ main_cli \/ main_sti

(***************************************************************************)
(* Fairness: the CPU executes the stubs and handlers, and takes a          *)
(* presented line in the end if IF is set again and again (weak fairness   *)
(* would let cli win each time; the line stays requested and is taken at   *)
(* the first instruction with IF set).  Code that clears IF sets it again: *)
(* the kernel's cli is followed, without a loop that interrupts itself,    *)
(* by the sti of _kill or jump_to_ecx.  A fault that recurs for ever with  *)
(* IF clear is excluded by MaxExc.                                         *)
(***************************************************************************)
Spec == Init /\ [][Next]_vars
FairSpec == /\ Spec
            /\ WF_vars(stub_enter \/ irq_handler_eoi \/ stub_leave
                        \/ handler_return \/ handler_switch \/ handler_halt)
            /\ SF_vars(main_sti)
            /\ SF_vars(\E i \in IRQs : accept(i))

-----------------------------------------------------------------------------
(* Properties                                                              *)

\* "we will push a dummy error code for those which don't, so that we have a
\* consistent stack for all of them" (interrupts.asm:75): whatever interrupted
\* what, a C handler that reads registers_t finds in every field the register
\* of that name, and in int_no the vector that was entered.
ConsistentFrame ==
    (Stage("eoi") \/ Stage("handler")) =>
        /\ \A k \in 1 .. Len(registers_t) :
              RegsWord(registers_t[k]).name = registers_t[k]
        /\ RegsField("int_no") = Top.vector

\* iret takes the three words the CPU pushed and leaves the stack of the
\* interrupted code as it was, at every level of nesting.
BalancedReturn ==
    Stage("leave") =>
        /\ Len(Unwound) = Top.base + 3
        /\ <<Nth(Unwound, 0).name, Nth(Unwound, 1).name, Nth(Unwound, 2).name>>
              = <<"eip", "cs", "eflags">>

\* No line is in service while interrupts are on: an EOI is never missing,
\* even when the timer's handler switches process and never returns, so that
\* no line is blocked for ever.
NothingInService == iflag => isr = {}

\* A raised line is taken, unless the kernel halts in page_fault.
Halted == \E k \in DOMAIN ctx : ctx[k].stage = "halted"
Served == \A i \in IRQs : i \in irr ~> (i \notin irr \/ Halted)

=============================================================================
