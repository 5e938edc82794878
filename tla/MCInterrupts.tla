---------------------------- MODULE MCInterrupts ----------------------------
(* Interrupts for TLC: the handlers the kernel registers.                  *)
EXTENDS Interrupts, TLC

\* init_timer (IRQ0), init_keyboard (IRQ1), init_mouse (IRQ12), page_fault (14).
MCHandlers == (32 :> "switch") @@ (33 :> "return") @@ (44 :> "return")
                @@ (14 :> "halt")

=============================================================================
