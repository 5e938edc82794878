------------------------------ MODULE LineInput ------------------------------
(***************************************************************************)
(* What a line editor promises: the keys typed, less the ones erased, make *)
(* up a line; a line is delivered whole, once, by Enter or when it is full *)
(* and another key arrives, and the next line starts empty.                *)
(***************************************************************************)
EXTENDS Integers, Sequences

CONSTANTS Chars, MAX

VARIABLES line, delivered

Init == line = <<>> /\ delivered = <<>>

Type == Len(line) < MAX /\ \E c \in Chars : line' = Append(line, c)
        /\ UNCHANGED delivered

Erase == line # <<>> /\ line' = SubSeq(line, 1, Len(line) - 1)
         /\ UNCHANGED delivered

Submit == delivered' = line /\ line' = <<>>

\* The key that found the line full starts the next one, if it has a letter.
Overflow == Len(line) = MAX /\ delivered' = line
            /\ (line' = <<>> \/ \E c \in Chars : line' = <<c>>)

Next == Type \/ Erase \/ Submit \/ Overflow

Spec == Init /\ [][Next]_<<line, delivered>>

=============================================================================
