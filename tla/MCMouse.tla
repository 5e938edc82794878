------------------------------ MODULE MCMouse ------------------------------
(* The mouse for TLC: movements at the limits of a signed byte.            *)
EXTENDS Mouse

MCPackets == { <<8, 0, 0>>, <<9, 48, 48>>, <<58, 208, 208>>, <<8, 3, 5>>,
               <<41, 0, 255>>, <<8, 100, 128>> }

\* The last cell, and a cell where a scroll leaves a copy of the pointer.
MCSpots == {Cell(COLS - 1, ROWS - 1), Cell(HOME[1] + 6, ROWS - 7)}

=============================================================================
