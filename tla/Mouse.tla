------------------------------- MODULE Mouse -------------------------------
(***************************************************************************)
(* kernel/drivers/mouse.c: packets of three bytes assembled by the IRQ12   *)
(* handler, the pointer's int8_t coordinates, and the cell it inverts.     *)
(*                                                                         *)
(* The PS/2 device is external: it sends whole packets, but its bytes may  *)
(* get lost (the restart command empties the controller's buffer), and its *)
(* acknowledgement of 0xF4 may arrive after init_mouse has looked for it.  *)
(* Of the screen driver (kernel/drivers/screen.c) only what it does to the *)
(* colours of the cells is kept: put_char writes a cell with the normal    *)
(* ones, scroll_up moves them up a row and leaves the last row with        *)
(* attribute 0, clear_screen makes all of them normal.  Each of the three  *)
(* is one step, as it is for the keyboard handler, which runs with IF clear.*)
(***************************************************************************)
EXTENDS Integers, Sequences, FiniteSets

CONSTANTS
    COLS, ROWS,   \* 80, 25
    BYTE,         \* 256
    ACK,          \* 0xFA
    Packets,      \* what the device sends: <<buttons, dx, dy>>, bytes
    SLOW,         \* the fastest movement that the arithmetic supports
    Spots,        \* cells that are printed, besides the pointer's own
    MaxPackets, MaxLost, MaxPrints   \* bounds

Screen == 0 .. COLS * ROWS - 1

\* init_mouse sets mouse_y to 39 and mouse_x to 12: below the screen.
HOME == <<12, 39>>

ASSUME MouseAssumption ==
    /\ {COLS, ROWS} \subseteq Nat \ {0}
    /\ {BYTE, ACK, SLOW, MaxPackets, MaxLost, MaxPrints} \subseteq Nat
    /\ ROWS <= HOME[2] /\ BYTE % 2 = 0
    /\ \A c \in {COLS - 1, ROWS - 1, HOME[1], HOME[2]} : c + SLOW < BYTE \div 2
    /\ Spots \subseteq Screen
    /\ Packets \subseteq (0 .. BYTE - 1) \X (0 .. BYTE - 1) \X (0 .. BYTE - 1)

VARIABLES
    offset, buffer, buttons,   \* as in the code
    mouse_x, mouse_y,
    button_state,
    inverted,     \* cells of video memory whose colours are swapped
    black,        \* cells with attribute 0, which a swap leaves as it is
    packet, sent, \* the device: its packet, and how many of its bytes are out
    npackets, nlost, nprints,
    late,         \* history: the acknowledgement came as a packet byte
    fast,         \* history: some movement was faster than SLOW
    want,         \* history: where the device's movements lead to
    marks         \* history: wrong cells that text may have left

vars == <<offset, buffer, buttons, mouse_x, mouse_y, button_state, inverted,
          black, packet, sent, npackets, nlost, nprints, late, fast, want, marks>>

Cell(x, y) == COLS * y + x
int8(v) == LET b == v % BYTE IN IF b < BYTE \div 2 THEN b ELSE b - BYTE

Clamp_OffByOne(v, top) == IF v < 0 THEN 0 ELSE IF v > top + 1 THEN top ELSE v
Clamp(v, top) == IF v < 0 THEN 0 ELSE IF v > top THEN top ELSE v

\* mouse_y -= buffer[2], and the unsigned byte is added modulo 256.
Moved_Right(b) ==                          \* fault: no test for the right edge
    <<IF int8(mouse_x + b[1]) < 0 THEN 0 ELSE int8(mouse_x + b[1]),
      Clamp(int8(mouse_y - b[2]), ROWS - 1)>>
Moved(b) ==
    <<Clamp(int8(mouse_x + b[1]), COLS - 1), Clamp(int8(mouse_y - b[2]), ROWS - 1)>>

\* Swapping the colours twice restores them; black on black stays black.
SymDiff(s, t) == (s \ t) \cup (t \ s)
Swap(cells, c) == SymDiff(cells, {c} \ black)
Redrawn_NoErase(p) == Swap(inverted, Cell(p[1], p[2]))  \* fault: not erased
Redrawn(p) == Swap(Swap(inverted, Cell(mouse_x, mouse_y)), Cell(p[1], p[2]))

\* Bit i of the first byte.
Bit(v, i) == (v \div (2 ^ i)) % 2

\* The old value is kept for a button that changed.
ButtonState(b) == [i \in 0 .. 2 |-> IF Bit(b[0], i) # Bit(buttons, i)
                                    THEN Bit(buttons, i) * 2 ^ i ELSE button_state[i]]

Next3(o) == (o + 1) % 3

\* A byte with the AUX bit set in the controller's status; an interrupt without
\* it returns at once and changes nothing.
mouse_callback(byte) ==
    LET b == [buffer EXCEPT ![offset] = byte]
        whole == Next3(offset) = 0
        moves == whole /\ (b[1] # 0 \/ b[2] # 0)
        p == IF moves THEN Moved(b) ELSE <<mouse_x, mouse_y>>
    IN  /\ buffer' = b
        /\ offset' = Next3(offset)
        /\ mouse_x' = p[1]
        /\ mouse_y' = p[2]
        /\ inverted' = IF moves THEN Redrawn(p) ELSE inverted
        /\ button_state' = IF whole THEN ButtonState(b) ELSE button_state
        /\ buttons' = IF whole THEN b[0] ELSE buttons

-----------------------------------------------------------------------------
(* External: the device.                                                   *)

Signed(d) == IF d < BYTE \div 2 THEN d ELSE d - BYTE
Within(v, top) == IF v < 0 THEN 0 ELSE IF v > top THEN top ELSE v

\* Where the packet moves a pointer whose coordinates have no width.
Reference(p) == IF p[2] = 0 /\ p[3] = 0 THEN want
                ELSE <<Within(want[1] + Signed(p[2]), COLS - 1),
                       Within(want[2] - Signed(p[3]), ROWS - 1)>>

start_packet(p) ==
    /\ sent = 3
    /\ npackets < MaxPackets
    /\ packet' = p /\ sent' = 0
    /\ npackets' = npackets + 1
    /\ want' = Reference(p)
    /\ fast' = (fast \/ \E k \in {2, 3} : Signed(p[k]) \notin -SLOW .. SLOW)
    /\ UNCHANGED <<offset, buffer, buttons, mouse_x, mouse_y, button_state, inverted,
                   black, nlost, nprints, late, marks>>

byte_arrives ==
    /\ sent < 3
    /\ mouse_callback(packet[sent + 1])
    /\ sent' = sent + 1
    /\ UNCHANGED <<black, packet, npackets, nlost, nprints, late, fast, want, marks>>

byte_lost ==
    /\ sent < 3
    /\ nlost < MaxLost
    /\ nlost' = nlost + 1
    /\ sent' = sent + 1
    /\ UNCHANGED <<offset, buffer, buttons, mouse_x, mouse_y, button_state, inverted,
                   black, packet, npackets, nprints, late, fast, want, marks>>

\* init_mouse reads port 0x60 once, whether or not the answer is there.
ack_arrives ==
    /\ npackets = 0 /\ ~late
    /\ late' = TRUE
    /\ mouse_callback(ACK)
    /\ UNCHANGED <<black, packet, sent, npackets, nlost, nprints, fast, want, marks>>

-----------------------------------------------------------------------------
(* screen.c, as far as it changes colours                                  *)

LastCell == COLS * ROWS - 1
LastRow == COLS * (ROWS - 1) .. LastCell
PointerCell == Cell(mouse_x, mouse_y)

\* Each row takes the attributes of the row below it.
Up(cells) == (cells \ Screen) \cup {x - COLS : x \in cells \cap (COLS .. LastCell)}

\* scroll_up when the swapped and the black cells are s and t.
scroll_up(s, t) ==
    /\ inverted' = Up(s)
    /\ black' = Up(t) \cup LastRow

Text(wrong) ==
    /\ nprints < MaxPrints
    /\ nprints' = nprints + 1
    /\ marks' = wrong
    /\ UNCHANGED <<offset, buffer, buttons, mouse_x, mouse_y, button_state, packet,
                   sent, npackets, nlost, late, fast, want>>

\* A character or a backspace is written to cell c; the last cell scrolls.
put_char(c) ==
    IF c = LastCell
    THEN scroll_up(inverted \ {c}, black \ {c}) /\ Text(marks + 2)
    ELSE /\ inverted' = inverted \ {c}
         /\ black' = black \ {c}
         /\ Text(IF c = PointerCell THEN marks + 1 ELSE marks)

\* A line feed or a tab that passes the end of the screen.
put_char_scrolls == scroll_up(inverted, black) /\ Text(marks + 2)

clear_screen ==
    /\ inverted' = inverted \ Screen
    /\ black' = {}
    /\ Text(1)

-----------------------------------------------------------------------------
Init ==
    /\ offset = 0 /\ buttons = 0
    /\ buffer = [i \in 0 .. 2 |-> 0]
    /\ mouse_x = HOME[1] /\ mouse_y = HOME[2]
    /\ button_state = [i \in 0 .. 2 |-> 0]
    /\ inverted = {} /\ black = {}
    /\ packet = <<0, 0, 0>> /\ sent = 3
    /\ npackets = 0 /\ nlost = 0 /\ nprints = 0
    /\ late = FALSE /\ fast = FALSE
    /\ want = HOME
    /\ marks = 0

Next ==
    \/ \E p \in Packets : start_packet(p)
    \/ byte_arrives \/ byte_lost \/ ack_arrives
    \/ \E c \in Spots \cup ({PointerCell} \cap Screen) : put_char(c)
    \/ put_char_scrolls \/ clear_screen

Spec == Init /\ [][Next]_vars

-----------------------------------------------------------------------------
(* Properties                                                              *)

Pointer == <<mouse_x, mouse_y>>

\* Once the pointer has moved it is on the screen, whatever bytes were lost,
\* taken for others, or moved it beyond what int8_t holds.
PointerOnScreen == Pointer # HOME => Cell(mouse_x, mouse_y) \in Screen
                                     /\ mouse_x < COLS /\ mouse_x >= 0

\* While no byte was lost, the acknowledgement did not come late, and no
\* movement was faster than SLOW, the pointer is where the device's movements
\* lead, the edges included, after every packet.
FollowsDevice == sent = 3 /\ nlost = 0 /\ ~late /\ ~fast => Pointer = want

\* The cells of the screen that look wrong: swapped although the pointer is not
\* there, or not swapped although it is.
Wrong == SymDiff(inverted, {PointerCell} \ black) \cap Screen

\* The pointer itself leaves no trail, however far it moves, over whatever has
\* been scrolled under it: a character printed on its cell leaves at most one
\* wrong cell, a scroll at most two (the swapped cell that moved up and the
\* pointer's own), and clearing the screen leaves at most the pointer's own.
TrailBounded == Cardinality(Wrong) <= marks

=============================================================================
