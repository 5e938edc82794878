---------------------------- MODULE MouseProofs ----------------------------
(***************************************************************************)
(* Proofs about the mouse driver, for every size of the screen and every   *)
(* set of packets.                                                         *)
(***************************************************************************)
EXTENDS Mouse, FiniteSetTheorems, TLAPS

-----------------------------------------------------------------------------
(* The inductive invariant                                                 *)

\* A pointer that has moved is on the screen.
OnScreen(p) == p[1] \in 0 .. COLS - 1 /\ p[2] \in 0 .. ROWS - 1
ScreenInv == /\ mouse_x \in Int /\ mouse_y \in Int
             /\ Pointer = HOME \/ OnScreen(Pointer)

PacketInv == /\ buffer \in [0 .. 2 -> Nat] /\ offset \in 0 .. 2
             /\ packet \in Packets \cup {<<0, 0, 0>>} /\ sent \in 0 .. 3
             /\ nlost \in Nat

\* Where the packet p moves a pointer that is at w.
Target(w, p) == IF p[2] = 0 /\ p[3] = 0 THEN w
                ELSE <<Within(w[1] + Signed(p[2]), COLS - 1),
                       Within(w[2] - Signed(p[3]), ROWS - 1)>>

Slow(p) == \A k \in {2, 3} : Signed(p[k]) \in -SLOW .. SLOW

\* While no byte was lost or added, the driver is in step with the device, and
\* what it will do with the rest of the packet is what the device wants.
StepInv ==
    nlost = 0 /\ ~late =>
        /\ offset = IF sent = 3 THEN 0 ELSE sent
        /\ sent = 1 => buffer[0] = packet[1]
        /\ sent = 2 => buffer[0] = packet[1] /\ buffer[1] = packet[2]
        /\ ~fast => IF sent = 3 THEN want = Pointer
                    ELSE Slow(packet) /\ want = Target(Pointer, packet)

\* A movement swaps the old cell and the new one, so it changes none of the
\* wrong cells; text changes them by what marks records.
HomeCell == Cell(HOME[1], HOME[2])
TrailInv == marks \in Nat /\ TrailBounded

IInv == ScreenInv /\ PacketInv /\ StepInv /\ TrailInv

-----------------------------------------------------------------------------
(* Arithmetic                                                              *)

LEMMA Sizes ==
    /\ COLS \in Nat \ {0} /\ ROWS \in Nat \ {0} /\ BYTE \in Nat \ {0} /\ SLOW \in Nat
    /\ ACK \in Nat /\ HOME[1] = 12 /\ HOME[2] = 39 /\ ROWS <= 39
    /\ BYTE = 2 * (BYTE \div 2) /\ BYTE \div 2 \in Nat
    /\ COLS + SLOW <= BYTE \div 2 /\ ROWS + SLOW <= BYTE \div 2
    /\ 39 + SLOW < BYTE \div 2
BY MouseAssumption DEF HOME

LEMMA Int8Type ==
    ASSUME NEW v \in Int PROVE int8(v) \in Int
BY Sizes DEF int8

\* The unsigned byte is added modulo BYTE: within the range of int8_t that is
\* the signed movement.
LEMMA Int8Adds ==
    ASSUME NEW x \in Int, NEW d \in 0 .. BYTE - 1,
           x + Signed(d) \in -(BYTE \div 2) .. (BYTE \div 2) - 1
    PROVE  int8(x + d) = x + Signed(d)
BY Sizes DEF int8, Signed

LEMMA Int8Subtracts ==
    ASSUME NEW y \in Int, NEW d \in 0 .. BYTE - 1,
           y - Signed(d) \in -(BYTE \div 2) .. (BYTE \div 2) - 1
    PROVE  int8(y - d) = y - Signed(d)
BY Sizes DEF int8, Signed

LEMMA ClampFacts ==
    ASSUME NEW v \in Int, NEW top \in Nat
    PROVE  Clamp(v, top) \in 0 .. top /\ Clamp(v, top) = Within(v, top)
BY DEF Clamp, Within

LEMMA Rows ==
    ASSUME NEW c \in Nat, NEW a \in Nat, NEW b \in Nat, a <= b
    PROVE  c * a \in Nat /\ c * b \in Nat /\ c * a <= c * b
OBVIOUS

LEMMA CellOnScreen ==
    ASSUME NEW x \in 0 .. COLS - 1, NEW y \in 0 .. ROWS - 1
    PROVE  Cell(x, y) \in Screen
<1>1. COLS * y <= COLS * (ROWS - 1) /\ COLS * y \in Nat
    BY Sizes, Rows
<1>2. COLS * (ROWS - 1) = COLS * ROWS - COLS
    BY Sizes
<1> QED
    BY <1>1, <1>2, Sizes DEF Cell, Screen

LEMMA HomeOffScreen ==
    HomeCell \notin Screen
<1>1. COLS * ROWS <= COLS * 39
    BY Sizes, Rows
<1> QED
    BY <1>1, Sizes DEF HomeCell, Cell, Screen

\* A position on the screen is not where init_mouse puts the pointer.
LEMMA HomeNotOnScreen ==
    ASSUME NEW x, NEW y, OnScreen(<<x, y>>)
    PROVE  /\ <<x, y>> # HOME
           /\ Cell(x, y) \in Screen /\ Cell(x, y) # HomeCell
<1>1. x \in 0 .. COLS - 1 /\ y \in 0 .. ROWS - 1
    BY DEF OnScreen
<1>2. Cell(x, y) \in Screen
    BY <1>1, CellOnScreen
<1>3. y # 39
    BY <1>1, Sizes
<1> QED
    BY <1>2, <1>3, HomeOffScreen DEF HOME

-----------------------------------------------------------------------------
(* The interrupt handler                                                   *)

LEMMA MovedOnScreen ==
    ASSUME NEW b \in [0 .. 2 -> Nat], ScreenInv
    PROVE  OnScreen(Moved(b))
<1>1. /\ int8(mouse_x + b[1]) \in Int /\ int8(mouse_y - b[2]) \in Int
      /\ COLS - 1 \in Nat /\ ROWS - 1 \in Nat
    BY Int8Type, Sizes DEF ScreenInv
<1> QED
    BY <1>1, ClampFacts DEF OnScreen, Moved

\* Erasing and drawing the pointer leaves the wrong cells as they are.
LEMMA RedrawnTrail ==
    ASSUME NEW e
    PROVE  SymDiff(Swap(Swap(inverted, PointerCell), e), {e} \ black) \cap Screen = Wrong
<1> DEFINE t == Swap(inverted, PointerCell)
<1>1. SymDiff(SymDiff(t, {e} \ black), {e} \ black) = t
    BY Zenon DEF SymDiff
<1> QED
    BY <1>1, Zenon DEF Swap, Wrong

LEMMA Callback ==
    ASSUME IInv, NEW byte \in Nat, mouse_callback(byte),
           black' = black, marks' = marks
    PROVE  /\ ScreenInv' /\ TrailInv'
           /\ buffer' = [buffer EXCEPT ![offset] = byte]
           /\ buffer' \in [0 .. 2 -> Nat] /\ offset' \in 0 .. 2
           /\ offset' = Next3(offset)
           /\ Pointer' = IF offset = 2 /\ (buffer'[1] # 0 \/ buffer'[2] # 0)
                         THEN Moved(buffer') ELSE Pointer
<1> DEFINE b == [buffer EXCEPT ![offset] = byte]
           moves == offset = 2 /\ (b[1] # 0 \/ b[2] # 0)
<1>1. /\ buffer \in [0 .. 2 -> Nat] /\ offset \in 0 .. 2
    BY DEF IInv, PacketInv
<1>2. /\ b \in [0 .. 2 -> Nat] /\ Next3(offset) \in 0 .. 2
      /\ Next3(offset) = 0 <=> offset = 2
    BY <1>1 DEF Next3
<1>3. buffer' = b /\ offset' = Next3(offset)
    BY DEF mouse_callback
<1>4. CASE moves
  <2>1. /\ mouse_x' = Moved(b)[1] /\ mouse_y' = Moved(b)[2]
        /\ inverted' = Redrawn(Moved(b))
      BY <1>2, <1>4 DEF mouse_callback
  <2>2. OnScreen(Moved(b)) /\ Moved(b) = <<mouse_x', mouse_y'>>
    <3>1. OnScreen(Moved(b))
        BY <1>2, MovedOnScreen DEF IInv
    <3>2. Moved(b) = <<Moved(b)[1], Moved(b)[2]>>
        BY DEF Moved
    <3> QED
        BY <2>1, <3>1, <3>2
  <2>3. Pointer' = Moved(b) /\ OnScreen(<<mouse_x', mouse_y'>>)
      BY <2>2 DEF Pointer
  <2>4. ScreenInv'
    <3>1. mouse_x' \in 0 .. COLS - 1 /\ mouse_y' \in 0 .. ROWS - 1
        BY <2>3 DEF OnScreen
    <3> QED
        BY <3>1 DEF ScreenInv, Pointer, OnScreen
  <2>5. TrailInv'
    <3>1. PointerCell' = Cell(Moved(b)[1], Moved(b)[2])
        BY <2>1 DEF PointerCell, Cell
    <3>2. inverted' = Swap(Swap(inverted, PointerCell), PointerCell')
        BY <2>1, <3>1 DEF Redrawn, PointerCell
    <3>3. Wrong' = Wrong
        BY ONLY <3>2, RedrawnTrail, black' = black DEF Wrong, Screen, SymDiff
    <3> QED
        BY <3>3 DEF IInv, TrailInv, TrailBounded
  <2> QED
      BY <1>2, <1>3, <1>4, <2>3, <2>4, <2>5
<1>5. CASE ~moves
  <2>1. mouse_x' = mouse_x /\ mouse_y' = mouse_y /\ inverted' = inverted
      BY <1>2, <1>5 DEF mouse_callback
  <2>2. Pointer' = Pointer
      BY <2>1 DEF Pointer
  <2>3. Wrong' = Wrong
      BY <2>1 DEF Wrong, PointerCell, Cell, Screen, SymDiff
  <2>4. ScreenInv' /\ TrailInv'
      BY <2>1, <2>2, <2>3 DEF IInv, ScreenInv, TrailInv, TrailBounded, OnScreen
  <2> QED
      BY <1>2, <1>3, <1>5, <2>2, <2>4
<1> QED
    BY <1>4, <1>5

\* A whole slow packet moves the pointer as the device wants.
LEMMA MovedFollows ==
    ASSUME ScreenInv, NEW b \in [0 .. 2 -> Nat], NEW p \in Packets \cup {<<0, 0, 0>>},
           Slow(p), b[1] = p[2], b[2] = p[3], p[2] # 0 \/ p[3] # 0
    PROVE  Moved(b) = Target(Pointer, p)
<1>1. p[2] \in 0 .. BYTE - 1 /\ p[3] \in 0 .. BYTE - 1
    BY MouseAssumption, Sizes
<1>2. /\ Signed(p[2]) \in -SLOW .. SLOW /\ Signed(p[3]) \in -SLOW .. SLOW
    BY DEF Slow
<1>3. /\ mouse_x \in Int /\ mouse_x >= 0 /\ mouse_x + SLOW < BYTE \div 2
      /\ mouse_y \in Int /\ mouse_y >= 0 /\ mouse_y + SLOW < BYTE \div 2
  <2>1. CASE Pointer = HOME
      BY <2>1, Sizes DEF Pointer, HOME
  <2>2. CASE OnScreen(Pointer)
      BY <2>2, Sizes DEF OnScreen, Pointer
  <2> QED
      BY <2>1, <2>2 DEF ScreenInv
<1> DEFINE u == Signed(p[2])
           v == Signed(p[3])
<1>4. /\ u \in Int /\ mouse_x + u \in -(BYTE \div 2) .. (BYTE \div 2) - 1
      /\ v \in Int /\ mouse_y - v \in -(BYTE \div 2) .. (BYTE \div 2) - 1
  <2> HIDE DEF u, v
  <2> QED
      BY <1>2, <1>3, Sizes DEF u, v
<1>5. int8(mouse_x + b[1]) = mouse_x + u /\ int8(mouse_y - b[2]) = mouse_y - v
    BY <1>1, <1>3, <1>4, Int8Adds, Int8Subtracts
<1> HIDE DEF u, v
<1>6. Moved(b) = <<Within(mouse_x + u, COLS - 1), Within(mouse_y - v, ROWS - 1)>>
  <2>1. /\ COLS - 1 \in Nat /\ ROWS - 1 \in Nat
        /\ mouse_x + u \in Int /\ mouse_y - v \in Int
      BY <1>3, <1>4, Sizes
  <2> QED
      BY <1>5, <2>1, ClampFacts DEF Moved
<1> QED
    BY <1>6 DEF Target, Pointer, u, v

-----------------------------------------------------------------------------
(* The steps                                                               *)

LEMMA InitIInv ==
    Init => IInv
<1> SUFFICES ASSUME Init PROVE IInv
    OBVIOUS
<1>1. Pointer = HOME /\ mouse_x = 12 /\ mouse_y = 39
    BY DEF Init, Pointer, HOME
<1>2. ScreenInv
    BY <1>1 DEF Init, ScreenInv
<1>3. PacketInv
    BY DEF Init, PacketInv
<1>4. StepInv
    BY <1>1 DEF Init, StepInv
<1>5. TrailInv
  <2>1. PointerCell = HomeCell /\ inverted = {} /\ black = {} /\ marks = 0
      BY <1>1 DEF Init, PointerCell, HomeCell, HOME
  <2>2. Wrong = {}
      BY <2>1, HomeOffScreen DEF Wrong, SymDiff
  <2> QED
      BY <2>1, <2>2, FS_EmptySet DEF TrailInv, TrailBounded
<1> QED
    BY <1>2, <1>3, <1>4, <1>5 DEF IInv

\* A step that leaves the pointer and the colours alone.
LEMMA SameTrail ==
    ASSUME IInv, UNCHANGED <<mouse_x, mouse_y, inverted, black, marks>>
    PROVE  ScreenInv' /\ TrailInv' /\ Pointer' = Pointer
<1>1. Wrong' = Wrong /\ Pointer' = Pointer
    BY DEF Wrong, PointerCell, Cell, Screen, SymDiff, Pointer
<1> QED
    BY <1>1 DEF IInv, ScreenInv, TrailInv, TrailBounded, OnScreen

LEMMA StartStep ==
    ASSUME IInv, NEW p \in Packets, start_packet(p) PROVE IInv'
<1>1. /\ UNCHANGED <<mouse_x, mouse_y, inverted, black, marks, buffer, offset, nlost, late>>
      /\ sent = 3 /\ sent' = 0 /\ packet' = p
      /\ want' = Reference(p)
      /\ fast' = (fast \/ \E k \in {2, 3} : Signed(p[k]) \notin -SLOW .. SLOW)
    BY DEF start_packet
<1>2. Pointer' = Pointer /\ ScreenInv' /\ TrailInv'
    BY <1>1, SameTrail
<1>4. PacketInv'
    BY <1>1 DEF IInv, PacketInv
<1>5. StepInv'
  <2> SUFFICES ASSUME nlost = 0, ~late
               PROVE  /\ offset = 0
                      /\ ~fast' => Slow(p) /\ Reference(p) = Target(Pointer, p)
      BY <1>1, <1>2 DEF StepInv, Slow, Target
  <2>1. offset = 0 /\ (~fast => want = Pointer)
      BY <1>1 DEF IInv, StepInv
  <2>2. ASSUME ~fast' PROVE ~fast /\ Slow(p)
      BY <1>1, <2>2, Zenon DEF Slow
  <2>3. want = Pointer => Reference(p) = Target(Pointer, p)
      BY DEF Reference, Target
  <2> QED
      BY <2>1, <2>2, <2>3
<1> QED
    BY <1>2, <1>4, <1>5 DEF IInv

LEMMA ArrivesStep ==
    ASSUME IInv, byte_arrives PROVE IInv'
<1>1. /\ UNCHANGED <<packet, nlost, late, fast, want, black, marks>>
      /\ sent \in 0 .. 2 /\ sent' = sent + 1 /\ mouse_callback(packet[sent + 1])
    BY DEF byte_arrives, IInv, PacketInv
<1>2. /\ packet \in Packets \cup {<<0, 0, 0>>}
      /\ packet[1] \in Nat /\ packet[2] \in Nat /\ packet[3] \in Nat
      /\ packet[sent + 1] \in Nat
    BY <1>1, MouseAssumption DEF IInv, PacketInv
<1>3. /\ ScreenInv' /\ TrailInv'
      /\ buffer' = [buffer EXCEPT ![offset] = packet[sent + 1]]
      /\ buffer' \in [0 .. 2 -> Nat] /\ offset' \in 0 .. 2
      /\ offset' = Next3(offset)
      /\ Pointer' = IF offset = 2 /\ (buffer'[1] # 0 \/ buffer'[2] # 0)
                    THEN Moved(buffer') ELSE Pointer
    BY <1>1, <1>2, Callback
<1>4. PacketInv'
    BY <1>1, <1>3 DEF IInv, PacketInv
<1>5. StepInv'
  <2> SUFFICES ASSUME nlost = 0, ~late
               PROVE  /\ offset' = IF sent' = 3 THEN 0 ELSE sent'
                      /\ sent' = 1 => buffer'[0] = packet[1]
                      /\ sent' = 2 => buffer'[0] = packet[1] /\ buffer'[1] = packet[2]
                      /\ ~fast => IF sent' = 3 THEN want = Pointer'
                                  ELSE Slow(packet) /\ want = Target(Pointer', packet)
      BY <1>1 DEF StepInv, Slow, Target
  <2>1. /\ offset = sent
        /\ sent = 1 => buffer[0] = packet[1]
        /\ sent = 2 => buffer[0] = packet[1] /\ buffer[1] = packet[2]
        /\ ~fast => Slow(packet) /\ want = Target(Pointer, packet)
      BY <1>1 DEF IInv, StepInv
  <2>2. buffer \in [0 .. 2 -> Nat]
      BY DEF IInv, PacketInv
  <2>3. /\ offset' = IF sent' = 3 THEN 0 ELSE sent'
        /\ sent' = 1 => buffer'[0] = packet[1]
        /\ sent' = 2 => buffer'[0] = packet[1] /\ buffer'[1] = packet[2]
        /\ sent' = 3 => buffer'[1] = packet[2] /\ buffer'[2] = packet[3]
      BY <1>1, <1>3, <2>1, <2>2 DEF Next3
  <2>4. CASE sent < 2
    <3>1. Pointer' = Pointer /\ sent' # 3
        BY <1>1, <1>3, <2>1, <2>4
    <3> QED
        BY <2>1, <2>3, <3>1
  <2>5. CASE sent = 2
    <3>1. sent' = 3
        BY <1>1, <2>5
    <3>2. ASSUME ~fast PROVE want = Pointer'
      <4>1. CASE packet[2] = 0 /\ packet[3] = 0
        <5>1. Pointer' = Pointer
            BY <1>3, <2>3, <3>1, <4>1
        <5> QED
            BY <2>1, <3>2, <4>1, <5>1 DEF Target
      <4>2. CASE packet[2] # 0 \/ packet[3] # 0
        <5>1. Pointer' = Moved(buffer')
            BY <1>3, <2>1, <2>3, <2>5, <3>1, <4>2
        <5>2. Moved(buffer') = Target(Pointer, packet)
            BY <1>2, <1>3, <2>1, <2>3, <3>1, <3>2, <4>2, MovedFollows DEF IInv
        <5> QED
            BY <2>1, <3>2, <5>1, <5>2
      <4> QED
          BY <4>1, <4>2
    <3> QED
        BY <2>3, <3>1, <3>2
  <2> QED
      BY <1>1, <2>4, <2>5
<1> QED
    BY <1>3, <1>4, <1>5 DEF IInv

LEMMA LostStep ==
    ASSUME IInv, byte_lost PROVE IInv'
<1>1. /\ UNCHANGED <<mouse_x, mouse_y, inverted, black, marks, buffer, offset, packet>>
      /\ nlost \in Nat /\ nlost' = nlost + 1 /\ sent' \in 0 .. 3
    BY DEF byte_lost, IInv, PacketInv
<1>2. Pointer' = Pointer /\ ScreenInv' /\ TrailInv'
    BY <1>1, SameTrail
<1>4. PacketInv' /\ nlost' # 0
    BY <1>1 DEF IInv, PacketInv
<1> QED
    BY <1>2, <1>4 DEF IInv, StepInv

LEMMA AckStep ==
    ASSUME IInv, ack_arrives PROVE IInv'
<1>1. /\ late' = TRUE /\ mouse_callback(ACK)
      /\ UNCHANGED <<packet, sent, nlost, black, marks>>
    BY DEF ack_arrives
<1>2. /\ ScreenInv' /\ TrailInv'
      /\ buffer' \in [0 .. 2 -> Nat] /\ offset' \in 0 .. 2
    BY <1>1, Sizes, Callback
<1>3. PacketInv'
    BY <1>1, <1>2 DEF IInv, PacketInv
<1> QED
    BY <1>1, <1>2, <1>3 DEF IInv, StepInv

\* What text does not change: everything but the colours and the wrong cells.
LEMMA TextStep ==
    ASSUME IInv, NEW k \in Nat, Text(k), TrailBounded' PROVE IInv'
<1>1. /\ UNCHANGED <<mouse_x, mouse_y, buffer, offset, packet, sent, nlost, late, fast,
                     want>>
      /\ marks' = k
    BY DEF Text
<1>2. Pointer' = Pointer
    BY <1>1 DEF Pointer
<1> QED
    BY <1>1, <1>2 DEF IInv, ScreenInv, PacketInv, StepInv, TrailInv, OnScreen, Slow, Target

LEMMA FiniteScreen ==
    ASSUME NEW S \in SUBSET Screen PROVE IsFiniteSet(S) /\ Cardinality(S) \in Nat
<1>1. IsFiniteSet(Screen)
    BY Sizes, FS_Interval DEF Screen
<1> QED
    BY <1>1, FS_Subset, FS_CardinalityType

\* A set that lies in another one and a single cell has at most one cell more.
LEMMA OneMore ==
    ASSUME NEW S \in SUBSET Screen, NEW T \in SUBSET Screen, NEW x, S \subseteq T \cup {x}
    PROVE  Cardinality(S) <= Cardinality(T) + 1
<1>1. IsFiniteSet(T) /\ Cardinality(T) \in Nat /\ Cardinality(S) \in Nat
    BY FiniteScreen
<1>2. /\ IsFiniteSet(T \cup {x})
      /\ Cardinality(T \cup {x}) <= Cardinality(T) + 1 /\ Cardinality(T \cup {x}) \in Nat
  <2> DEFINE d == Cardinality(T \cup {x})
  <2>1. IsFiniteSet(T \cup {x}) /\ d = IF x \in T THEN Cardinality(T) ELSE Cardinality(T) + 1
      BY <1>1, FS_AddElement
  <2> HIDE DEF d
  <2>2. d <= Cardinality(T) + 1 /\ d \in Nat
      BY <1>1, <2>1
  <2> QED
      BY <2>1, <2>2 DEF d
<1>3. Cardinality(S) <= Cardinality(T \cup {x})
    BY <1>2, FS_Subset
<1> QED
    BY <1>1, <1>2, <1>3

\* Moving cells up a row makes them no more.
LEMMA UpSmaller ==
    ASSUME NEW cells
    PROVE  Cardinality(Up(cells) \cap Screen) <= Cardinality(cells \cap Screen)
<1> DEFINE S == Up(cells) \cap Screen
           T == cells \cap Screen
           f == [x \in S |-> x + COLS]
<1>1. IsFiniteSet(T)
    BY FiniteScreen
<1>2. ASSUME NEW x \in S PROVE x \in Int /\ x + COLS \in T
  <2>1. PICK y \in cells \cap (COLS .. LastCell) : x = y - COLS
      BY <1>2 DEF Up
  <2> QED
      BY <2>1, Sizes DEF LastCell, Screen
<1>3. f \in [S -> T]
    BY <1>2
<1>4. ASSUME NEW x \in S, NEW y \in S, f[x] = f[y] PROVE x = y
  <2>1. x \in Int /\ y \in Int /\ x + COLS = y + COLS
      BY <1>2, <1>4
  <2> QED
      BY <2>1, Sizes
<1> HIDE DEF S, T, f
<1>5. f \in Injection(S, T)
    BY <1>3, <1>4 DEF Injection, IsInjective
<1> QED
    BY <1>1, <1>5, FS_Injection DEF S, T

\* A scroll, with or without a character that was written first.
LEMMA ScrollTrail ==
    ASSUME IInv, NEW s \in SUBSET inverted, NEW t, scroll_up(s, t), Text(marks + 2)
    PROVE  IInv'
<1>1. /\ inverted' = Up(s) /\ mouse_x' = mouse_x /\ mouse_y' = mouse_y /\ marks' = marks + 2
    BY DEF scroll_up, Text
<1>2. PointerCell' = PointerCell
    BY <1>1 DEF PointerCell, Cell
<1> DEFINE A == s \cap Screen
           B == Up(s) \cap Screen
           W == Wrong'
<1>3. A \in SUBSET Screen /\ B \in SUBSET Screen /\ W \in SUBSET Screen /\ Wrong \in SUBSET Screen
    BY DEF Wrong, Screen
<1>4. A \subseteq Wrong \cup {PointerCell}
    BY DEF Wrong, SymDiff
<1>5. W \subseteq B \cup {PointerCell}
    BY <1>1, <1>2 DEF Wrong, SymDiff, Screen
<1>6. Cardinality(B) <= Cardinality(A)
    BY UpSmaller
<1> HIDE DEF A, B, W
<1>7. /\ Cardinality(A) <= Cardinality(Wrong) + 1 /\ Cardinality(W) <= Cardinality(B) + 1
      /\ Cardinality(A) \in Nat /\ Cardinality(B) \in Nat /\ Cardinality(W) \in Nat
      /\ Cardinality(Wrong) \in Nat
    BY <1>3, <1>4, <1>5, OneMore, FiniteScreen
<1>8. marks \in Nat /\ Cardinality(Wrong) <= marks
    BY DEF IInv, TrailInv, TrailBounded
<1>9. Cardinality(W) <= marks + 2
    BY <1>6, <1>7, <1>8
<1>10. TrailBounded'
    BY <1>1, <1>9 DEF TrailBounded, W
<1> QED
    BY <1>8, <1>10, TextStep

LEMMA PrintStep ==
    ASSUME IInv, NEW c, put_char(c) PROVE IInv'
<1>1. CASE c = LastCell
    BY <1>1, ScrollTrail DEF put_char
<1>2. CASE c # LastCell
  <2> DEFINE k == IF c = PointerCell THEN marks + 1 ELSE marks
             W == Wrong'
  <2>1. /\ inverted' = inverted \ {c} /\ black' = black \ {c} /\ Text(k)
        /\ mouse_x' = mouse_x /\ mouse_y' = mouse_y /\ marks' = k
      BY <1>2 DEF put_char, Text
  <2>2. PointerCell' = PointerCell
      BY <2>1 DEF PointerCell, Cell
  <2>3. marks \in Nat /\ Cardinality(Wrong) <= marks
      BY DEF IInv, TrailInv, TrailBounded
  <2>4. /\ W \in SUBSET Screen /\ Wrong \in SUBSET Screen
      BY DEF Wrong, Screen
  <2>5. Cardinality(W) <= k
    <3>1. CASE c = PointerCell
      <4>1. W \subseteq Wrong \cup {c}
          BY <2>1, <2>2, <3>1 DEF Wrong, SymDiff, Screen
      <4> HIDE DEF W
      <4>2. Cardinality(W) <= Cardinality(Wrong) + 1
          BY <2>4, <4>1, OneMore
      <4> QED
          BY <2>3, <2>4, <3>1, <4>2, FiniteScreen
    <3>2. CASE c # PointerCell
      <4>1. W \subseteq Wrong
          BY <2>1, <2>2, <3>2 DEF Wrong, SymDiff, Screen
      <4> HIDE DEF W
      <4>2. Cardinality(W) <= Cardinality(Wrong)
          BY <2>4, <4>1, FiniteScreen, FS_Subset
      <4> QED
          BY <2>3, <2>4, <3>2, <4>2, FiniteScreen
    <3> QED
        BY <3>1, <3>2
  <2>6. TrailBounded'
      BY <2>1, <2>5 DEF TrailBounded
  <2> QED
      BY <2>1, <2>3, <2>6, TextStep
<1> QED
    BY <1>1, <1>2

LEMMA ClearStep ==
    ASSUME IInv, clear_screen PROVE IInv'
<1>1. /\ inverted' = inverted \ Screen /\ Text(1)
      /\ mouse_x' = mouse_x /\ mouse_y' = mouse_y /\ marks' = 1
    BY DEF clear_screen, Text
<1>2. PointerCell' = PointerCell
    BY <1>1 DEF PointerCell, Cell
<1> DEFINE W == Wrong'
<1>3. W \subseteq {} \cup {PointerCell} /\ W \in SUBSET Screen /\ {} \in SUBSET Screen
    BY <1>1, <1>2 DEF Wrong, SymDiff, Screen
<1> HIDE DEF W
<1>4. Cardinality(W) <= Cardinality({}) + 1
    BY <1>3, OneMore
<1>5. TrailBounded'
    BY <1>1, <1>4, FS_EmptySet DEF TrailBounded, W
<1> QED
    BY <1>1, <1>5, TextStep

LEMMA SpecIInv ==
    Spec => []IInv
<1>1. IInv /\ [Next]_vars => IInv'
  <2> SUFFICES ASSUME IInv, [Next]_vars PROVE IInv'
      OBVIOUS
  <2>1. CASE \E p \in Packets : start_packet(p)
      BY <2>1, StartStep
  <2>2. CASE byte_arrives
      BY <2>2, ArrivesStep
  <2>3. CASE byte_lost
      BY <2>3, LostStep
  <2>4. CASE ack_arrives
      BY <2>4, AckStep
  <2>5. CASE \E c \in Spots \cup ({PointerCell} \cap Screen) : put_char(c)
      BY <2>5, PrintStep
  <2>6. CASE put_char_scrolls
      BY <2>6, ScrollTrail DEF put_char_scrolls
  <2>7. CASE clear_screen
      BY <2>7, ClearStep
  <2>8. CASE UNCHANGED vars
    <3>1. ScreenInv' /\ TrailInv' /\ Pointer' = Pointer
        BY <2>8, SameTrail DEF vars
    <3> QED
        BY <2>8, <3>1 DEF vars, IInv, PacketInv, StepInv, Slow, Target
  <2> QED
      BY <2>1, <2>2, <2>3, <2>4, <2>5, <2>6, <2>7, <2>8 DEF Next
<1> QED
    BY <1>1, InitIInv, PTL DEF Spec

-----------------------------------------------------------------------------
(* The theorems                                                            *)

\* Whatever bytes mouse_callback takes for a packet, a pointer that has moved is
\* on the screen, so that the handler inverts no cell outside of it again.
THEOREM PointerOnScreenAlways ==
    Spec => []PointerOnScreen
<1>1. IInv => PointerOnScreen
  <2> SUFFICES ASSUME IInv, Pointer # HOME
               PROVE  /\ Cell(mouse_x, mouse_y) \in Screen
                      /\ mouse_x < COLS /\ mouse_x >= 0
      BY DEF PointerOnScreen
  <2>1. mouse_x \in 0 .. COLS - 1 /\ mouse_y \in 0 .. ROWS - 1
      BY DEF IInv, ScreenInv, OnScreen, Pointer
  <2> QED
      BY <2>1, Sizes, CellOnScreen
<1> QED
    BY <1>1, SpecIInv, PTL

\* While the driver loses no byte and takes none for another, adding unsigned
\* bytes to int8_t coordinates follows every movement of up to SLOW.
THEOREM FollowsDeviceAlways ==
    Spec => []FollowsDevice
<1>1. IInv => FollowsDevice
    BY DEF IInv, StepInv, FollowsDevice
<1> QED
    BY <1>1, SpecIInv, PTL

\* Erasing by a second swap leaves no inverted cell behind, however the packets
\* were cut and whatever scroll_up moved under the pointer: the wrong cells are
\* never more than the characters on its cell and twice the scrolls since the
\* screen was cleared account for.
THEOREM TrailBoundedAlways ==
    Spec => []TrailBounded
<1>1. IInv => TrailBounded
    BY DEF IInv, TrailInv
<1> QED
    BY <1>1, SpecIInv, PTL

=============================================================================
