--------------------------- MODULE ConsoleProofs ---------------------------
(***************************************************************************)
(* Proofs about the line buffer of the keyboard driver and the screen that *)
(* keys and processes share, for every size of screen and buffer, every    *)
(* alphabet, text and command.                                             *)
(***************************************************************************)
EXTENDS Console, TLAPS, SequenceTheorems, WellFoundedInduction

K == KEY_BUFFER_SIZE
Buffers == [0 .. K -> Chars \cup {NUL}]

\* n is the length of the string in b.
Ends(b, n) == /\ n \in 0 .. K
              /\ b[n] = NUL
              /\ \A j \in 0 .. n - 1 : b[j] # NUL

LEMMA Constants ==
    /\ K \in Nat \ {0} /\ NUL \notin Chars
    /\ \A k \in Letters : k \in Chars /\ Upper[k] \in Chars
<1>1. K \in Nat \ {0}
    BY ConsoleAssumption DEF K
<1>2. NUL \notin Chars
    BY ConsoleAssumption
<1>3. \A k \in Letters : k \in Chars /\ Upper[k] \in Chars
    BY DEF Chars
<1> QED
    BY <1>1, <1>2, <1>3

-----------------------------------------------------------------------------
(* strlen, append and backspace                                            *)

LEMMA StrlenIs ==
    ASSUME NEW b \in Buffers, NEW n, Ends(b, n)
    PROVE  strlen(b) = n
<1>1. DOMAIN b = 0 .. K
    BY DEF Buffers
<1>2. n \in DOMAIN b /\ b[n] = NUL /\ \A j \in 0 .. n - 1 : b[j] # NUL
    BY <1>1 DEF Ends
<1>3. ASSUME NEW m \in 0 .. K, b[m] = NUL, \A j \in 0 .. m - 1 : b[j] # NUL
      PROVE  m = n
  <2>1. n \in Nat /\ m \in Nat
      BY Constants DEF Ends
  <2>2. ~(m < n) /\ ~(n < m)
      BY <1>2, <1>3, <2>1
  <2> QED
      BY <2>1, <2>2
<1> QED
    BY <1>1, <1>2, <1>3 DEF strlen

LEMMA StringIs ==
    ASSUME NEW b \in Buffers, NEW n, Ends(b, n)
    PROVE  /\ String(b) = [j \in 1 .. n |-> b[j - 1]]
           /\ String(b) \in Seq(Chars) /\ Len(String(b)) = n
           /\ \A j \in 1 .. n : String(b)[j] = b[j - 1]
<1>1. n \in Nat /\ n <= K
    BY Constants DEF Ends
<1>2. [j \in 0 .. KEY_BUFFER_SIZE - 0 |-> b[0 + j]] = b
    BY Constants DEF Buffers, K
<1>3. String(b) = [j \in 1 .. n |-> b[j - 1]]
    BY <1>2, StrlenIs DEF String, StringAt
<1>4. ASSUME NEW j \in 1 .. n PROVE b[j - 1] \in Chars
  <2>1. j - 1 \in 0 .. n - 1 /\ j - 1 \in 0 .. K
      BY <1>1, Constants
  <2> QED
      BY <2>1 DEF Ends, Buffers
<1> DEFINE s == [j \in 1 .. n |-> b[j - 1]]
<1>5. s \in Seq(Chars) /\ Len(s) = n /\ \A j \in 1 .. n : s[j] = b[j - 1]
    BY <1>1, <1>4
<1> QED
    BY <1>3, <1>5

LEMMA AppendEnds ==
    ASSUME NEW b \in Buffers, NEW n, Ends(b, n), n < K, NEW c \in Chars
    PROVE  /\ append(b, c) \in Buffers
           /\ append(b, c) = [b EXCEPT ![n] = c, ![n + 1] = NUL]
           /\ Ends(append(b, c), n + 1)
<1>1. append(b, c) = [b EXCEPT ![n] = c, ![n + 1] = NUL]
    BY StrlenIs DEF append
<1>2. n \in 0 .. K /\ n + 1 \in 0 .. K /\ c # NUL
    BY Constants DEF Ends
<1>3. [b EXCEPT ![n] = c, ![n + 1] = NUL] \in Buffers
    BY <1>2 DEF Buffers
<1>4. Ends([b EXCEPT ![n] = c, ![n + 1] = NUL], n + 1)
    BY <1>2, Constants DEF Buffers, Ends
<1> QED
    BY <1>1, <1>3, <1>4

LEMMA BackspaceEnds ==
    ASSUME NEW b \in Buffers, NEW n, Ends(b, n), n # 0
    PROVE  /\ backspace(b) \in Buffers
           /\ backspace(b) = [b EXCEPT ![n - 1] = NUL]
           /\ Ends(backspace(b), n - 1)
<1>1. backspace(b) = [b EXCEPT ![n - 1] = NUL]
    BY StrlenIs DEF backspace
<1>2. n \in 0 .. K /\ n - 1 \in 0 .. K
    BY Constants DEF Ends
<1>3. [b EXCEPT ![n - 1] = NUL] \in Buffers
    BY <1>2 DEF Buffers
<1>4. Ends([b EXCEPT ![n - 1] = NUL], n - 1)
    BY <1>2, Constants DEF Buffers, Ends
<1> QED
    BY <1>1, <1>3, <1>4

LEMMA EmptyEnds ==
    ASSUME NEW b \in Buffers, b[0] = NUL
    PROVE  Ends(b, 0) /\ String(b) = <<>>
<1>1. Ends(b, 0)
    BY Constants DEF Ends
<1>2. String(b) \in Seq(Chars) /\ Len(String(b)) = 0
    BY <1>1, StringIs
<1> QED
    BY <1>1, <1>2

-----------------------------------------------------------------------------
(* The inductive invariant of the line                                     *)

\* The buffer holds a string of letters that ends within it.
LineInv == /\ key_buffer \in Buffers
           /\ key_buffer[K] = NUL
           /\ \E n \in 0 .. K : Ends(key_buffer, n)

IInv == LineInv /\ TailIsFlushed

\* A step on the line: what it must preserve, and what it must be for LineInput.
LineStep == /\ LineInv' /\ TailIsFlushed'
            /\ [Input!Next]_<<Line, delivered>>

LEMMA UnchangedLine ==
    ASSUME LineInv, TailIsFlushed, UNCHANGED <<key_buffer, delivered, overflowed>>
    PROVE  LineStep
<1>1. Line' = Line
    BY DEF Line
<1>2. LineInv' /\ TailIsFlushed'
    BY DEF LineInv, TailIsFlushed, Ends
<1> QED
    BY <1>1, <1>2 DEF LineStep

\* BACKSPACE takes the last letter off.
LEMMA EraseStep ==
    ASSUME LineInv, TailIsFlushed, key_erase
    PROVE  LineStep
<1> DEFINE b == key_buffer
<1>1. b \in Buffers /\ b[K] = NUL
    BY DEF LineInv
<1>2. PICK n \in 0 .. K : Ends(b, n)
    BY DEF LineInv
<1>3. strlen(b) = n /\ n # 0 /\ key_buffer' = backspace(b) /\ UNCHANGED <<delivered, overflowed>>
    BY <1>1, <1>2, StrlenIs DEF key_erase
<1>4. /\ key_buffer' \in Buffers /\ key_buffer' = [b EXCEPT ![n - 1] = NUL]
      /\ Ends(key_buffer', n - 1) /\ n - 1 \in 0 .. K
    BY <1>1, <1>2, <1>3, BackspaceEnds, Constants
<1>5. strlen(key_buffer') = n - 1
    BY <1>4, StrlenIs
<1>6. LineInv'
    BY <1>1, <1>4, Constants DEF LineInv, Buffers
<1>7. TailIsFlushed'
  <2> SUFFICES ASSUME NEW j \in n - 1 .. K
               PROVE  key_buffer'[j] = NUL \/ (overflowed /\ key_buffer'[j] = delivered[j + 1])
      BY <1>3, <1>5 DEF TailIsFlushed, K
  <2>1. \A i \in n .. K : b[i] = NUL \/ (overflowed /\ b[i] = delivered[i + 1])
      BY <1>3 DEF TailIsFlushed, K
  <2>2. j \in 0 .. K /\ (j = n - 1 \/ j \in n .. K)
      BY <1>3, Constants
  <2> QED
      BY <1>1, <1>4, <2>1, <2>2 DEF Buffers
<1>8. Line # <<>> /\ Line' = SubSeq(Line, 1, Len(Line) - 1)
  <2> DEFINE u == SubSeq(Line, 1, Len(Line) - 1)
  <2>1. Line \in Seq(Chars) /\ Len(Line) = n /\ \A j \in 1 .. n : Line[j] = b[j - 1]
      BY <1>1, <1>2, StringIs DEF Line
  <2>2. /\ Line' \in Seq(Chars) /\ Len(Line') = n - 1
        /\ \A j \in 1 .. n - 1 : Line'[j] = key_buffer'[j - 1]
      BY <1>4, StringIs DEF Line
  <2>3. n - 1 \in Nat /\ n \in Nat
      BY <1>3, Constants
  <2>4. u \in Seq(Chars) /\ Len(u) = n - 1 /\ \A j \in 1 .. n - 1 : u[j] = Line[j]
    <3>1. \A j \in 1 .. n - 1 : Line[j] \in Chars
        BY <2>1, <2>3
    <3>2. /\ SubSeq(Line, 1, n - 1) \in Seq(Chars)
          /\ Len(SubSeq(Line, 1, n - 1)) = IF 1 <= n - 1 THEN n - 1 - 1 + 1 ELSE 0
          /\ \A j \in 1 .. n - 1 - 1 + 1 : SubSeq(Line, 1, n - 1)[j] = Line[1 + j - 1]
        BY <2>3, <3>1, SubSeqProperties
    <3> QED
        BY <2>1, <2>3, <3>2
  <2>5. ASSUME NEW j \in 1 .. n - 1 PROVE Line'[j] = u[j]
    <3>1. j \in 1 .. n /\ j - 1 \in 0 .. K /\ j - 1 # n - 1
        BY <2>3, Constants
    <3>2. key_buffer'[j - 1] = b[j - 1]
        BY <1>1, <1>4, <3>1 DEF Buffers
    <3> QED
        BY <2>1, <2>2, <2>4, <3>1, <3>2
  <2> HIDE DEF u
  <2>6. Line' = u
      BY <2>2, <2>4, <2>5, SeqEqual
  <2> QED
      BY <1>3, <2>1, <2>6 DEF u
<1>9. Input!Erase
    BY <1>3, <1>8 DEF Input!Erase
<1> QED
    BY <1>6, <1>7, <1>9 DEF LineStep, Input!Next

\* ENTER delivers the line, and memset clears the whole buffer.
LEMMA EnterStep ==
    ASSUME LineInv, TailIsFlushed, key_enter
    PROVE  LineStep
<1>1. key_buffer' = Zeroed /\ delivered' = Line
    BY DEF key_enter, ClearLine, Line
<1>2. key_buffer' \in Buffers /\ \A j \in 0 .. K : key_buffer'[j] = NUL
    BY <1>1 DEF Zeroed, Buffers, K
<1>3. Ends(key_buffer', 0) /\ Line' = <<>>
    BY <1>2, EmptyEnds, Constants DEF Line
<1>4. LineInv'
    BY <1>2, <1>3, Constants DEF LineInv
<1>5. TailIsFlushed'
  <2>1. strlen(key_buffer') = 0
      BY <1>2, <1>3, StrlenIs
  <2> QED
      BY <1>2, <2>1 DEF TailIsFlushed, K
<1>6. Input!Submit
    BY <1>1, <1>3 DEF Input!Submit
<1> QED
    BY <1>4, <1>5, <1>6 DEF LineStep, Input!Next

LEMMA LetterChar ==
    ASSUME NEW k \in Letters PROVE Letter(k) \in Chars
BY Constants DEF Letter

\* Another key while the line has room: a letter is appended.
LEMMA TypeStep ==
    ASSUME LineInv, TailIsFlushed, ~Full, NEW c \in Chars,
           key_buffer' = append(key_buffer, c),
           UNCHANGED delivered, overflowed' <=> overflowed
    PROVE  LineStep
<1> DEFINE b == key_buffer
<1>1. b \in Buffers /\ b[K] = NUL
    BY DEF LineInv
<1>2. PICK n \in 0 .. K : Ends(b, n)
    BY DEF LineInv
<1>3. strlen(b) = n /\ n < K /\ n \in Nat
    BY <1>1, <1>2, StrlenIs, Constants DEF Full, K
<1>4. /\ key_buffer' \in Buffers /\ key_buffer' = [b EXCEPT ![n] = c, ![n + 1] = NUL]
      /\ Ends(key_buffer', n + 1) /\ n + 1 \in 0 .. K
    BY <1>1, <1>2, <1>3, AppendEnds, Constants
<1>5. strlen(key_buffer') = n + 1
    BY <1>4, StrlenIs
<1>6. LineInv'
    BY <1>1, <1>3, <1>4, Constants DEF LineInv, Buffers
<1>7. TailIsFlushed'
  <2> SUFFICES ASSUME NEW j \in n + 1 .. K
               PROVE  key_buffer'[j] = NUL \/ (overflowed /\ key_buffer'[j] = delivered[j + 1])
      BY <1>5 DEF TailIsFlushed, K
  <2>1. \A i \in n .. K : b[i] = NUL \/ (overflowed /\ b[i] = delivered[i + 1])
      BY <1>3 DEF TailIsFlushed, K
  <2>2. j \in 0 .. K /\ j \in n .. K /\ j # n
      BY <1>3, Constants
  <2> QED
      BY <1>1, <1>4, <2>1, <2>2 DEF Buffers
<1>8. Len(Line) < K /\ Line' = Append(Line, c)
  <2> DEFINE u == Append(Line, c)
  <2>1. Line \in Seq(Chars) /\ Len(Line) = n /\ \A j \in 1 .. n : Line[j] = b[j - 1]
      BY <1>1, <1>2, StringIs DEF Line
  <2>2. /\ Line' \in Seq(Chars) /\ Len(Line') = n + 1
        /\ \A j \in 1 .. n + 1 : Line'[j] = key_buffer'[j - 1]
      BY <1>4, StringIs DEF Line
  <2>3. /\ u \in Seq(Chars) /\ Len(u) = n + 1 /\ u[n + 1] = c
        /\ \A j \in 1 .. n : u[j] = Line[j]
      BY <2>1
  <2> HIDE DEF u
  <2>4. ASSUME NEW j \in 1 .. n + 1 PROVE Line'[j] = u[j]
    <3>1. CASE j = n + 1
      <4>1. j - 1 = n /\ n \in 0 .. K /\ n # n + 1
          BY <1>3, <3>1
      <4>2. key_buffer'[n] = c
          BY <1>1, <1>4, <4>1 DEF Buffers
      <4> QED
          BY <2>2, <2>3, <3>1, <4>1, <4>2
    <3>2. CASE j \in 1 .. n
      <4>1. j - 1 \in 0 .. K /\ j - 1 # n /\ j - 1 # n + 1
          BY <1>3, <3>2, Constants
      <4>2. key_buffer'[j - 1] = b[j - 1]
          BY <1>1, <1>4, <4>1 DEF Buffers
      <4> QED
          BY <2>1, <2>2, <2>3, <3>2, <4>2
    <3> QED
        BY <1>3, <3>1, <3>2
  <2>5. Line' = u
      BY <2>2, <2>3, <2>4, SeqEqual
  <2> QED
      BY <1>3, <2>1, <2>5 DEF u
<1>9. Input!Type
    BY <1>8 DEF Input!Type, K
<1> QED
    BY <1>6, <1>7, <1>9 DEF LineStep, Input!Next

\* Another key when the line is full: it is delivered, its first byte is
\* cleared, and a letter starts the next line.
LEMMA OverflowStep ==
    ASSUME LineInv, TailIsFlushed, Full,
           LET b == [key_buffer EXCEPT ![0] = NUL]
           IN  key_buffer' = b \/ \E c \in Chars : key_buffer' = append(b, c),
           delivered' = Line, overflowed' = TRUE
    PROVE  LineStep
<1> DEFINE b == [key_buffer EXCEPT ![0] = NUL]
<1>1. key_buffer \in Buffers /\ key_buffer[K] = NUL
    BY DEF LineInv
<1>2. b \in Buffers /\ b[0] = NUL /\ b[K] = NUL
    BY <1>1, Constants DEF Buffers
<1> HIDE DEF b
<1>3. Ends(b, 0) /\ String(b) = <<>> /\ 0 < K /\ 1 \in 0 .. K
    BY <1>2, EmptyEnds, Constants
<1>4. Len(Line) = K /\ \A j \in 1 .. K : Line[j] = key_buffer[j - 1]
  <2>1. PICK n \in 0 .. K : Ends(key_buffer, n)
      BY DEF LineInv
  <2>2. strlen(key_buffer) = n /\ n = K
      BY <1>1, <2>1, StrlenIs DEF Full, K
  <2> QED
      BY <1>1, <2>1, <2>2, StringIs DEF Line
<1>5. ASSUME NEW j \in 1 .. K, key_buffer'[j] = b[j] \/ key_buffer'[j] = NUL
      PROVE  key_buffer'[j] = NUL \/ (overflowed' /\ key_buffer'[j] = delivered'[j + 1])
  <2>1. j \in 0 .. K /\ j # 0 /\ (j = K \/ j + 1 \in 1 .. K)
      BY Constants
  <2>2. b[j] = key_buffer[j]
      BY <1>1, <2>1 DEF Buffers, b
  <2>3. CASE j = K
      BY <1>1, <1>5, <2>2, <2>3
  <2>4. CASE j + 1 \in 1 .. K
    <3>1. Line[j + 1] = key_buffer[j]
      <4>1. Line[j + 1] = key_buffer[j + 1 - 1] /\ j + 1 - 1 = j
          BY <1>4, <2>4, Constants
      <4> QED
          BY <4>1
    <3> QED
        BY <1>5, <2>2, <3>1
  <2> QED
      BY <2>1, <2>3, <2>4
<1>6. CASE key_buffer' = b
  <2>1. LineInv'
      BY <1>2, <1>3, <1>6, Constants DEF LineInv
  <2>2. Line' = <<>>
      BY <1>3, <1>6 DEF Line
  <2>3. Input!Overflow
      BY <1>4, <2>2 DEF Input!Overflow, K
  <2>4. TailIsFlushed'
    <3>1. strlen(key_buffer') = 0
        BY <1>2, <1>3, <1>6, StrlenIs
    <3>2. \A j \in 1 .. K : key_buffer'[j] = NUL \/ (overflowed' /\ key_buffer'[j] = delivered'[j + 1])
        BY <1>5, <1>6
    <3>3. key_buffer'[0] = NUL /\ \A j \in 0 .. K : j = 0 \/ j \in 1 .. K
        BY <1>2, <1>6, Constants
    <3> QED
        BY <3>1, <3>2, <3>3 DEF TailIsFlushed, K
  <2> QED
      BY <2>1, <2>3, <2>4 DEF LineStep, Input!Next
<1>7. ASSUME NEW c \in Chars, key_buffer' = append(b, c) PROVE LineStep
  <2>1. /\ key_buffer' \in Buffers /\ key_buffer' = [b EXCEPT ![0] = c, ![0 + 1] = NUL]
        /\ Ends(key_buffer', 0 + 1)
      BY <1>2, <1>3, <1>7, AppendEnds
  <2>2. /\ key_buffer' = [b EXCEPT ![0] = c, ![1] = NUL]
        /\ Ends(key_buffer', 1)
      BY <2>1
  <2>3. /\ key_buffer'[0] = c /\ key_buffer'[1] = NUL
        /\ K # 1 => key_buffer'[K] = b[K]
      BY <1>2, <1>3, <2>2, Constants DEF Buffers
  <2>4. LineInv'
      BY <1>2, <1>3, <2>1, <2>2, <2>3 DEF LineInv
  <2>5. Line' = <<c>>
    <3>1. /\ Line' \in Seq(Chars) /\ Len(Line') = 1
          /\ \A j \in 1 .. 1 : Line'[j] = key_buffer'[j - 1]
        BY <2>1, <2>2, StringIs DEF Line
    <3>2. Line'[1] = c
        BY <2>3, <3>1
    <3>3. <<c>> \in Seq(Chars) /\ Len(<<c>>) = 1 /\ <<c>>[1] = c
        OBVIOUS
    <3> QED
        BY <3>1, <3>2, <3>3, SeqEqual
  <2>6. Input!Overflow
      BY <1>4, <2>5 DEF Input!Overflow, K
  <2>7. TailIsFlushed'
    <3>1. strlen(key_buffer') = 1
        BY <2>1, <2>2, StrlenIs
    <3>2. ASSUME NEW j \in 1 .. K PROVE key_buffer'[j] = b[j] \/ key_buffer'[j] = NUL
        BY <1>2, <2>2, Constants DEF Buffers
    <3>3. \A j \in 1 .. K : key_buffer'[j] = NUL \/ (overflowed' /\ key_buffer'[j] = delivered'[j + 1])
        BY <1>5, <3>2
    <3> QED
        BY <3>1, <3>3 DEF TailIsFlushed, K
  <2> QED
      BY <2>4, <2>6, <2>7 DEF LineStep, Input!Next
<1> QED
    BY <1>6, <1>7 DEF b

LEMMA OtherStep ==
    ASSUME LineInv, TailIsFlushed, NEW k, NEW released \in BOOLEAN, NEW then,
           key_other(k, released, then)
    PROVE  LineStep
<1> DEFINE types == k \in Letters /\ ~released
<1>0. PICK f \in Flush :
          /\ key_buffer' = IF types THEN append(f.line, Letter(k)) ELSE f.line
          /\ delivered' = IF Full THEN String(key_buffer) ELSE delivered
          /\ overflowed' = (overflowed \/ Full)
    BY Zenon DEF key_other
<1>1. CASE ~Full
  <2>0. f.line = key_buffer
      BY <1>0, <1>1 DEF Flush
  <2>1. /\ key_buffer' = IF types THEN append(key_buffer, Letter(k)) ELSE key_buffer
        /\ UNCHANGED delivered /\ (overflowed' <=> overflowed)
      BY <1>0, <1>1, <2>0, Zenon
  <2>2. CASE types
      BY <1>1, <2>1, <2>2, LetterChar, TypeStep
  <2>3. CASE ~types
    <3>1. key_buffer' = key_buffer
        BY <2>1, <2>3
    <3>2. LineInv' /\ TailIsFlushed' /\ Line' = Line
        BY <2>1, <3>1 DEF LineInv, TailIsFlushed, Ends, Line
    <3> QED
        BY <2>1, <3>2 DEF LineStep
  <2> QED
      BY <2>2, <2>3
<1>2. CASE Full
  <2> DEFINE b == [key_buffer EXCEPT ![0] = NUL]
  <2>0. f.line = b
      BY <1>0, <1>2 DEF Flush
  <2>1. /\ key_buffer' = IF types THEN append(b, Letter(k)) ELSE b
        /\ delivered' = Line /\ overflowed' = TRUE
      BY <1>0, <1>2, <2>0, Zenon DEF Line
  <2>2. CASE types
      BY <1>2, <2>1, <2>2, LetterChar, OverflowStep
  <2>3. CASE ~types
      BY <1>2, <2>1, <2>3, OverflowStep
  <2> QED
      BY <2>2, <2>3
<1> QED
    BY <1>1, <1>2

\* Which part of keyboard_callback runs for which key.
LEMMA CallbackCases ==
    ASSUME NEW k, NEW released \in BOOLEAN, keyboard_callback(k, released)
    PROVE  \/ k = "BACKSPACE" /\ (key_erase \/ key_erase_nothing)
           \/ k = "ENTER" /\ key_enter
           \/ k = "Outside" /\ key_outside
           \/ key_other(k, released, "on")
BY DEF keyboard_callback

LEMMA KeyLineStep ==
    ASSUME LineInv, TailIsFlushed, NEW k, NEW released \in BOOLEAN,
           keyboard_callback(k, released)
    PROVE  LineStep
<1>1. CASE key_erase
    BY <1>1, EraseStep
<1>2. CASE key_erase_nothing
    BY <1>2, UnchangedLine DEF key_erase_nothing
<1>3. CASE key_enter
    BY <1>3, EnterStep
<1>4. CASE key_other(k, released, "on")
    BY <1>4, OtherStep
<1>5. CASE key_outside
    BY <1>5, OtherStep DEF key_outside
<1> QED
    BY <1>1, <1>2, <1>3, <1>4, <1>5, CallbackCases

LEMMA InitIInv ==
    Init => IInv /\ Input!Init
<1> SUFFICES ASSUME Init PROVE IInv /\ Input!Init
    OBVIOUS
<1>1. key_buffer = Zeroed /\ delivered = <<>>
    BY DEF Init
<1>2. key_buffer \in Buffers /\ \A j \in 0 .. K : key_buffer[j] = NUL
    BY <1>1 DEF Zeroed, Buffers, K
<1>3. Ends(key_buffer, 0) /\ Line = <<>>
    BY <1>2, EmptyEnds, Constants DEF Line
<1>4. LineInv
    BY <1>2, <1>3, Constants DEF LineInv
<1>5. TailIsFlushed
  <2>1. strlen(key_buffer) = 0
      BY <1>2, <1>3, StrlenIs
  <2> QED
      BY <1>2, <2>1 DEF TailIsFlushed, K
<1> QED
    BY <1>1, <1>3, <1>4, <1>5 DEF IInv, Input!Init

LEMMA NextIInv ==
    IInv /\ [Next]_vars => IInv' /\ [Input!Next]_<<Line, delivered>>
<1> SUFFICES ASSUME IInv, [Next]_vars PROVE IInv' /\ [Input!Next]_<<Line, delivered>>
    OBVIOUS
<1>1. CASE \E k \in user.keys, released \in BOOLEAN : keyboard_callback(k, released)
  <2>1. PICK k \in user.keys, released \in BOOLEAN : keyboard_callback(k, released)
      BY <1>1
  <2>2. LineStep
      BY <2>1, KeyLineStep DEF IInv
  <2> QED
      BY <2>2 DEF IInv, LineStep
<1>2. CASE UNCHANGED <<key_buffer, delivered, overflowed>>
  <2>1. LineStep
      BY <1>2, UnchangedLine DEF IInv
  <2> QED
      BY <2>1 DEF IInv, LineStep
<1>3. CASE (\E p \in DOMAIN Printers : run(p)) \/ tick \/ exit
    BY <1>2, <1>3 DEF run, tick, exit
<1>4. CASE put_char_step
    BY <1>2, <1>4 DEF put_char_step, Step
<1>5. CASE UNCHANGED vars
    BY <1>2, <1>5 DEF vars
<1> QED
    BY <1>1, <1>3, <1>4, <1>5 DEF Next

LEMMA SpecIInv ==
    Spec => []IInv
BY InitIInv, NextIInv, PTL DEF Spec

-----------------------------------------------------------------------------
(* screen.c                                                                *)

Scrs == [cells : [Screen -> Glyphs \cup {NUL}], index : {14, 15},
         reg : [{14, 15} -> 0 .. BYTE - 1], stray : BOOLEAN]

\* What the proofs need of the sizes.
Sizes == /\ COLS \in Nat /\ TAB \in Nat /\ BYTE \in Nat /\ CELLS \in Nat
         /\ 0 < TAB /\ TAB <= COLS /\ 0 < BYTE /\ CELLS <= BYTE * BYTE
         /\ K + 2 + COLS <= CELLS /\ K \in Nat \ {0}
         /\ ROWS \in Nat /\ CELLS = ROWS * COLS

LEMMA SizesHold == Sizes
<1>1. /\ ROWS \in Nat /\ COLS \in Nat /\ TAB \in Nat /\ BYTE \in Nat /\ K \in Nat \ {0}
      /\ CELLS <= BYTE * BYTE /\ 0 < TAB /\ TAB <= COLS /\ K + 2 <= CELLS - COLS
    BY ConsoleAssumption DEF K
<1>2. CELLS \in Nat /\ CELLS = ROWS * COLS
    BY <1>1 DEF CELLS
<1>3. BYTE # 0
    BY <1>1, <1>2
<1> QED
    BY <1>1, <1>2, <1>3 DEF Sizes

LEMMA Split ==
    ASSUME NEW o \in Int, NEW b \in Nat, b > 0
    PROVE  /\ o \div b \in Int /\ o % b \in 0 .. b - 1
           /\ o = ((o \div b) * b) + (o % b)
OBVIOUS

LEMMA Bytes ==
    ASSUME NEW o \in Int
    PROVE  /\ High(o) \in 0 .. BYTE - 1 /\ Low(o) \in 0 .. BYTE - 1
           /\ o \in Screen => High(o) * BYTE + Low(o) = o
<1>0. BYTE \in Nat /\ BYTE > 0 /\ CELLS \in Nat /\ CELLS <= BYTE * BYTE
    BY SizesHold DEF Sizes
<1> DEFINE q == o \div BYTE
           r == o % BYTE
<1>1. q \in Int /\ r \in 0 .. BYTE - 1 /\ o = q * BYTE + r
    BY <1>0, Split
<1> HIDE DEF q, r
<1>2. q % BYTE \in 0 .. BYTE - 1
    BY <1>0, <1>1, Split
<1>3. ASSUME o \in Screen PROVE q % BYTE = q
  <2>0. o >= 0 /\ o < BYTE * BYTE
      BY <1>0, <1>3 DEF Screen
  <2>1. q >= 0
    <3> SUFFICES ASSUME q <= -1 PROVE FALSE
        BY <1>1
    <3>1. q * BYTE <= -1 * BYTE
        BY <1>0, <1>1
    <3> QED
        BY <1>0, <1>1, <2>0, <3>1
  <2>2. q < BYTE
    <3> SUFFICES ASSUME q >= BYTE PROVE FALSE
        BY <1>0, <1>1
    <3>1. q * BYTE >= BYTE * BYTE
        BY <1>0, <1>1
    <3> QED
        BY <1>0, <1>1, <2>0, <3>1
  <2>3. \A x \in Int, b \in Nat : 0 <= x /\ x < b => x % b = x
      OBVIOUS
  <2> QED
      BY <1>0, <1>1, <2>1, <2>2, <2>3
<1> QED
    BY <1>1, <1>2, <1>3 DEF High, Low, q, r

\* Writing the cursor registers, and reading them back.
LEMMA SetCursor ==
    ASSUME NEW s \in Scrs, NEW o \in Int, NEW t, t = set_cursor_offset(s, o)
    PROVE  /\ t \in Scrs /\ t.cells = s.cells /\ t.stray = s.stray
           /\ o \in Screen => get_cursor_offset(t) = o
<1>1. High(o) \in 0 .. BYTE - 1 /\ Low(o) \in 0 .. BYTE - 1
    BY Bytes
<1>2. t.reg = [r \in {14, 15} |-> IF r = 14 THEN High(o) ELSE Low(o)]
    BY DEF set_cursor_offset
<1>3. t.reg[14] = High(o) /\ t.reg[15] = Low(o)
    BY <1>2
<1>4. t \in Scrs /\ t.cells = s.cells /\ t.stray = s.stray
    BY <1>1 DEF set_cursor_offset, Scrs
<1> QED
    BY <1>3, <1>4, Bytes DEF get_cursor_offset

Inputs == Glyphs \cup {"BS"}

LEMMA CursorInt ==
    ASSUME NEW s \in Scrs PROVE get_cursor_offset(s) \in Nat
<1>1. s.reg[14] \in 0 .. BYTE - 1 /\ s.reg[15] \in 0 .. BYTE - 1 /\ BYTE \in Nat
    BY SizesHold DEF Scrs, Sizes
<1>2. s.reg[14] \in Nat /\ s.reg[15] \in Nat
    BY <1>1
<1> QED
    BY <1>1, <1>2 DEF get_cursor_offset

\* A cell on the screen is written, anything else leaves the cells alone.
LEMMA PokeFacts ==
    ASSUME NEW s \in Scrs, NEW at \in Int, NEW ch \in Glyphs, NEW t, t = Poke(s, at, ch)
    PROVE  /\ t \in Scrs /\ t.reg = s.reg /\ t.index = s.index
           /\ at \in Screen => /\ t.stray = s.stray /\ t.cells[at] = ch
                               /\ \A x \in Screen \ {at} : t.cells[x] = s.cells[x]
<1>1. CASE at \in Screen
  <2>1. t = [s EXCEPT !.cells[at] = ch]
      BY <1>1 DEF Poke
  <2> QED
      BY <1>1, <2>1 DEF Scrs
<1>2. CASE at \notin Screen
  <2>1. t = [s EXCEPT !.stray = TRUE]
      BY <1>2 DEF Poke
  <2> QED
      BY <1>2, <2>1 DEF Scrs
<1> QED
    BY <1>1, <1>2

LEMMA ScrollFacts ==
    ASSUME NEW s \in Scrs, NEW t, t = scroll_up(s)
    PROVE  /\ t \in Scrs /\ t.reg = s.reg /\ t.index = s.index /\ t.stray = s.stray
           /\ \A x \in Screen : x + COLS \in Screen => t.cells[x] = s.cells[x + COLS]
<1> DEFINE u == [x \in Screen |-> IF x + COLS \in Screen THEN s.cells[x + COLS] ELSE NUL]
<1>1. t = [s EXCEPT !.cells = u]
    BY DEF scroll_up
<1>2. u \in [Screen -> Glyphs \cup {NUL}]
    BY DEF Scrs
<1>3. \A x \in Screen : x + COLS \in Screen => u[x] = s.cells[x + COLS]
    OBVIOUS
<1> HIDE DEF u
<1> QED
    BY <1>1, <1>2, <1>3 DEF Scrs

LEMMA CharFacts ==
    ASSUME NEW ch \in Chars
    PROVE  ch \in Glyphs /\ ch \notin {NUL, "BS", "LF", "CR", "TAB"}
BY ConsoleAssumption DEF Glyphs

LEMMA GlyphFacts ==
    ASSUME NEW ch \in Glyphs
    PROVE  ch # "BS" /\ ch # "CR" /\ ch # NUL
BY ConsoleAssumption DEF Glyphs, NUL

\* Everything that is printed moves the cursor forward, a row at most.
LEMMA AdvancedFacts ==
    ASSUME NEW at \in Int
    PROVE  /\ \A ch \in Inputs : Advanced(at, ch) \in Int
           /\ \A ch \in Glyphs : at < Advanced(at, ch) /\ Advanced(at, ch) <= at + COLS
           /\ \A ch \in Chars : Advanced(at, ch) = at + 1
           /\ Advanced(at, "BS") = at - 1
<1>0. COLS \in Nat /\ TAB \in Nat /\ 0 < TAB /\ TAB <= COLS
    BY SizesHold DEF Sizes
<1> DEFINE q == at \div COLS
           r == at % COLS
<1>1. q \in Int /\ r \in 0 .. COLS - 1 /\ at = (q * COLS) + r
    BY <1>0, Split
<1>2. Advanced(at, "LF") = (q + 1) * COLS
    BY DEF Advanced
<1> HIDE DEF q, r
<1>3. (q + 1) * COLS = (q * COLS) + COLS /\ (q * COLS) \in Int
    BY <1>0, <1>1
<1>4. Advanced(at, "LF") \in Int /\ at < Advanced(at, "LF") /\ Advanced(at, "LF") <= at + COLS
    BY <1>0, <1>1, <1>2, <1>3
<1>5. ASSUME NEW ch, ch \notin {"LF", "CR", "TAB", "BS"} PROVE Advanced(at, ch) = at + 1
    BY <1>5 DEF Advanced
<1>6. Advanced(at, "TAB") = at + TAB /\ Advanced(at, "BS") = at - 1
    BY DEF Advanced
<1>7. ASSUME NEW ch \in Glyphs
      PROVE  Advanced(at, ch) \in Int /\ at < Advanced(at, ch) /\ Advanced(at, ch) <= at + COLS
  <2>1. ch = "LF" \/ ch = "TAB" \/ ch \notin {"LF", "CR", "TAB", "BS"}
      BY GlyphFacts
  <2> QED
      BY <1>0, <1>4, <1>5, <1>6, <2>1
<1>8. \A ch \in Chars : Advanced(at, ch) = at + 1
    BY <1>5, CharFacts
<1>9. \A ch \in Inputs : Advanced(at, ch) \in Int
    BY <1>6, <1>7 DEF Inputs
<1> QED
    BY <1>6, <1>7, <1>8, <1>9

LEMMA DrawnFacts ==
    ASSUME NEW s \in Scrs, NEW at \in Int, NEW ch \in Inputs, NEW t, t = Drawn(s, at, ch)
    PROVE  /\ t \in Scrs /\ t.reg = s.reg /\ t.index = s.index
           /\ at \in Screen /\ ch \in Glyphs =>
                 /\ t.stray = s.stray
                 /\ \A x \in Screen \ {at} : t.cells[x] = s.cells[x]
                 /\ ch \in Chars => t.cells[at] = ch
           /\ at - 1 \in Screen /\ ch = "BS" =>
                 /\ t.stray = s.stray
                 /\ \A x \in Screen \ {at - 1} : t.cells[x] = s.cells[x]
<1>1. CASE ch = "BS"
  <2> DEFINE b == at - 1
             blank == " "
  <2>1. t = Poke(s, b, blank)
      BY <1>1 DEF Drawn
  <2>2. blank \in Glyphs /\ b \in Int
      BY DEF Glyphs
  <2>3. ch \notin Glyphs
      BY <1>1, GlyphFacts
  <2> HIDE DEF b, blank
  <2>4. /\ t \in Scrs /\ t.reg = s.reg /\ t.index = s.index
        /\ b \in Screen => /\ t.stray = s.stray
                           /\ \A x \in Screen \ {b} : t.cells[x] = s.cells[x]
      BY <2>1, <2>2, PokeFacts
  <2> QED
      BY <2>3, <2>4 DEF b
<1>2. CASE ch \in {"LF", "TAB"}
  <2>1. t = s
      BY <1>2 DEF Drawn
  <2>2. ch \notin Chars /\ ch # "BS"
      BY <1>2, CharFacts
  <2> QED
      BY <2>1, <2>2
<1>3. CASE ch \notin {"BS", "LF", "TAB"}
  <2>1. ch \in Glyphs /\ ch \notin {"LF", "CR", "TAB"}
      BY <1>3, GlyphFacts DEF Inputs
  <2>2. t = Poke(s, at, ch)
      BY <1>3, <2>1 DEF Drawn
  <2> QED
      BY <1>3, <2>1, <2>2, PokeFacts
<1> QED
    BY <1>1, <1>2, <1>3

LEMMA DrawnType ==
    ASSUME NEW s \in Scrs, NEW at \in Int, NEW ch \in Inputs, NEW t, t = Drawn(s, at, ch)
    PROVE  t \in Scrs /\ t.reg = s.reg /\ t.index = s.index
<1>1. CASE ch = "BS"
  <2> DEFINE b == at - 1
             blank == " "
  <2>1. t = Poke(s, b, blank)
      BY <1>1 DEF Drawn
  <2>2. blank \in Glyphs /\ b \in Int
      BY DEF Glyphs
  <2> HIDE DEF b, blank
  <2> QED
      BY <2>1, <2>2, PokeFacts
<1>2. CASE ch \in {"LF", "TAB"}
    BY <1>2 DEF Drawn
<1>3. CASE ch \notin {"BS", "LF", "TAB"}
  <2>1. ch \in Glyphs /\ ch \notin {"LF", "CR", "TAB"}
      BY <1>3, GlyphFacts DEF Inputs
  <2>2. t = Poke(s, at, ch)
      BY <1>3, <2>1 DEF Drawn
  <2> QED
      BY <2>1, <2>2, PokeFacts
<1> QED
    BY <1>1, <1>2, <1>3

LEMMA DrawnText ==
    ASSUME NEW s \in Scrs, NEW at \in Int, NEW ch \in Glyphs, at \in Screen,
           NEW t, t = Drawn(s, at, ch)
    PROVE  /\ t \in Scrs /\ t.stray = s.stray
           /\ \A x \in Screen \ {at} : t.cells[x] = s.cells[x]
           /\ ch \in Chars => t.cells[at] = ch
<1>1. ch \in Inputs
    BY DEF Inputs
<1> QED
    BY <1>1, DrawnFacts

LEMMA ScrolledFacts ==
    ASSUME NEW s \in Scrs, NEW at \in Int, NEW p, p = Scrolled(s, at)
    PROVE  /\ p.scr \in Scrs /\ p.at \in Int
           /\ p.scr.reg = s.reg /\ p.scr.index = s.index /\ p.scr.stray = s.stray
           /\ at < CELLS => p.at = at /\ p.scr = s
           /\ at >= CELLS => /\ p.at = at - COLS
                             /\ \A x \in Screen : x + COLS \in Screen =>
                                    p.scr.cells[x] = s.cells[x + COLS]
<1>0. COLS \in Nat /\ CELLS \in Nat
    BY SizesHold DEF Sizes
<1>1. CASE at >= CELLS
  <2>1. p.scr = scroll_up(s) /\ p.at = at - COLS
      BY <1>1 DEF Scrolled
  <2> QED
      BY <1>0, <1>1, <2>1, ScrollFacts
<1>2. CASE ~(at >= CELLS)
  <2>1. p.scr = s /\ p.at = at
      BY <1>2 DEF Scrolled
  <2> QED
      BY <1>0, <1>2, <2>1
<1> QED
    BY <1>1, <1>2

\* put_char between reading and writing the cursor, whatever was read.
LEMMA PutAtType ==
    ASSUME NEW s \in Scrs, NEW at \in Int, NEW ch \in Inputs, NEW p, p = PutAt(s, at, ch)
    PROVE  p.scr \in Scrs /\ p.at \in Int /\ p.scr.reg = s.reg /\ p.scr.index = s.index
<1> DEFINE d == Drawn(s, at, ch)
           a == Advanced(at, ch)
<1>1. d \in Scrs /\ d.reg = s.reg /\ d.index = s.index
  <2>1. d = Drawn(s, at, ch)
      OBVIOUS
  <2> HIDE DEF d
  <2> QED
      BY <2>1, DrawnType
<1>2. a \in Int
    BY AdvancedFacts
<1>3. p = Scrolled(d, a)
    BY DEF PutAt
<1> HIDE DEF d, a
<1> QED
    BY <1>1, <1>2, <1>3, ScrolledFacts

\* From a cursor on the screen, text goes on the screen and moves the cursor
\* forward, up to the last row; a letter is behind the ones before it.
LEMMA PutAtText ==
    ASSUME NEW s \in Scrs, NEW at \in Screen, NEW ch \in Glyphs, NEW n \in 0 .. K, n <= at,
           NEW p, p = PutAt(s, at, ch)
    PROVE  /\ p.at \in Screen /\ n < p.at /\ p.scr.stray = s.stray
           /\ ch \in Chars => /\ p.scr.cells[p.at - 1] = ch
                              /\ \A j \in 1 .. n : p.scr.cells[p.at - 1 - j] = s.cells[at - j]
<1> DEFINE d == Drawn(s, at, ch)
           a == Advanced(at, ch)
<1>0. /\ COLS \in Nat /\ CELLS \in Nat /\ K \in Nat /\ K + 2 + COLS <= CELLS /\ 0 < COLS
      /\ at \in Int /\ at >= 0 /\ at < CELLS /\ n \in Nat /\ n <= K
    BY SizesHold DEF Sizes, Screen
<1>1. /\ d \in Scrs /\ d.stray = s.stray
      /\ \A x \in Screen \ {at} : d.cells[x] = s.cells[x]
      /\ ch \in Chars => d.cells[at] = ch
  <2>1. d = Drawn(s, at, ch)
      OBVIOUS
  <2> HIDE DEF d
  <2> QED
      BY <1>0, <2>1, DrawnText
<1>2. a \in Int /\ at < a /\ a <= at + COLS /\ (ch \in Chars => a = at + 1)
    BY <1>0, AdvancedFacts DEF Inputs
<1>3. p = Scrolled(d, a)
    BY DEF PutAt
<1> HIDE DEF d, a
<1>4. /\ p.scr.stray = d.stray
      /\ a < CELLS => p.at = a /\ p.scr = d
      /\ a >= CELLS => /\ p.at = a - COLS
                       /\ \A x \in Screen : x + COLS \in Screen =>
                              p.scr.cells[x] = d.cells[x + COLS]
    BY <1>1, <1>2, <1>3, ScrolledFacts
<1>5. p.at \in Screen /\ n < p.at
    BY <1>0, <1>2, <1>4 DEF Screen
<1>6. ASSUME ch \in Chars, NEW j \in 0 .. n
      PROVE  p.scr.cells[p.at - 1 - j] = IF j = 0 THEN ch ELSE s.cells[at - j]
  <2>1. j \in Int /\ 0 <= j /\ j <= n /\ a = at + 1
      BY <1>0, <1>2, <1>6
  <2>2. at - j \in Screen /\ (j # 0 => at - j # at) /\ (j = 0 => at - j = at)
      BY <1>0, <2>1 DEF Screen
  <2>3. p.scr.cells[p.at - 1 - j] = d.cells[at - j]
    <3>1. CASE a < CELLS
      <4>1. p.at - 1 - j = at - j
          BY <1>0, <1>4, <2>1, <3>1
      <4> QED
          BY <1>4, <3>1, <4>1
    <3>2. CASE a >= CELLS
      <4> DEFINE x == at - COLS - j
      <4>1. p.at - 1 - j = x /\ x \in Screen /\ x + COLS = at - j
          BY <1>0, <1>4, <2>1, <3>2 DEF Screen
      <4> HIDE DEF x
      <4> QED
          BY <1>4, <2>2, <3>2, <4>1
    <3> QED
        BY <1>0, <1>2, <3>1, <3>2
  <2> QED
      BY <1>1, <1>6, <2>2, <2>3
<1>7. ASSUME ch \in Chars PROVE p.scr.cells[p.at - 1] = ch
  <2>1. 0 \in 0 .. n /\ p.at - 1 - 0 = p.at - 1
      BY <1>0, <1>5 DEF Screen
  <2> QED
      BY <1>6, <1>7, <2>1
<1>8. ASSUME ch \in Chars, NEW j \in 1 .. n PROVE p.scr.cells[p.at - 1 - j] = s.cells[at - j]
  <2>1. j \in 0 .. n /\ j # 0
      BY <1>0
  <2> QED
      BY <1>6, <1>8, <2>1
<1> QED
    BY <1>1, <1>4, <1>5, <1>7, <1>8

\* A backspace behind at least one cell goes back by one.
LEMMA PutAtErase ==
    ASSUME NEW s \in Scrs, NEW at \in Screen, at > 0, NEW p, p = PutAt(s, at, "BS")
    PROVE  /\ p.at = at - 1 /\ p.scr.stray = s.stray
           /\ \A x \in 0 .. at - 2 : p.scr.cells[x] = s.cells[x]
<1> DEFINE d == Drawn(s, at, "BS")
<1>0. CELLS \in Nat /\ at \in Int /\ at >= 0 /\ at < CELLS
    BY SizesHold DEF Sizes, Screen
<1>1. at - 1 \in Screen /\ at - 1 \in Int /\ "BS" \in Inputs
    BY <1>0 DEF Screen, Inputs
<1>2. d \in Scrs /\ d.stray = s.stray /\ \A x \in Screen \ {at - 1} : d.cells[x] = s.cells[x]
    BY <1>0, <1>1, DrawnFacts
<1>3. p = Scrolled(d, at - 1)
    BY <1>0, AdvancedFacts DEF PutAt
<1> HIDE DEF d
<1>4. p.at = at - 1 /\ p.scr = d
    BY <1>0, <1>1, <1>2, <1>3, ScrolledFacts
<1>5. \A x \in 0 .. at - 2 : x \in Screen \ {at - 1}
    BY <1>0 DEF Screen
<1> QED
    BY <1>2, <1>4, <1>5

LEMMA LessOnNat == OpToRel(<, Nat) = {p \in Nat \X Nat : p[1] < p[2]}
BY DEF OpToRel

\* The least number principle, for what a text or a search does step by step.
LEMMA LeastNumber ==
    ASSUME NEW T \in SUBSET Nat, T # {}
    PROVE  \E x \in T : \A y \in T : x <= y
<1> DEFINE Less == OpToRel(<, Nat)
<1>1. IsWellFoundedOn(Less, Nat)
    BY NatLessThanWellFounded
<1>2. Less = {p \in Nat \X Nat : p[1] < p[2]}
    BY LessOnNat
<1> HIDE DEF Less
<1>3. PICK x \in T : \A y \in T : ~(<<y, x>> \in Less)
    BY <1>1, WFMin
<1>4. ASSUME NEW y \in T PROVE x <= y
  <2>1. x \in Nat /\ y \in Nat
      OBVIOUS
  <2>2. ~(<<y, x>> \in Less)
      BY <1>3
  <2>3. ~(y < x)
      BY <1>2, <2>1, <2>2
  <2> QED
      BY <2>1, <2>3
<1> QED
    BY <1>4

\* So a set of numbers below n + 1 with 0, closed under successor, has them all.
LEMMA Climb ==
    ASSUME NEW n \in Nat, NEW T, 0 \in T, \A k \in 0 .. n - 1 : k \in T => k + 1 \in T
    PROVE  \A k \in 0 .. n : k \in T
<1> DEFINE D == {k \in 0 .. n : k \notin T}
<1> SUFFICES ASSUME D # {} PROVE FALSE
    OBVIOUS
<1>1. D \in SUBSET Nat
    OBVIOUS
<1>2. PICK x \in D : \A y \in D : x <= y
    BY <1>1, LeastNumber
<1>3. x \in 0 .. n /\ x \notin T /\ x # 0
    BY <1>2
<1>4. x - 1 \in 0 .. n - 1 /\ x - 1 \in 0 .. n /\ x - 1 + 1 = x /\ ~(x <= x - 1)
    BY <1>3
<1>5. x - 1 \in T
    BY <1>2, <1>4
<1> QED
    BY <1>3, <1>4, <1>5

\* A cursor on the screen, and no write outside of it so far.
Shown(s) == s \in Scrs /\ ~s.stray /\ get_cursor_offset(s) \in Screen

LEMMA PutCharType ==
    ASSUME NEW s \in Scrs, NEW ch \in Inputs
    PROVE  put_char(s, ch) \in Scrs
<1> DEFINE c == get_cursor_offset(s)
           p == PutAt(s, c, ch)
<1>1. c \in Int
    BY CursorInt
<1> HIDE DEF c
<1>2. p.scr \in Scrs /\ p.at \in Int
    BY <1>1, PutAtType
<1>3. put_char(s, ch) = set_cursor_offset(p.scr, p.at)
    BY DEF put_char, c
<1> HIDE DEF p
<1> QED
    BY <1>2, <1>3, SetCursor

LEMMA PutCharText ==
    ASSUME NEW s, Shown(s), NEW ch \in Glyphs,
           NEW n \in 0 .. K, n <= get_cursor_offset(s), NEW t, t = put_char(s, ch)
    PROVE  /\ Shown(t) /\ n < get_cursor_offset(t)
           /\ ch \in Chars =>
                 /\ t.cells[get_cursor_offset(t) - 1] = ch
                 /\ \A j \in 1 .. n : t.cells[get_cursor_offset(t) - 1 - j]
                                          = s.cells[get_cursor_offset(s) - j]
<1> DEFINE c == get_cursor_offset(s)
           p == PutAt(s, c, ch)
           Shifted == ch \in Chars =>
                 /\ p.scr.cells[p.at - 1] = ch
                 /\ \A j \in 1 .. n : p.scr.cells[p.at - 1 - j] = s.cells[c - j]
<1>1. s \in Scrs /\ ~s.stray /\ c \in Screen /\ c \in Int /\ n <= c
    BY DEF Shown, Screen
<1>2. t = set_cursor_offset(p.scr, p.at)
    BY DEF put_char
<1> HIDE DEF c
<1>3. p.scr \in Scrs /\ p.at \in Int
    BY <1>1, PutAtType DEF Inputs
<1>4. /\ p.at \in Screen /\ n < p.at /\ p.scr.stray = s.stray
      /\ Shifted
  <2> HIDE DEF p
  <2>1. p = PutAt(s, c, ch)
      BY DEF p
  <2> QED
      BY <1>1, <2>1, PutAtText
<1> HIDE DEF p
<1>5. t \in Scrs /\ t.cells = p.scr.cells /\ t.stray = p.scr.stray /\ get_cursor_offset(t) = p.at
    BY <1>2, <1>3, <1>4, SetCursor
<1> QED
    BY <1>1, <1>4, <1>5 DEF Shown, c

LEMMA PutCharErase ==
    ASSUME NEW s, Shown(s), get_cursor_offset(s) > 0, NEW t, t = put_char(s, "BS")
    PROVE  /\ Shown(t) /\ get_cursor_offset(t) = get_cursor_offset(s) - 1
           /\ \A x \in 0 .. get_cursor_offset(s) - 2 : t.cells[x] = s.cells[x]
<1> DEFINE c == get_cursor_offset(s)
           p == PutAt(s, c, "BS")
<1>0. CELLS \in Nat
    BY SizesHold DEF Sizes
<1>1. s \in Scrs /\ ~s.stray /\ c \in Screen /\ c \in Int /\ c > 0 /\ c - 1 \in Screen
    BY <1>0 DEF Shown, Screen
<1>2. t = set_cursor_offset(p.scr, p.at)
    BY DEF put_char
<1> HIDE DEF c
<1>3. p.scr \in Scrs /\ p.at \in Int
    BY <1>1, PutAtType DEF Inputs
<1>4. /\ p.at = c - 1 /\ p.scr.stray = s.stray
      /\ \A x \in 0 .. c - 2 : p.scr.cells[x] = s.cells[x]
  <2> HIDE DEF p
  <2>1. p = PutAt(s, c, "BS")
      BY DEF p
  <2> QED
      BY <1>1, <2>1, PutAtErase
<1> HIDE DEF p
<1>5. t \in Scrs /\ t.cells = p.scr.cells /\ t.stray = p.scr.stray /\ get_cursor_offset(t) = p.at
  <2>1. p.at \in Screen
      BY <1>1, <1>4
  <2> QED
      BY ONLY <1>2, <1>3, <2>1, SetCursor
<1> QED
    BY <1>1, <1>4, <1>5 DEF Shown, c

\* printf is put_char of each character in turn: the screens in between.
Trail(f, s, text, n) ==
    f = [k \in 0 .. n |-> IF k = 0 THEN s ELSE put_char(f[k - 1], text[k])]

LEMMA TrailExists ==
    ASSUME NEW s, NEW text, NEW n \in Nat
    PROVE  \E f : Trail(f, s, text, n)
<1> DEFINE T == {k \in 0 .. n : \E f : Trail(f, s, text, k)}
<1>1. 0 \in T
  <2> DEFINE g == [k \in 0 .. 0 |-> s]
  <2>1. g = [k \in 0 .. 0 |-> IF k = 0 THEN s ELSE put_char(g[k - 1], text[k])]
      OBVIOUS
  <2>2. Trail(g, s, text, 0)
      BY <2>1 DEF Trail
  <2> QED
      BY <2>2
<1>2. ASSUME NEW m \in 0 .. n - 1, m \in T PROVE m + 1 \in T
  <2>1. PICK f : Trail(f, s, text, m)
      BY <1>2
  <2>2. f = [k \in 0 .. m |-> IF k = 0 THEN s ELSE put_char(f[k - 1], text[k])]
      BY <2>1 DEF Trail
  <2> DEFINE g == [k \in 0 .. m + 1 |-> IF k = m + 1 THEN put_char(f[m], text[m + 1]) ELSE f[k]]
  <2>3. m \in Nat /\ m + 1 \in 0 .. n
      OBVIOUS
  <2>4. ASSUME NEW k \in 0 .. m + 1
        PROVE  g[k] = IF k = 0 THEN s ELSE put_char(g[k - 1], text[k])
    <3>1. CASE k = 0
        BY <2>2, <2>3, <3>1
    <3>2. CASE k = m + 1
      <4>1. k # 0 /\ k - 1 = m /\ m \in 0 .. m + 1 /\ m # m + 1
          BY <2>3, <3>2
      <4>2. g[k - 1] = f[m] /\ g[k] = put_char(f[m], text[k])
          BY <3>2, <4>1
      <4> QED
          BY <4>1, <4>2
    <3>3. CASE k \in 1 .. m
      <4>1. k # 0 /\ k # m + 1 /\ k - 1 # m + 1 /\ k - 1 \in 0 .. m + 1 /\ k \in 0 .. m
          BY <2>3, <3>3
      <4>2. g[k - 1] = f[k - 1] /\ g[k] = f[k]
          BY <4>1
      <4>3. f[k] = put_char(f[k - 1], text[k])
          BY <2>2, <4>1
      <4> QED
          BY <4>1, <4>2, <4>3
    <3> QED
        BY <2>3, <3>1, <3>2, <3>3
  <2>5. g = [k \in 0 .. m + 1 |-> g[k]]
      OBVIOUS
  <2> HIDE DEF g
  <2>6. Trail(g, s, text, m + 1)
      BY <2>4, <2>5 DEF Trail
  <2> QED
      BY <2>3, <2>6
<1> HIDE DEF T
<1>3. n \in T
    BY <1>1, <1>2, Climb
<1> QED
    BY <1>3 DEF T

LEMMA PrintfTrail ==
    ASSUME NEW s, NEW text, Len(text) \in Nat
    PROVE  \E f : Trail(f, s, text, Len(text)) /\ printf(s, text) = f[Len(text)]
<1> DEFINE g == CHOOSE f : Trail(f, s, text, Len(text))
<1>1. Trail(g, s, text, Len(text))
    BY TrailExists, Zenon
<1>2. printf(s, text) = g[Len(text)]
    BY DEF printf, Trail
<1> QED
    BY <1>1, <1>2

\* A text keeps the screen's type, keeps the cursor on the screen, and leaves it
\* behind its start.
LEMMA PrintfFacts ==
    ASSUME NEW s \in Scrs, NEW text \in Seq(Glyphs)
    PROVE  /\ printf(s, text) \in Scrs
           /\ Shown(s) => Shown(printf(s, text))
<1> DEFINE n == Len(text)
<1>1. n \in Nat /\ \A k \in 1 .. n : text[k] \in Glyphs
    OBVIOUS
<1>2. PICK f : Trail(f, s, text, n) /\ printf(s, text) = f[n]
    BY <1>1, PrintfTrail
<1> HIDE DEF n
<1>3. /\ f[0] = s
      /\ \A k \in 0 .. n - 1 : f[k + 1] = put_char(f[k], text[k + 1])
  <2>1. f = [k \in 0 .. n |-> IF k = 0 THEN s ELSE put_char(f[k - 1], text[k])]
      BY <1>2 DEF Trail
  <2>2. f[0] = s
      BY <1>1, <2>1
  <2>3. ASSUME NEW k \in 0 .. n - 1 PROVE f[k + 1] = put_char(f[k], text[k + 1])
    <3> DEFINE m == k + 1
    <3>1. m \in 0 .. n /\ m # 0 /\ m - 1 = k
        BY <1>1
    <3> HIDE DEF m
    <3>2. f[m] = put_char(f[m - 1], text[m])
        BY <2>1, <3>1
    <3> QED
        BY <3>1, <3>2 DEF m
  <2> QED
      BY <2>2, <2>3
<1> DEFINE T == {k \in 0 .. n : f[k] \in Scrs /\ (Shown(s) => Shown(f[k]))}
<1>4. 0 \in T
    BY <1>1, <1>3
<1>5. ASSUME NEW k \in 0 .. n - 1, k \in T PROVE k + 1 \in T
  <2> DEFINE ch == text[k + 1]
             u == f[k]
             v == f[k + 1]
  <2>1. ch \in Glyphs /\ k + 1 \in 0 .. n
      BY <1>1
  <2>2. v = put_char(u, ch) /\ u \in Scrs /\ (Shown(s) => Shown(u))
      BY <1>3, <1>5
  <2> HIDE DEF ch, u, v
  <2>3. v \in Scrs
      BY <2>1, <2>2, PutCharType DEF Inputs
  <2>4. Shown(s) => Shown(v)
    <3>1. 0 \in 0 .. K /\ 0 <= get_cursor_offset(u)
        BY <2>2, CursorInt, Constants
    <3> QED
        BY <2>1, <2>2, <3>1, PutCharText
  <2> QED
      BY <2>1, <2>3, <2>4 DEF v
<1> HIDE DEF T
<1>6. \A k \in 0 .. n : k \in T
    BY ONLY <1>1, <1>4, <1>5, Climb
<1>7. n \in T
    BY <1>1, <1>6
<1> QED
    BY <1>2, <1>7 DEF T

LEMMA ClearFacts ==
    ASSUME NEW s \in Scrs, NEW t, t = clear_screen(s)
    PROVE  t \in Scrs /\ (~s.stray => Shown(t))
<1> DEFINE u == [s EXCEPT !.cells = [x \in Screen |-> " "]]
<1>1. u \in Scrs /\ u.stray = s.stray
  <2>1. " " \in Glyphs
      BY DEF Glyphs
  <2> QED
      BY <2>1 DEF Scrs
<1>2. t = set_cursor_offset(u, 0)
    BY DEF clear_screen
<1>3. 0 \in Screen
    BY SizesHold DEF Sizes, Screen
<1> HIDE DEF u
<1>4. t \in Scrs /\ t.stray = u.stray /\ get_cursor_offset(t) = 0
    BY <1>1, <1>2, <1>3, SetCursor
<1> QED
    BY <1>1, <1>3, <1>4 DEF Shown

-----------------------------------------------------------------------------
(* What the shell prints                                                   *)

Results == [clear : BOOLEAN, text : Seq(Glyphs), mode : {"command", "calculator"},
            power : {"on", "off", "fault"}]

\* The string from any byte of the buffer on ends at the first NUL.
LEMMA StringAtType ==
    ASSUME NEW b \in Buffers, b[K] = NUL, NEW from \in 0 .. K
    PROVE  StringAt(b, from) \in Seq(Glyphs)
<1> DEFINE t == [j \in 0 .. K - from |-> b[from + j]]
           T == {j \in 0 .. K - from : t[j] = NUL}
           n == strlen(t)
<1>0. K \in Nat /\ from \in Nat /\ from <= K
    BY Constants
<1>1. DOMAIN t = 0 .. K - from
    OBVIOUS
<1>2. \A j \in 0 .. K - from : t[j] = b[from + j] /\ t[j] \in Chars \cup {NUL}
    BY <1>0 DEF Buffers
<1>3. K - from \in T
  <2>1. K - from \in 0 .. K - from /\ from + (K - from) = K
      BY <1>0
  <2> QED
      BY <1>2, <2>1
<1>4. T \in SUBSET Nat
    BY <1>0
<1> HIDE DEF t, T
<1>5. PICK m \in T : \A y \in T : m <= y
    BY <1>3, <1>4, LeastNumber
<1>6. m \in DOMAIN t /\ t[m] = NUL /\ \A j \in 0 .. m - 1 : t[j] # NUL
  <2>1. m \in 0 .. K - from /\ t[m] = NUL
      BY <1>5 DEF T
  <2>2. ASSUME NEW j \in 0 .. m - 1 PROVE t[j] # NUL
    <3>1. j \in 0 .. K - from /\ ~(m <= j)
        BY <1>0, <2>1
    <3> QED
        BY <1>5, <3>1 DEF T
  <2> QED
      BY <1>1, <2>1, <2>2
<1>7. n \in DOMAIN t /\ t[n] = NUL /\ \A j \in 0 .. n - 1 : t[j] # NUL
    BY <1>6, Zenon DEF strlen
<1>8. StringAt(b, from) = [j \in 1 .. n |-> t[j - 1]]
    BY DEF StringAt, t, K
<1> HIDE DEF n
<1>9. n \in Nat /\ n <= K - from
    BY <1>0, <1>1, <1>7
<1>10. ASSUME NEW j \in 1 .. n PROVE t[j - 1] \in Glyphs
  <2> DEFINE i == j - 1
  <2>1. i \in 0 .. n - 1 /\ i \in 0 .. K - from
      BY <1>0, <1>9
  <2> HIDE DEF i
  <2>2. t[i] \in Chars
      BY <1>2, <1>7, <2>1
  <2> QED
      BY <2>2, CharFacts DEF i
<1> QED
    BY <1>8, <1>9, <1>10

LEMMA LineType ==
    ASSUME NEW b \in Buffers, b[K] = NUL
    PROVE  String(b) \in Seq(Glyphs)
<1>1. 0 \in 0 .. K
    BY Constants
<1> QED
    BY <1>1, StringAtType DEF String

LEMMA Tuples ==
    ASSUME NEW S, NEW a \in S, NEW b \in S, NEW c \in S, NEW d \in S
    PROVE  /\ <<a>> \in Seq(S) /\ <<a, b>> \in Seq(S) /\ <<a, b, c>> \in Seq(S)
           /\ <<a, b, c, d>> \in Seq(S)
OBVIOUS

LEMMA TextTypes ==
    /\ Message \in Seq(Glyphs) /\ help \in Seq(Glyphs)
    /\ <<"t", "LF">> \in Seq(Glyphs) /\ <<"t", "LF", "t">> \in Seq(Glyphs)
    /\ <<"LF">> \in Seq(Glyphs) /\ <<"LF", ">", " ">> \in Seq(Glyphs)
<1>1. "t" \in Glyphs /\ "LF" \in Glyphs /\ "TAB" \in Glyphs /\ ">" \in Glyphs /\ " " \in Glyphs
    BY DEF Glyphs
<1> QED
    BY <1>1, Tuples, Zenon DEF Message, help

LEMMA ResultType ==
    ASSUME NEW c \in BOOLEAN, NEW x \in Seq(Glyphs), NEW m \in {"command", "calculator"},
           NEW p \in {"on", "off", "fault"}
    PROVE  Result(c, x, m, p) \in Results
BY DEF Result, Results

LEMMA CommandType ==
    ASSUME NEW b \in Buffers, b[K] = NUL
    PROVE  command_mode(b) \in Results
<1> DEFINE line == String(b)
<1>1. line \in Seq(Glyphs)
    BY LineType
<1>2. Message \o line \in Seq(Glyphs)
    BY <1>1, TextTypes, ConcatProperties
<1>3. print_argument(b) \in Seq(Glyphs)
  <2> DEFINE from == Len(Commands["print"]) + 1
  <2>1. from \in 0 .. K
      BY ConsoleAssumption DEF K
  <2> HIDE DEF from
  <2>2. StringAt(b, from) \in Seq(Glyphs)
      BY <2>1, StringAtType
  <2>3. print_argument(b) \in {Message, StringAt(b, from)}
      BY DEF print_argument, from
  <2> QED
      BY <2>2, <2>3, TextTypes
<1> DEFINE R == {Result(FALSE, help, "command", "on"), Result(FALSE, Message, "command", "on"),
                 Result(TRUE, Message, "command", "on"),
                 Result(FALSE, <<"t", "LF", "t">>, "calculator", "on"),
                 Result(FALSE, print_argument(b), "command", "on"),
                 Result(FALSE, Message \o line, "command", "on")}
<1>4. command_mode(b) \in R
    BY DEF command_mode
<1>5. R \subseteq Results
  <2>1. /\ Result(FALSE, help, "command", "on") \in Results
        /\ Result(FALSE, Message, "command", "on") \in Results
      BY TextTypes, ResultType
  <2>2. Result(TRUE, Message, "command", "on") \in Results
      BY TextTypes, ResultType
  <2>3. Result(FALSE, <<"t", "LF", "t">>, "calculator", "on") \in Results
      BY TextTypes, ResultType
  <2>4. Result(FALSE, print_argument(b), "command", "on") \in Results
      BY <1>3, ResultType
  <2>5. Result(FALSE, Message \o line, "command", "on") \in Results
      BY <1>2, ResultType
  <2> QED
      BY <2>1, <2>2, <2>3, <2>4, <2>5
<1> QED
    BY <1>4, <1>5

LEMMA CalculatorType ==
    ASSUME NEW b PROVE calculator_mode(b) \subseteq Results
<1> DEFINE quit == Result(FALSE, Message, "command", "on")
           sin == Result(FALSE, Message, "calculator", "on")
           none == Result(FALSE, <<"t", "LF">>, "calculator", "on")
           wild == Result(FALSE, <<"t", "LF", "t">>, "calculator", "on")
           fault == Result(FALSE, <<"t", "LF">>, "calculator", "fault")
<1>1. quit \in Results /\ sin \in Results /\ none \in Results
    BY TextTypes, ResultType
<1>2. wild \in Results /\ fault \in Results
    BY TextTypes, ResultType
<1>3. \A line : split(line) \subseteq {wild, fault}
    BY DEF split
<1>4. calculator_mode(b) \in {{quit}, {sin}, {none} \cup split(String(b))}
    BY DEF calculator_mode
<1> HIDE DEF quit, sin, none, wild, fault
<1> QED
    BY <1>1, <1>2, <1>3, <1>4

LEMMA UserInputType ==
    ASSUME NEW b \in Buffers, b[K] = NUL, state \in {"command", "calculator"},
           NEW r \in user_input(b)
    PROVE  r \in Results
<1>1. <<"t", "LF">> \in Seq(Glyphs)
    BY TextTypes
<1> DEFINE A == {Result(FALSE, <<"t", "LF">>, state, then) : then \in {"on", "off"}}
           B == {Result(FALSE, <<"t", "LF">>, state, "off")}
           C == shell_command(b)
<1>0. user_input(b) = A \/ user_input(b) = B \/ user_input(b) = C
  <2> HIDE DEF C
  <2>1. user_input(b) = CASE String(b) = Commands["shutdown"] -> A
                          [] String(b) = Commands["restart"] -> B
                          [] OTHER -> C
      BY DEF user_input, C
  <2> HIDE DEF A, B
  <2> QED
      BY <2>1
<1>2. CASE r \in A
  <2>1. PICK then \in {"on", "off"} : r = Result(FALSE, <<"t", "LF">>, state, then)
      BY <1>2
  <2> QED
      BY <1>1, <2>1, ResultType
<1>3. CASE r \in B
  <2>1. r = Result(FALSE, <<"t", "LF">>, state, "off")
      BY <1>3
  <2> QED
      BY <1>1, <2>1, ResultType
<1>4. CASE r \in C
  <2> DEFINE S == IF state = "command" THEN {command_mode(b)} ELSE calculator_mode(b)
             prompt == <<"LF", ">", " ">>
  <2>2. S \subseteq Results
      BY CommandType, CalculatorType
  <2> HIDE DEF S
  <2>3. PICK q \in S : r = [q EXCEPT !.text = q.text \o prompt]
      BY <1>4 DEF shell_command, S
  <2>4. q \in Results /\ q.text \in Seq(Glyphs) /\ prompt \in Seq(Glyphs)
      BY <2>2, TextTypes DEF Results
  <2> HIDE DEF prompt
  <2>5. q.text \o prompt \in Seq(Glyphs)
      BY <2>4, ConcatProperties
  <2> QED
      BY <2>3, <2>4, <2>5 DEF Results
<1> QED
    BY <1>0, <1>2, <1>3, <1>4

\* A submitted line scrolls, clears and prints on the screen.
LEMMA SubmittedFacts ==
    ASSUME NEW s \in Scrs, NEW r \in Results
    PROVE  /\ Submitted(s, r) \in Scrs
           /\ Shown(s) => Shown(Submitted(s, r))
<1> DEFINE n == printf(s, <<"LF">>)
           m == IF r.clear THEN clear_screen(n) ELSE n
<1>1. n \in Scrs /\ (Shown(s) => Shown(n))
    BY TextTypes, PrintfFacts
<1> HIDE DEF n
<1>2. m \in Scrs /\ (Shown(s) => Shown(m))
    BY <1>1, ClearFacts DEF Shown
<1>3. Submitted(s, r) = printf(m, r.text) /\ r.text \in Seq(Glyphs)
    BY DEF Submitted, Results, n
<1> HIDE DEF m
<1> QED
    BY <1>2, <1>3, PrintfFacts

-----------------------------------------------------------------------------
(* The screen against the line                                             *)

\* The cursor is on the screen, behind at least the n letters of the line, and
\* shows the last e of them.
Quiet(s, b, n, e) ==
    /\ Shown(s) /\ n <= get_cursor_offset(s)
    /\ \A j \in 1 .. e : s.cells[get_cursor_offset(s) - j] = b[n - j]

LEMMA EraseQuiet ==
    ASSUME NEW s, NEW b \in Buffers, NEW n, Ends(b, n), n # 0, NEW e \in 0 .. n,
           Quiet(s, b, n, e)
    PROVE  Quiet(put_char(s, "BS"), backspace(b), n - 1, IF e > 0 THEN e - 1 ELSE 0)
<1> DEFINE c == get_cursor_offset(s)
           t == put_char(s, "BS")
           d == backspace(b)
           f == IF e > 0 THEN e - 1 ELSE 0
<1>0. n \in Nat /\ n <= K /\ n > 0 /\ K \in Nat /\ e \in Nat /\ e <= n
    BY Constants DEF Ends
<1>1. Shown(s) /\ c \in Nat /\ c > 0 /\ n <= c
    BY <1>0, CursorInt DEF Quiet, Shown
<1>2. /\ Shown(t) /\ get_cursor_offset(t) = c - 1
      /\ \A x \in 0 .. c - 2 : t.cells[x] = s.cells[x]
  <2> HIDE DEF t
  <2>1. t = put_char(s, "BS")
      BY DEF t
  <2> QED
      BY <1>1, <2>1, PutCharErase
<1>3. d = [b EXCEPT ![n - 1] = NUL]
    BY BackspaceEnds
<1>4. \A j \in 1 .. e : s.cells[c - j] = b[n - j]
    BY DEF Quiet
<1> HIDE DEF c, t, d
<1>5. ASSUME NEW j \in 1 .. f PROVE t.cells[c - 1 - j] = d[n - 1 - j]
  <2> DEFINE i == j + 1
             x == c - i
             y == n - i
  <2>1. i \in 1 .. e /\ c - 1 - j = x /\ n - 1 - j = y
      BY <1>0, <1>1
  <2>2. x \in 0 .. c - 2 /\ y \in 0 .. K /\ y # n - 1
      BY <1>0, <1>1, <2>1
  <2>3. s.cells[x] = b[y]
      BY <1>4, <2>1
  <2> HIDE DEF x, y, i
  <2>4. d[y] = b[y]
      BY <1>3, <2>2 DEF Buffers
  <2>5. t.cells[x] = s.cells[x]
      BY <1>2, <2>2
  <2> QED
      BY <2>1, <2>3, <2>4, <2>5
<1> HIDE DEF f
<1>6. Quiet(t, d, n - 1, f)
    BY <1>0, <1>1, <1>2, <1>5 DEF Quiet
<1> QED
    BY <1>6 DEF t, d, f

LEMMA TypeQuiet ==
    ASSUME NEW s, NEW b \in Buffers, NEW n, Ends(b, n), n < K, NEW e \in 0 .. n,
           Quiet(s, b, n, e), NEW ch \in Chars
    PROVE  Quiet(put_char(s, ch), append(b, ch), n + 1, e + 1)
<1> DEFINE c == get_cursor_offset(s)
           t == put_char(s, ch)
           a == get_cursor_offset(t)
           d == append(b, ch)
<1>0. n \in Nat /\ n <= K /\ K \in Nat /\ e \in Nat /\ e <= n /\ n \in 0 .. K
    BY Constants DEF Ends
<1>1. Shown(s) /\ c \in Nat /\ n <= c /\ \A j \in 1 .. e : s.cells[c - j] = b[n - j]
    BY CursorInt DEF Quiet, Shown
<1>2. ch \in Glyphs
    BY CharFacts
<1>3. /\ Shown(t) /\ n < a /\ t.cells[a - 1] = ch
      /\ \A j \in 1 .. n : t.cells[a - 1 - j] = s.cells[c - j]
  <2> HIDE DEF t
  <2>1. t = put_char(s, ch)
      BY DEF t
  <2> QED
      BY <1>0, <1>1, <1>2, <2>1, PutCharText
<1>4. d = [b EXCEPT ![n] = ch, ![n + 1] = NUL]
    BY AppendEnds
<1>5. a \in Nat
    BY <1>3, CursorInt DEF Shown
<1> HIDE DEF c, t, a, d
<1>6. ASSUME NEW j \in 1 .. e + 1 PROVE t.cells[a - j] = d[(n + 1) - j]
  <2>1. CASE j = 1
    <3>1. (n + 1) - j = n /\ n # n + 1
        BY <1>0, <2>1
    <3>2. d[n] = ch
        BY <1>0, <1>4, <3>1 DEF Buffers
    <3> QED
        BY <1>3, <2>1, <3>1, <3>2
  <2>2. CASE j # 1
    <3> DEFINE i == j - 1
               y == n - i
    <3>1. i \in 1 .. e /\ i \in 1 .. n /\ a - j = a - 1 - i /\ (n + 1) - j = y
        BY <1>0, <1>5, <2>2
    <3>2. y \in 0 .. K /\ y # n /\ y # n + 1
        BY <1>0, <3>1
    <3> HIDE DEF i
    <3>3. s.cells[c - i] = b[y] /\ t.cells[a - 1 - i] = s.cells[c - i]
        BY <1>1, <1>3, <3>1
    <3> HIDE DEF y
    <3>4. d[y] = b[y]
        BY <1>4, <3>2 DEF Buffers
    <3> QED
        BY <3>1, <3>3, <3>4
  <2> QED
      BY <2>1, <2>2
<1>7. n + 1 <= a
    BY <1>0, <1>3, <1>5
<1>8. Quiet(t, d, n + 1, e + 1)
    BY <1>3, <1>6, <1>7, Zenon DEF Quiet, a
<1> QED
    BY <1>8 DEF t, d

LEMMA SubmitQuiet ==
    ASSUME NEW s, Shown(s), NEW r \in Results, NEW b
    PROVE  Quiet(Submitted(s, r), b, 0, 0)
<1> DEFINE t == Submitted(s, r)
<1>1. Shown(t)
    BY SubmittedFacts DEF Shown
<1> HIDE DEF t
<1>2. get_cursor_offset(t) \in Nat
    BY <1>1, CursorInt DEF Shown
<1>3. Quiet(t, b, 0, 0)
    BY <1>1, <1>2 DEF Quiet
<1> QED
    BY <1>3 DEF t

-----------------------------------------------------------------------------
(* The inductive invariant of the screen                                   *)

Cursor == get_cursor_offset(scr)
LineLen == strlen(key_buffer)

TypeInv ==
    /\ scr \in Scrs /\ echoed \in 0 .. LineLen
    /\ state \in {"command", "calculator"} /\ power \in {"on", "off", "fault"}
    /\ proc.todo \in Seq(Glyphs) /\ proc.at \in Int
    /\ control_keys \subseteq {0, 1, 3}
    /\ unfinished \subseteq DOMAIN Printers

\* What a process that prints has read of the cursor, or has to write to it.
Reading ==
    /\ proc.pc = "get_hi" => scr.index = 14
    /\ proc.pc \in {"get_sel_lo", "get_lo"} => proc.at = scr.reg[14] * BYTE
    /\ proc.pc = "get_lo" => scr.index = 15
    /\ proc.pc = "draw" => proc.at = Cursor
Writing ==
    /\ proc.pc \in {"set_sel_hi", "set_hi", "set_sel_lo", "set_lo"} =>
          proc.at \in Screen /\ LineLen <= proc.at /\ echoed = 0
    /\ proc.pc = "set_hi" => scr.index = 14
    /\ proc.pc \in {"set_sel_lo", "set_lo"} => scr.reg[14] = High(proc.at)
    /\ proc.pc = "set_lo" => scr.index = 15

\* As long as nothing came inside a put_char; while the cursor is half written,
\* only the process knows it.
Calm ==
    /\ ~scr.stray
    /\ proc.pc \notin {"set_sel_lo", "set_lo"} => Quiet(scr, key_buffer, LineLen, echoed)
    /\ Reading /\ Writing

SInv == TypeInv /\ (~torn => Calm)

\* What a key does to the screen and the shell.
KeyStep ==
    /\ scr' \in Scrs /\ echoed' \in 0 .. LineLen'
    /\ state' \in {"command", "calculator"} /\ power' \in {"on", "off", "fault"}
    /\ ~torn' => /\ ~torn
                 /\ \/ UNCHANGED <<scr, key_buffer, echoed>>
                    \/ Shown(scr) /\ proc.pc = "rest" /\ Quiet(scr', key_buffer', LineLen', echoed')

LEMMA LineLenIs ==
    ASSUME LineInv
    PROVE  LineLen \in 0 .. K /\ LineLen \in Nat /\ K \in Nat \ {0} /\ Ends(key_buffer, LineLen)
BY StrlenIs, Constants DEF LineInv, LineLen

LEMMA AtRest ==
    ASSUME SInv, torn' <=> (torn \/ Inside), ~torn'
    PROVE  ~torn /\ proc.pc = "rest" /\ Quiet(scr, key_buffer, LineLen, echoed) /\ Shown(scr)
<1>1. ~torn /\ proc.pc = "rest"
    BY DEF Inside
<1> QED
    BY <1>1 DEF SInv, Calm, Quiet

LEMMA EraseKey ==
    ASSUME IInv, SInv, key_erase
    PROVE  KeyStep
<1>1. /\ key_buffer \in Buffers /\ Ends(key_buffer, LineLen)
      /\ LineLen \in Nat /\ LineLen # 0 /\ LineLen <= K
    BY LineLenIs DEF IInv, LineInv, key_erase, LineLen
<1>2. /\ key_buffer' = backspace(key_buffer) /\ scr' = put_char(scr, "BS")
      /\ echoed' = IF echoed > 0 THEN echoed - 1 ELSE 0
      /\ UNCHANGED <<state, power>>
    BY DEF key_erase
<1>3. torn' <=> (torn \/ Inside)
    BY DEF key_erase
<1>4. LineLen' = LineLen - 1
    BY <1>1, <1>2, BackspaceEnds, StrlenIs DEF LineLen
<1>5. scr \in Scrs /\ echoed \in 0 .. LineLen /\ "BS" \in Inputs
    BY DEF SInv, TypeInv, Inputs
<1>6. scr' \in Scrs
    BY <1>2, <1>5, PutCharType
<1>7. echoed' \in 0 .. LineLen'
    BY <1>1, <1>2, <1>4, <1>5
<1>8. ASSUME ~torn'
      PROVE  ~torn /\ Shown(scr) /\ proc.pc = "rest" /\ Quiet(scr', key_buffer', LineLen', echoed')
  <2>1. ~torn /\ proc.pc = "rest" /\ Quiet(scr, key_buffer, LineLen, echoed) /\ Shown(scr)
      BY <1>3, <1>8, AtRest
  <2>2. Quiet(put_char(scr, "BS"), backspace(key_buffer), LineLen - 1,
              IF echoed > 0 THEN echoed - 1 ELSE 0)
      BY <1>1, <1>5, <2>1, EraseQuiet
  <2> QED
      BY <1>2, <1>4, <2>1, <2>2
<1> QED
    BY <1>2, <1>6, <1>7, <1>8 DEF KeyStep, SInv, TypeInv

LEMMA EnterKey ==
    ASSUME IInv, SInv, key_enter
    PROVE  KeyStep
<1>1. key_buffer \in Buffers /\ key_buffer[K] = NUL
    BY DEF IInv, LineInv
<1>2. PICK r \in user_input(key_buffer) :
          scr' = Submitted(scr, r) /\ state' = r.mode /\ power' = r.power
    BY DEF key_enter
<1>3. r \in Results /\ scr \in Scrs
    BY <1>1, <1>2, UserInputType DEF SInv, TypeInv
<1>4. scr' \in Scrs /\ state' \in {"command", "calculator"} /\ power' \in {"on", "off", "fault"}
    BY <1>2, <1>3, SubmittedFacts DEF Results
<1>5. key_buffer' = Zeroed /\ echoed' = 0
    BY DEF key_enter, ClearLine
<1>6. LineLen' = 0
  <2>1. key_buffer' \in Buffers /\ key_buffer'[0] = NUL
      BY <1>5, Constants DEF Zeroed, Buffers, K
  <2> QED
      BY <2>1, EmptyEnds, StrlenIs DEF LineLen
<1>7. torn' <=> (torn \/ Inside)
    BY DEF key_enter
<1>8. ASSUME ~torn'
      PROVE  ~torn /\ Shown(scr) /\ proc.pc = "rest" /\ Quiet(scr', key_buffer', LineLen', echoed')
  <2>1. ~torn /\ proc.pc = "rest" /\ Shown(scr)
      BY <1>7, <1>8, AtRest
  <2>2. Quiet(Submitted(scr, r), key_buffer', 0, 0)
      BY <1>3, <2>1, SubmitQuiet
  <2> QED
      BY <1>2, <1>5, <1>6, <2>1, <2>2
<1> QED
    BY <1>4, <1>5, <1>6, <1>8 DEF KeyStep

\* The flush, if the line is full, and what it leaves of line and screen.
LEMMA FlushFacts ==
    ASSUME IInv, SInv, NEW f \in Flush
    PROVE  /\ f.scr \in Scrs /\ f.line \in Buffers
           /\ f.mode \in {"command", "calculator"} /\ f.power \in {"on", "off", "fault"}
           /\ ~Full => /\ f.scr = scr /\ f.line = key_buffer /\ LineLen < K
           /\ Full => /\ Ends(f.line, 0)
                      /\ Shown(scr) => Quiet(f.scr, f.line, 0, 0)
<1>1. key_buffer \in Buffers /\ key_buffer[K] = NUL /\ scr \in Scrs
    BY DEF IInv, LineInv, SInv, TypeInv
<1>2. LineLen \in 0 .. K /\ K \in Nat \ {0}
    BY LineLenIs DEF IInv
<1>3. CASE ~Full
  <2>1. f = [scr |-> scr, line |-> key_buffer, mode |-> state, power |-> power]
      BY <1>3 DEF Flush
  <2>2. LineLen < K
      BY <1>2, <1>3 DEF Full, LineLen, K
  <2> QED
      BY <1>1, <1>3, <2>1, <2>2 DEF SInv, TypeInv
<1>4. CASE Full
  <2> DEFINE b == [key_buffer EXCEPT ![0] = NUL]
  <2>1. PICK r \in user_input(key_buffer) :
            f = [scr |-> Submitted(scr, r), line |-> b, mode |-> r.mode, power |-> r.power]
      BY <1>4 DEF Flush
  <2>2. b \in Buffers /\ b[0] = NUL
      BY <1>1, <1>2 DEF Buffers
  <2> HIDE DEF b
  <2>3. r \in Results
      BY <1>1, UserInputType DEF SInv, TypeInv
  <2>4. Ends(b, 0)
      BY <2>2, EmptyEnds
  <2>5. Submitted(scr, r) \in Scrs /\ (Shown(scr) => Quiet(Submitted(scr, r), b, 0, 0))
      BY <1>1, <2>3, SubmittedFacts, SubmitQuiet
  <2>6. r.mode \in {"command", "calculator"} /\ r.power \in {"on", "off", "fault"}
      BY <2>3 DEF Results
  <2>7. f.scr = Submitted(scr, r) /\ f.line = b /\ f.mode = r.mode /\ f.power = r.power
      BY <2>1
  <2> QED
      BY <1>4, <2>2, <2>4, <2>5, <2>6, <2>7
<1> QED
    BY <1>3, <1>4

LEMMA OtherKey ==
    ASSUME IInv, SInv, NEW k, NEW released \in BOOLEAN, NEW then \in {"on", "fault"},
           key_other(k, released, then)
    PROVE  KeyStep
<1> DEFINE types == k \in Letters /\ ~released
           count == IF Full THEN 0 ELSE echoed
           n == IF Full THEN 0 ELSE LineLen
<1>0. PICK f \in Flush :
          /\ state' = f.mode /\ power' = IF f.power = "on" THEN then ELSE f.power
          /\ key_buffer' = IF types THEN append(f.line, Letter(k)) ELSE f.line
          /\ scr' = IF types THEN put_char(f.scr, Letter(k)) ELSE f.scr
          /\ echoed' = IF types THEN count + 1 ELSE count
          /\ torn' = (torn \/ (Inside /\ (types \/ Full)))
    BY Zenon DEF key_other
<1>1. /\ f.scr \in Scrs /\ f.line \in Buffers
      /\ f.mode \in {"command", "calculator"} /\ f.power \in {"on", "off", "fault"}
      /\ ~Full => /\ f.scr = scr /\ f.line = key_buffer /\ LineLen < K
      /\ Full => /\ Ends(f.line, 0)
                 /\ Shown(scr) => Quiet(f.scr, f.line, 0, 0)
    BY <1>0, FlushFacts
<1>2. LineLen \in Nat /\ K \in Nat \ {0} /\ Ends(key_buffer, LineLen) /\ echoed \in 0 .. LineLen
    BY LineLenIs DEF IInv, SInv, TypeInv
<1>3. Ends(f.line, n) /\ n < K /\ n \in Nat /\ count \in 0 .. n
    BY <1>1, <1>2
<1>4. ASSUME Shown(scr), Quiet(scr, key_buffer, LineLen, echoed)
      PROVE  Quiet(f.scr, f.line, n, count)
    BY <1>1, <1>4
<1>5. torn' <=> (torn \/ (Inside /\ (types \/ Full)))
    BY <1>0, Zenon
<1> HIDE DEF n, count
<1>6. CASE types
  <2> DEFINE c == Letter(k)
  <2>1. c \in Chars /\ c \in Inputs
      BY <1>6, LetterChar, CharFacts DEF Inputs
  <2>2. /\ key_buffer' = append(f.line, c) /\ scr' = put_char(f.scr, c) /\ echoed' = count + 1
      BY <1>0, <1>6
  <2> HIDE DEF c
  <2>3. LineLen' = n + 1
      BY <1>1, <1>3, <2>1, <2>2, AppendEnds, StrlenIs DEF LineLen
  <2>4. scr' \in Scrs
      BY <1>1, <2>1, <2>2, PutCharType
  <2>5. echoed' \in 0 .. LineLen'
      BY <1>3, <2>2, <2>3
  <2>6. ASSUME ~torn'
        PROVE  ~torn /\ Shown(scr) /\ proc.pc = "rest" /\ Quiet(scr', key_buffer', LineLen', echoed')
    <3>1. torn' <=> (torn \/ Inside)
        BY <1>5, <1>6
    <3>2. ~torn /\ proc.pc = "rest" /\ Quiet(scr, key_buffer, LineLen, echoed) /\ Shown(scr)
        BY <2>6, <3>1, AtRest
    <3>3. Quiet(put_char(f.scr, c), append(f.line, c), n + 1, count + 1)
        BY <1>1, <1>3, <1>4, <2>1, <3>2, TypeQuiet
    <3> QED
        BY <2>2, <2>3, <3>2, <3>3
  <2> QED
      BY <1>0, <1>1, <2>4, <2>5, <2>6 DEF KeyStep
<1>7. CASE ~types
  <2>1. key_buffer' = f.line /\ scr' = f.scr /\ echoed' = count
      BY <1>0, <1>7
  <2>2. LineLen' = n
      BY <1>1, <1>3, <2>1, StrlenIs DEF LineLen
  <2>3. CASE Full
    <3>1. ASSUME ~torn'
          PROVE  ~torn /\ Shown(scr) /\ proc.pc = "rest" /\ Quiet(scr', key_buffer', LineLen', echoed')
      <4>1. torn' <=> (torn \/ Inside)
          BY <1>5, <2>3
      <4>2. ~torn /\ proc.pc = "rest" /\ Quiet(scr, key_buffer, LineLen, echoed) /\ Shown(scr)
          BY <3>1, <4>1, AtRest
      <4>3. Quiet(f.scr, f.line, n, count)
          BY <1>4, <4>2
      <4> QED
          BY <2>1, <2>2, <4>2, <4>3
    <3> QED
        BY <1>0, <1>1, <1>3, <2>1, <2>2, <3>1 DEF KeyStep
  <2>4. CASE ~Full
    <3>1. UNCHANGED <<scr, key_buffer, echoed>> /\ (~torn' => ~torn)
        BY <1>1, <1>5, <1>7, <2>1, <2>4 DEF count
    <3> QED
        BY <1>0, <1>1, <1>3, <2>1, <2>2, <3>1 DEF KeyStep
  <2> QED
      BY <2>3, <2>4
<1> QED
    BY <1>6, <1>7

LEMMA KeyKeepsScreen ==
    ASSUME IInv, SInv, NEW k, NEW released \in BOOLEAN, keyboard_callback(k, released)
    PROVE  KeyStep
<1>1. ASSUME UNCHANGED <<scr, key_buffer, echoed, state, power, torn>>
      PROVE  KeyStep
    BY <1>1 DEF KeyStep, SInv, TypeInv, LineLen
<1>2. CASE key_erase
    BY <1>2, EraseKey
<1>3. CASE key_erase_nothing
    BY <1>1, <1>3 DEF key_erase_nothing
<1>4. CASE key_enter
    BY <1>4, EnterKey
<1>5. CASE key_other(k, released, "on")
    BY <1>5, OtherKey
<1>6. CASE key_outside
    BY <1>6, OtherKey DEF key_outside
<1> QED
    BY <1>2, <1>3, <1>4, <1>5, <1>6, CallbackCases

\* A key sets no other bits than those of the modifiers.
LEMMA KeyBits ==
    ASSUME control_keys \subseteq {0, 1, 3},
           NEW k, NEW released \in BOOLEAN, keyboard_callback(k, released)
    PROVE  control_keys' \subseteq {0, 1, 3}
<1>1. ASSUME NEW j, NEW r PROVE ControlKeys(j, r) \subseteq {0, 1, 3}
  <2>1. get_index_of_control_key(j) \in {-1, 0, 1, 3}
      BY DEF get_index_of_control_key
  <2> QED
      BY <2>1 DEF ControlKeys
<1>2. ASSUME NEW j, NEW r, NEW t, key_other(j, r, t) PROVE control_keys' \subseteq {0, 1, 3}
  <2>1. control_keys' \in {control_keys, ControlKeys(j, r)}
      BY <1>2, Zenon DEF key_other
  <2> QED
      BY <1>1, <2>1
<1>3. key_outside => control_keys' \subseteq {0, 1, 3}
    BY <1>2 DEF key_outside
<1> QED
    BY <1>2, <1>3, CallbackCases DEF key_erase, key_erase_nothing, key_enter

LEMMA KeySInv ==
    ASSUME IInv, SInv, NEW k, NEW released \in BOOLEAN, keyboard_callback(k, released)
    PROVE  SInv'
<1>1. KeyStep
    BY KeyKeepsScreen
<1>2. UNCHANGED <<proc, unfinished>>
    BY DEF keyboard_callback
<1>3. control_keys' \subseteq {0, 1, 3}
    BY KeyBits DEF SInv, TypeInv
<1>4. TypeInv'
    BY <1>1, <1>2, <1>3 DEF KeyStep, SInv, TypeInv
<1>5. ASSUME ~torn' PROVE Calm'
  <2>1. ~torn /\ Calm
      BY <1>1, <1>5 DEF KeyStep, SInv
  <2>2. CASE UNCHANGED <<scr, key_buffer, echoed>>
      BY <1>2, <2>1, <2>2 DEF Calm, Reading, Writing, LineLen, Cursor
  <2>3. CASE Shown(scr) /\ proc.pc = "rest" /\ Quiet(scr', key_buffer', LineLen', echoed')
      BY <1>2, <2>3 DEF Calm, Reading, Writing, Quiet, Shown
  <2> QED
      BY <1>1, <1>5, <2>2, <2>3 DEF KeyStep
<1> QED
    BY <1>4, <1>5 DEF SInv

-----------------------------------------------------------------------------
(* A process that prints, one port access at a time                        *)

\* Between two put_char nothing is in the process's hands.
LEMMA ProcessSInv ==
    ASSUME IInv, SInv, (\E p \in DOMAIN Printers : run(p)) \/ tick \/ exit
    PROVE  SInv'
<1>1. UNCHANGED <<scr, key_buffer, control_keys, state, power, echoed>>
    BY DEF run, tick, exit
<1>2. Nobody.todo \in Seq(Glyphs) /\ Nobody.at = 0 /\ Nobody.pc = "rest"
    BY DEF Nobody
<1>3. CASE \E p \in DOMAIN Printers : run(p)
  <2>1. PICK p \in DOMAIN Printers : run(p)
      BY <1>3
  <2>2. /\ proc = Nobody /\ UNCHANGED <<unfinished, torn>>
        /\ proc' = [id |-> p, todo |-> Printers[p].text, pc |-> "rest", at |-> 0]
      BY <2>1 DEF run
  <2>3. proc'.todo \in Seq(Glyphs) /\ proc'.at \in Int /\ proc'.pc = "rest" /\ proc.pc = "rest"
      BY <1>2, <2>2, ConsoleAssumption
  <2>4. TypeInv'
      BY <1>1, <2>2, <2>3 DEF SInv, TypeInv, LineLen
  <2>5. Calm => Calm'
      BY <1>1, <2>3 DEF Calm, Reading, Writing, LineLen
  <2> QED
      BY <2>2, <2>4, <2>5 DEF SInv
<1>4. CASE tick \/ exit
  <2>1. /\ proc' = Nobody /\ unfinished' \subseteq unfinished
        /\ ~torn' => ~torn /\ proc.pc \notin {"set_sel_lo", "set_lo"}
    <3>1. CASE tick
      <4>1. torn' <=> (torn \/ proc.pc \in {"set_sel_lo", "set_lo"})
          BY <3>1 DEF tick
      <4> QED
          BY <3>1, <4>1 DEF tick
    <3>2. CASE exit
        BY <3>2 DEF exit
    <3> QED
        BY <1>4, <3>1, <3>2
  <2>2. TypeInv'
      BY <1>1, <1>2, <2>1 DEF SInv, TypeInv, LineLen
  <2>3. ASSUME ~torn' PROVE Calm'
      BY <1>1, <1>2, <2>1, <2>3 DEF SInv, Calm, Reading, Writing, LineLen
  <2> QED
      BY <2>2, <2>3 DEF SInv
<1> QED
    BY <1>3, <1>4

LEMMA StepType ==
    ASSUME IInv, SInv, NEW from, NEW to, NEW s \in Scrs, NEW at \in Int, Step(from, to, s, at)
    PROVE  /\ TypeInv' /\ scr' = s /\ proc'.pc = to /\ proc'.at = at /\ proc.pc = from
           /\ UNCHANGED <<key_buffer, torn, LineLen>> /\ (from # "draw" => echoed' = echoed)
           /\ from = "draw" => echoed' = 0
<1>1. /\ scr' = s /\ proc.todo # <<>> /\ proc.pc = from
      /\ proc' = [id |-> proc.id, pc |-> to, at |-> at,
                  todo |-> IF to = "rest" THEN Tail(proc.todo) ELSE proc.todo]
      /\ echoed' = IF from = "draw" THEN 0 ELSE echoed
      /\ UNCHANGED <<key_buffer, control_keys, state, power, unfinished, torn>>
    BY DEF Step
<1>2. LineLen' = LineLen /\ LineLen \in Nat
    BY <1>1, LineLenIs DEF LineLen, IInv
<1>3. proc'.todo \in Seq(Glyphs)
  <2>1. proc.todo \in Seq(Glyphs) /\ Tail(proc.todo) \in Seq(Glyphs)
      BY <1>1 DEF SInv, TypeInv
  <2> QED
      BY <1>1, <2>1
<1>4. proc'.pc = to /\ proc'.at = at
    BY <1>1
<1>5. echoed' \in 0 .. LineLen'
    BY <1>1, <1>2 DEF SInv, TypeInv
<1>6. TypeInv'
    BY <1>1, <1>3, <1>4, <1>5 DEF SInv, TypeInv
<1> QED
    BY <1>1, <1>2, <1>4, <1>6

\* Selecting a register, and reading or writing the selected one.
LEMMA PortFacts ==
    ASSUME scr \in Scrs
    PROVE  /\ \A i \in {14, 15} : /\ Select(i) \in Scrs /\ Select(i).index = i
                                  /\ Select(i).cells = scr.cells /\ Select(i).reg = scr.reg
                                  /\ Select(i).stray = scr.stray
           /\ Data \in 0 .. BYTE - 1 /\ Data = scr.reg[scr.index]
           /\ \A v \in 0 .. BYTE - 1 : /\ Out(v) \in Scrs /\ Out(v).index = scr.index
                                       /\ Out(v).cells = scr.cells /\ Out(v).stray = scr.stray
                                       /\ Out(v).reg[scr.index] = v
                                       /\ \A i \in {14, 15} \ {scr.index} :
                                              Out(v).reg[i] = scr.reg[i]
<1>1. ASSUME NEW i \in {14, 15}
      PROVE  /\ Select(i) \in Scrs /\ Select(i).index = i
             /\ Select(i).cells = scr.cells /\ Select(i).reg = scr.reg
             /\ Select(i).stray = scr.stray
    BY DEF Select, Scrs
<1>2. Data \in 0 .. BYTE - 1 /\ Data = scr.reg[scr.index]
    BY DEF Data, Scrs
<1>3. ASSUME NEW v \in 0 .. BYTE - 1
      PROVE  /\ Out(v) \in Scrs /\ Out(v).index = scr.index
             /\ Out(v).cells = scr.cells /\ Out(v).stray = scr.stray
             /\ Out(v).reg[scr.index] = v
             /\ \A i \in {14, 15} \ {scr.index} : Out(v).reg[i] = scr.reg[i]
    BY DEF Out, Scrs
<1> QED
    BY <1>1, <1>2, <1>3

\* The cursor depends on the registers only, and so does what it shows.
LEMMA SameShow ==
    ASSUME NEW s \in Scrs, NEW t \in Scrs, t.cells = s.cells, t.reg = s.reg, t.stray = s.stray
    PROVE  /\ get_cursor_offset(t) = get_cursor_offset(s)
           /\ \A b, n, e : Quiet(s, b, n, e) => Quiet(t, b, n, e)
<1>1. get_cursor_offset(t) = get_cursor_offset(s)
    BY DEF get_cursor_offset
<1> QED
    BY <1>1 DEF Quiet, Shown

\* Reading the cursor: nothing on the screen moves.
LEMMA ReadSInv ==
    ASSUME IInv, SInv,
           \/ Step("rest",       "get_hi",     Select(14), 0)
           \/ Step("get_hi",     "get_sel_lo", scr, Data * BYTE)
           \/ Step("get_sel_lo", "get_lo",     Select(15), proc.at)
           \/ Step("get_lo",     "draw",       scr, proc.at + Data)
    PROVE  SInv'
<1>0. scr \in Scrs /\ proc.at \in Int /\ Data \in Int /\ BYTE \in Nat
    BY PortFacts, SizesHold DEF SInv, TypeInv, Sizes
<1>1. ASSUME NEW s \in Scrs, s.cells = scr.cells, s.reg = scr.reg, s.stray = scr.stray,
             NEW from \in {"rest", "get_hi", "get_sel_lo", "get_lo"},
             NEW to \in {"get_hi", "get_sel_lo", "get_lo", "draw"},
             NEW at \in Int, Step(from, to, s, at), ~torn => Reading'
      PROVE  SInv'
  <2>1. /\ TypeInv' /\ scr' = s /\ proc'.pc = to /\ proc.pc = from
        /\ UNCHANGED <<key_buffer, torn, LineLen, echoed>>
      BY <1>1, StepType
  <2>2. ASSUME ~torn PROVE Calm'
    <3>1. Calm /\ Quiet(scr, key_buffer, LineLen, echoed) /\ Reading'
        BY <1>1, <2>1, <2>2 DEF SInv, Calm
    <3>2. Quiet(s, key_buffer, LineLen, echoed)
        BY <1>0, <1>1, <3>1, SameShow
    <3>3. Writing'
        BY <2>1 DEF Writing
    <3>4. ~scr'.stray
        BY <1>1, <2>1, <3>1 DEF Calm
    <3> QED
        BY <2>1, <3>1, <3>2, <3>3, <3>4 DEF Calm
  <2> QED
      BY <2>1, <2>2 DEF SInv
<1>2. CASE Step("rest", "get_hi", Select(14), 0)
  <2> DEFINE s == Select(14)
  <2>1. s \in Scrs /\ s.index = 14 /\ s.cells = scr.cells /\ s.reg = scr.reg /\ s.stray = scr.stray
      BY <1>0, PortFacts
  <2> HIDE DEF s
  <2>2. Step("rest", "get_hi", s, 0)
      BY <1>2 DEF s
  <2>3. scr' = s /\ proc'.pc = "get_hi"
      BY <2>1, <2>2, StepType
  <2>4. Reading'
      BY <2>1, <2>3 DEF Reading
  <2> QED
      BY <1>1, <2>1, <2>2, <2>4
<1>3. CASE Step("get_hi", "get_sel_lo", scr, Data * BYTE)
  <2> DEFINE at == Data * BYTE
  <2>1. at \in Int
      BY <1>0
  <2> HIDE DEF at
  <2>2. Step("get_hi", "get_sel_lo", scr, at)
      BY <1>3 DEF at
  <2>3. scr' = scr /\ proc'.pc = "get_sel_lo" /\ proc'.at = at /\ proc.pc = "get_hi"
      BY <1>0, <2>1, <2>2, StepType
  <2>4. ~torn => Reading'
    <3>1. ~torn => scr.index = 14
        BY <2>3 DEF SInv, Calm, Reading
    <3> QED
        BY <2>3, <3>1 DEF Reading, Data, at
  <2> QED
      BY <1>0, <1>1, <2>1, <2>2, <2>4
<1>4. CASE Step("get_sel_lo", "get_lo", Select(15), proc.at)
  <2> DEFINE s == Select(15)
  <2>1. s \in Scrs /\ s.index = 15 /\ s.cells = scr.cells /\ s.reg = scr.reg /\ s.stray = scr.stray
      BY <1>0, PortFacts
  <2> HIDE DEF s
  <2>2. Step("get_sel_lo", "get_lo", s, proc.at)
      BY <1>4 DEF s
  <2>3. scr' = s /\ proc'.pc = "get_lo" /\ proc'.at = proc.at /\ proc.pc = "get_sel_lo"
      BY <1>0, <2>1, <2>2, StepType
  <2>4. ~torn => Reading'
    <3>1. ~torn => proc.at = scr.reg[14] * BYTE
        BY <2>3 DEF SInv, Calm, Reading
    <3> QED
        BY <2>1, <2>3, <3>1 DEF Reading
  <2> QED
      BY <1>0, <1>1, <2>1, <2>2, <2>4
<1>5. CASE Step("get_lo", "draw", scr, proc.at + Data)
  <2> DEFINE at == proc.at + Data
  <2>1. at \in Int
      BY <1>0
  <2> HIDE DEF at
  <2>2. Step("get_lo", "draw", scr, at)
      BY <1>5 DEF at
  <2>3. scr' = scr /\ proc'.pc = "draw" /\ proc'.at = at /\ proc.pc = "get_lo"
      BY <1>0, <2>1, <2>2, StepType
  <2>4. ~torn => Reading'
    <3>1. ~torn => proc.at = scr.reg[14] * BYTE /\ scr.index = 15
        BY <2>3 DEF SInv, Calm, Reading
    <3>2. ~torn => at = Cursor
        BY <3>1 DEF at, Data, Cursor, get_cursor_offset
    <3> QED
        BY <2>3, <3>2 DEF Reading, Cursor
  <2> QED
      BY <1>0, <1>1, <2>1, <2>2, <2>4
<1> QED
    BY <1>2, <1>3, <1>4, <1>5

\* Drawing: the cell is written, the screen scrolled, and the new cursor is
\* still in the process's hands.
LEMMA DrawSInv ==
    ASSUME IInv, SInv, proc.todo # <<>>,
           LET p == PutAt(scr, proc.at, Head(proc.todo))
           IN  Step("draw", "set_sel_hi", p.scr, p.at)
    PROVE  SInv'
<1> DEFINE ch == Head(proc.todo)
           p == PutAt(scr, proc.at, ch)
<1>0. scr \in Scrs /\ proc.at \in Int
    BY DEF SInv, TypeInv
<1>1. ch \in Glyphs
    BY DEF SInv, TypeInv
<1>2. Step("draw", "set_sel_hi", p.scr, p.at)
    OBVIOUS
<1> HIDE DEF ch
<1>3. p.scr \in Scrs /\ p.at \in Int /\ p.scr.reg = scr.reg
    BY <1>0, <1>1, PutAtType DEF Inputs
<1>4. p = PutAt(scr, proc.at, ch)
    OBVIOUS
<1> HIDE DEF p
<1>5. /\ TypeInv' /\ scr' = p.scr /\ proc'.pc = "set_sel_hi" /\ proc'.at = p.at /\ proc.pc = "draw"
      /\ UNCHANGED <<key_buffer, torn, LineLen>> /\ echoed' = 0
    BY <1>2, <1>3, StepType
<1>6. ASSUME ~torn PROVE Calm'
  <2>1. proc.at = Cursor /\ Shown(scr) /\ LineLen <= Cursor
      BY <1>5, <1>6 DEF SInv, Calm, Reading, Quiet, Cursor
  <2>2. /\ proc.at \in Screen /\ LineLen <= proc.at /\ ~scr.stray
        /\ LineLen \in 0 .. K /\ LineLen \in Nat
      BY <2>1, LineLenIs DEF Shown, Cursor, IInv
  <2>3. p.at \in Screen /\ LineLen < p.at /\ p.scr.stray = scr.stray
      BY <1>0, <1>1, <1>4, <2>2, PutAtText
  <2>4. get_cursor_offset(p.scr) = Cursor
      BY <1>3 DEF get_cursor_offset, Cursor
  <2>5. Quiet(p.scr, key_buffer, LineLen, 0)
      BY <1>3, <2>1, <2>2, <2>3, <2>4 DEF Quiet, Shown, Cursor
  <2>6. LineLen <= p.at
      BY <2>2, <2>3 DEF Screen
  <2>7. Reading' /\ Writing'
      BY <1>5, <2>3, <2>6 DEF Reading, Writing
  <2> QED
      BY <1>5, <2>2, <2>3, <2>5, <2>7 DEF Calm
<1> QED
    BY <1>5, <1>6 DEF SInv

\* Writing the cursor: complete only after the second byte.
LEMMA WriteSInv ==
    ASSUME IInv, SInv,
           \/ Step("set_sel_hi", "set_hi",     Select(14), proc.at)
           \/ Step("set_hi",     "set_sel_lo", Out(High(proc.at)), proc.at)
           \/ Step("set_sel_lo", "set_lo",     Select(15), proc.at)
           \/ Step("set_lo",     "rest",       Out(Low(proc.at)), 0)
    PROVE  SInv'
<1>0. /\ scr \in Scrs /\ proc.at \in Int
      /\ High(proc.at) \in 0 .. BYTE - 1 /\ Low(proc.at) \in 0 .. BYTE - 1
    BY Bytes DEF SInv, TypeInv
<1>1. CASE Step("set_sel_hi", "set_hi", Select(14), proc.at)
  <2> DEFINE s == Select(14)
  <2>1. s \in Scrs /\ s.index = 14 /\ s.cells = scr.cells /\ s.reg = scr.reg /\ s.stray = scr.stray
      BY <1>0, PortFacts
  <2> HIDE DEF s
  <2>2. Step("set_sel_hi", "set_hi", s, proc.at)
      BY <1>1 DEF s
  <2>3. /\ TypeInv' /\ scr' = s /\ proc'.pc = "set_hi" /\ proc'.at = proc.at
        /\ proc.pc = "set_sel_hi" /\ UNCHANGED <<key_buffer, torn, LineLen, echoed>>
      BY <1>0, <2>1, <2>2, StepType
  <2>4. ASSUME ~torn PROVE Calm'
    <3>1. Calm /\ Quiet(scr, key_buffer, LineLen, echoed)
        BY <2>3, <2>4 DEF SInv, Calm
    <3>2. Quiet(s, key_buffer, LineLen, echoed)
        BY <1>0, <2>1, <3>1, SameShow
    <3>3. proc.at \in Screen /\ LineLen <= proc.at /\ echoed = 0
        BY <2>3, <3>1 DEF Calm, Writing
    <3>4. Reading' /\ Writing'
        BY <2>1, <2>3, <3>3 DEF Reading, Writing
    <3> QED
        BY <2>1, <2>3, <3>1, <3>2, <3>4 DEF Calm
  <2> QED
      BY <2>3, <2>4 DEF SInv
<1>2. CASE Step("set_hi", "set_sel_lo", Out(High(proc.at)), proc.at)
  <2> DEFINE h == High(proc.at)
             s == Out(h)
  <2>1. h \in 0 .. BYTE - 1
      BY <1>0
  <2>2. s \in Scrs /\ s.stray = scr.stray /\ s.reg[scr.index] = h
      BY <1>0, <2>1, PortFacts
  <2> HIDE DEF s
  <2>3. Step("set_hi", "set_sel_lo", s, proc.at)
      BY <1>2 DEF s
  <2> HIDE DEF h
  <2>4. /\ TypeInv' /\ scr' = s /\ proc'.pc = "set_sel_lo" /\ proc'.at = proc.at
        /\ proc.pc = "set_hi" /\ UNCHANGED <<key_buffer, torn, LineLen, echoed>>
      BY <1>0, <2>2, <2>3, StepType
  <2>5. ASSUME ~torn PROVE Calm'
    <3>1. ~scr.stray /\ proc.at \in Screen /\ LineLen <= proc.at /\ echoed = 0 /\ scr.index = 14
        BY <2>4, <2>5 DEF SInv, Calm, Writing
    <3>2. Reading' /\ Writing'
        BY <2>2, <2>4, <3>1 DEF Reading, Writing, h
    <3> QED
        BY <2>2, <2>4, <3>1, <3>2 DEF Calm
  <2> QED
      BY <2>4, <2>5 DEF SInv
<1>3. CASE Step("set_sel_lo", "set_lo", Select(15), proc.at)
  <2> DEFINE s == Select(15)
  <2>1. s \in Scrs /\ s.index = 15 /\ s.reg = scr.reg /\ s.stray = scr.stray
      BY <1>0, PortFacts
  <2> HIDE DEF s
  <2>2. Step("set_sel_lo", "set_lo", s, proc.at)
      BY <1>3 DEF s
  <2>3. /\ TypeInv' /\ scr' = s /\ proc'.pc = "set_lo" /\ proc'.at = proc.at
        /\ proc.pc = "set_sel_lo" /\ UNCHANGED <<key_buffer, torn, LineLen, echoed>>
      BY <1>0, <2>1, <2>2, StepType
  <2>4. ASSUME ~torn PROVE Calm'
    <3>1. /\ ~scr.stray /\ proc.at \in Screen /\ LineLen <= proc.at /\ echoed = 0
          /\ scr.reg[14] = High(proc.at)
        BY <2>3, <2>4 DEF SInv, Calm, Writing
    <3>2. Reading' /\ Writing'
        BY <2>1, <2>3, <3>1 DEF Reading, Writing
    <3> QED
        BY <2>1, <2>3, <3>1, <3>2 DEF Calm
  <2> QED
      BY <2>3, <2>4 DEF SInv
<1>4. CASE Step("set_lo", "rest", Out(Low(proc.at)), 0)
  <2> DEFINE l == Low(proc.at)
             s == Out(l)
  <2>1. l \in 0 .. BYTE - 1
      BY <1>0
  <2>2. /\ s \in Scrs /\ s.stray = scr.stray /\ s.reg[scr.index] = l
        /\ \A i \in {14, 15} \ {scr.index} : s.reg[i] = scr.reg[i]
      BY <1>0, <2>1, PortFacts
  <2> HIDE DEF s
  <2>3. Step("set_lo", "rest", s, 0)
      BY <1>4 DEF s
  <2> HIDE DEF l
  <2>4. /\ TypeInv' /\ scr' = s /\ proc'.pc = "rest"
        /\ proc.pc = "set_lo" /\ UNCHANGED <<key_buffer, torn, LineLen, echoed>>
      BY <2>2, <2>3, StepType
  <2>5. ASSUME ~torn PROVE Calm'
    <3>1. /\ ~scr.stray /\ proc.at \in Screen /\ LineLen <= proc.at /\ echoed = 0
          /\ scr.reg[14] = High(proc.at) /\ scr.index = 15
        BY <2>4, <2>5 DEF SInv, Calm, Writing
    <3>2. s.reg[14] = High(proc.at) /\ s.reg[15] = Low(proc.at)
        BY <2>2, <3>1 DEF l
    <3>3. get_cursor_offset(s) = proc.at
        BY <1>0, <3>1, <3>2, Bytes DEF get_cursor_offset
    <3>4. Quiet(s, key_buffer, LineLen, echoed)
        BY <2>2, <3>1, <3>3 DEF Quiet, Shown
    <3>5. Reading' /\ Writing'
        BY <2>4 DEF Reading, Writing
    <3> QED
        BY <2>2, <2>4, <3>1, <3>4, <3>5 DEF Calm
  <2> QED
      BY <2>4, <2>5 DEF SInv
<1> QED
    BY <1>1, <1>2, <1>3, <1>4

LEMMA InitSInv ==
    Init => SInv
<1> SUFFICES ASSUME Init PROVE SInv
    OBVIOUS
<1> DEFINE clear == clear_screen(Blank)
<1>1. Blank \in Scrs /\ ~Blank.stray
  <2>1. 0 \in 0 .. BYTE - 1
      BY SizesHold DEF Sizes
  <2> QED
      BY <2>1 DEF Blank, Scrs
<1>2. clear \in Scrs /\ Shown(clear)
    BY <1>1, ClearFacts DEF Shown
<1> HIDE DEF clear
<1>3. scr = printf(clear, <<"t", "LF">>)
    BY DEF Init, clear
<1>4. Shown(scr) /\ scr \in Scrs
    BY <1>2, <1>3, PrintfFacts, TextTypes
<1>5. /\ echoed = 0 /\ state = "command" /\ power = "on" /\ proc = Nobody
      /\ control_keys = {} /\ unfinished = user.procs /\ user \in Users
    BY DEF Init
<1>6. LineLen = 0
    BY InitIInv, EmptyEnds, StrlenIs, Constants DEF Init, IInv, LineInv, LineLen, Zeroed, K
<1>7. proc.todo \in Seq(Glyphs) /\ proc.at = 0 /\ proc.pc = "rest"
    BY <1>5 DEF Nobody
<1>8. TypeInv
  <2>1. unfinished \subseteq DOMAIN Printers
      BY <1>5, ConsoleAssumption
  <2> QED
      BY <1>4, <1>5, <1>6, <1>7, <2>1 DEF TypeInv
<1>9. get_cursor_offset(scr) \in Nat
    BY <1>4, CursorInt
<1>10. Quiet(scr, key_buffer, LineLen, echoed)
    BY <1>4, <1>5, <1>6, <1>9 DEF Quiet
<1>11. Calm
    BY <1>4, <1>7, <1>10 DEF Calm, Reading, Writing, Shown
<1> QED
    BY <1>8, <1>11 DEF SInv

LEMMA NextSInv ==
    IInv /\ SInv /\ [Next]_vars => SInv'
<1> SUFFICES ASSUME IInv, SInv, [Next]_vars PROVE SInv'
    OBVIOUS
<1>1. CASE \E k \in user.keys, released \in BOOLEAN : keyboard_callback(k, released)
    BY <1>1, KeySInv
<1>2. CASE (\E p \in DOMAIN Printers : run(p)) \/ tick \/ exit
    BY <1>2, ProcessSInv
<1>3. CASE put_char_step
    BY <1>3, ReadSInv, DrawSInv, WriteSInv DEF put_char_step
<1>4. CASE UNCHANGED vars
    BY <1>4 DEF vars, SInv, TypeInv, Calm, Reading, Writing, LineLen, Cursor
<1> QED
    BY <1>1, <1>2, <1>3, <1>4 DEF Next

LEMMA SpecSInv ==
    Spec => [](IInv /\ SInv)
BY InitIInv, NextIInv, InitSInv, NextSInv, PTL DEF Spec

-----------------------------------------------------------------------------
(* The theorems                                                            *)

\* In every sequence of keys, what lies behind the end of the line is a zero or,
\* after a full line was flushed and until the next Enter, the byte of that line at
\* the same place; no line before it ever shows.
THEOREM TailIsFlushedAlways ==
    Spec => []TailIsFlushed
<1>1. IInv => TailIsFlushed
    BY DEF IInv
<1> QED
    BY <1>1, SpecIInv, PTL

\* The keyboard driver implements the line editor: the shell is given exactly
\* the letters typed and not erased, each line once, and a full line whole.
THEOREM KeyboardImplementsLineInput ==
    Spec => ImplementsLineInput
<1>1. Spec => Input!Init /\ [][Input!Next]_<<Line, delivered>>
    BY InitIInv, NextIInv, PTL DEF Spec
<1> QED
    BY <1>1 DEF ImplementsLineInput, Input!Spec

\* Every variable keeps its type, whatever interrupts what, and the line ends
\* within its buffer.
THEOREM TypeAlways ==
    Spec => []TypeOK
<1>1. IInv /\ SInv => TypeOK
  <2> SUFFICES ASSUME IInv, SInv PROVE TypeOK
      OBVIOUS
  <2>1. /\ DOMAIN scr.cells = Screen
        /\ scr.index \in {14, 15} /\ scr.reg \in [{14, 15} -> 0 .. BYTE - 1]
      BY DEF SInv, TypeInv, Scrs
  <2>2. /\ key_buffer \in [0 .. KEY_BUFFER_SIZE -> Chars \cup {NUL}]
        /\ key_buffer[KEY_BUFFER_SIZE] = NUL
      BY DEF IInv, LineInv, Buffers, K
  <2>3. echoed \in 0 .. KEY_BUFFER_SIZE
      BY LineLenIs DEF SInv, TypeInv, IInv, K
  <2> QED
      BY <2>1, <2>2, <2>3 DEF SInv, TypeInv, TypeOK
<1> QED
    BY <1>1, SpecSInv, PTL

\* However the keys and the processes take turns: as long as none comes inside
\* a put_char of another, the cursor stays on the screen and no cell outside of
\* it is written.
THEOREM ScreenKeptAlways ==
    Spec => []ScreenKept
<1>1. SInv => ScreenKept
    BY DEF SInv, Calm, Quiet, Shown, ScreenKept, CursorOnScreen
<1> QED
    BY <1>1, SpecSInv, PTL

\* And then the cells before the cursor show the end of the line as it is in the
\* buffer.
THEOREM EchoAlways ==
    Spec => []Echo
<1>1. ASSUME IInv, SInv, ~torn, NEW j \in 1 .. echoed
      PROVE  scr.cells[get_cursor_offset(scr) - j] = Line[Len(Line) + 1 - j]
  <2>1. LineLen \in Nat /\ Ends(key_buffer, LineLen) /\ key_buffer \in Buffers /\ echoed \in 0 .. LineLen
      BY <1>1, LineLenIs DEF IInv, LineInv, SInv, TypeInv
  <2>2. Len(Line) = LineLen /\ \A i \in 1 .. LineLen : Line[i] = key_buffer[i - 1]
      BY <2>1, StringIs DEF Line
  <2>3. Quiet(scr, key_buffer, LineLen, echoed)
      BY <1>1 DEF SInv, Calm, Writing
  <2>4. scr.cells[get_cursor_offset(scr) - j] = key_buffer[LineLen - j]
      BY <2>3 DEF Quiet
  <2> DEFINE i == LineLen + 1 - j
  <2>5. i \in 1 .. LineLen /\ i - 1 = LineLen - j /\ Len(Line) + 1 - j = i
      BY <2>1, <2>2
  <2> HIDE DEF i
  <2>6. Line[i] = key_buffer[i - 1]
      BY <2>2, <2>5
  <2> QED
      BY <2>4, <2>5, <2>6
<1>2. IInv /\ SInv => Echo
    BY <1>1 DEF Echo
<1> QED
    BY <1>2, SpecSInv, PTL

=============================================================================
