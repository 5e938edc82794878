------------------------------- MODULE Console -------------------------------
(***************************************************************************)
(* The text console: put_char and the cursor registers of                  *)
(* kernel/drivers/screen.c, the line buffer and modifiers of keyboard.c,   *)
(* user_input of kernel.c, the shell, and the boot processes that print.   *)
(*                                                                         *)
(* A process prints with one step per port access, so that a keyboard      *)
(* interrupt or a tick can come in between; handlers run with IF clear and *)
(* are atomic.  Positions count cells (an offset of the code over 2).      *)
(* Of the texts only what moves the cursor is kept.                        *)
(***************************************************************************)
EXTENDS Integers, Sequences, FiniteSets, SequencesExt

CONSTANTS
    ROWS, COLS,        \* MAX_ROWS, MAX_COLS
    TAB,               \* columns of a tab, 4 in the code
    BYTE,              \* 256: what one cursor register holds
    KEY_BUFFER_SIZE,   \* 255
    Letters,           \* keys that have a character
    Upper,             \* the character of such a key with shift
    Commands,          \* command name -> its text
    Printers,          \* process -> [text, cli]: what it prints, and whether
                       \* it clears IF first
    Users              \* [keys, max, procs, ticks]: the keys a user presses
                       \* and a bound on how many, the processes that print,
                       \* and a bound on how often these are preempted

NUL == "NUL"
Modifiers == {"LShift", "RShift", "Lctrl", "LAlt"}

CELLS == ROWS * COLS
Screen == 0 .. CELLS - 1

\* What keys type, and what the kernel's texts are made of ("t" is any text).
Chars == Letters \cup {Upper[k] : k \in Letters}
Glyphs == Chars \cup {"t", ">", " ", "LF", "TAB"}

ASSUME ConsoleAssumption ==
    /\ {ROWS, COLS, TAB, BYTE, KEY_BUFFER_SIZE} \subseteq Nat
    /\ KEY_BUFFER_SIZE > 0 /\ ROWS > 1 /\ 0 < TAB /\ TAB <= COLS /\ CELLS <= BYTE * BYTE
    /\ KEY_BUFFER_SIZE + 2 <= CELLS - COLS
    /\ DOMAIN Upper = Letters
    /\ Chars \cap {NUL, "BS", "LF", "CR", "TAB"} = {} /\ Letters \cap Modifiers = {}
    /\ \A c \in DOMAIN Commands : Commands[c] \in Seq(Chars)
    /\ "print" \in DOMAIN Commands /\ Len(Commands["print"]) < KEY_BUFFER_SIZE
    /\ \A p \in DOMAIN Printers :
          Printers[p].text \in Seq(Glyphs) /\ Printers[p].cli \in BOOLEAN
    /\ \A u \in Users : u.procs \subseteq DOMAIN Printers

VARIABLES
    scr,            \* video memory and the CRTC: [cells, index, reg, stray]
    key_buffer,     \* KEY_BUFFER_SIZE + 1 bytes
    control_keys,   \* its bits
    state,          \* the shell's mode
    power,          \* "on", "off", or "fault" in page_fault's loop
    proc,           \* the process that prints, and where: [id, todo, pc, at]
    unfinished,     \* processes that have not printed their text yet
    user,           \* who is at the keyboard
    nkeys, nticks,  \* scancodes and preemptions so far
    delivered,      \* history: the last string given to user_input
    overflowed,     \* history: the line was flushed since the last Enter
    echoed,         \* history: letters on the screen since other output
    torn            \* history: a handler or a tick came inside a put_char

vars == <<scr, key_buffer, control_keys, state, power, proc, unfinished,
          user, nkeys, nticks, delivered, overflowed, echoed, torn>>

-----------------------------------------------------------------------------
(* screen.c.  The CRTC's register 14 is the cursor's high byte, 15 the low *)
(* one; index selects the one the data port accesses.                      *)

get_cursor_offset(s) == s.reg[14] * BYTE + s.reg[15]

High(offset) == (offset \div BYTE) % BYTE
Low(offset)  == offset % BYTE

set_cursor_offset(s, offset) ==
    [cells |-> s.cells, index |-> 15, stray |-> s.stray,
     reg |-> [r \in {14, 15} |-> IF r = 14 THEN High(offset) ELSE Low(offset)]]

\* A write to a cell; one outside of the screen is only recorded.
Poke(s, at, ch) ==
    IF at \in Screen THEN [s EXCEPT !.cells[at] = ch] ELSE [s EXCEPT !.stray = TRUE]

scroll_up(s) ==
    [s EXCEPT !.cells = [x \in Screen |-> IF x + COLS \in Screen THEN @[x + COLS]
                                                                  ELSE NUL]]

\* put_char between get_cursor_offset and set_cursor_offset.
Drawn(s, at, ch) ==
    CASE ch = "BS" -> Poke(s, at - 1, " ")
      [] ch \in {"LF", "CR", "TAB"} -> s
      [] OTHER -> Poke(s, at, ch)

Advanced(at, ch) ==
    CASE ch = "LF" -> (at \div COLS + 1) * COLS
      [] ch = "CR" -> (at \div COLS) * COLS
      [] ch = "TAB" -> at + TAB
      [] ch = "BS" -> at - 1
      [] OTHER -> at + 1

\* [scr, at]: after the check for the end of the screen.
Scrolled_OffByOne(s, at) ==                \* fault: > for >=
    IF at > CELLS THEN [scr |-> scroll_up(s), at |-> at - COLS]
                  ELSE [scr |-> s, at |-> at]
Scrolled_CursorKept(s, at) ==              \* fault: the cursor stays behind
    IF at >= CELLS THEN [scr |-> scroll_up(s), at |-> CELLS - 1]
                   ELSE [scr |-> s, at |-> at]
Scrolled(s, at) == IF at >= CELLS THEN [scr |-> scroll_up(s), at |-> at - COLS]
                                  ELSE [scr |-> s, at |-> at]

PutAt(s, at, ch) == Scrolled(Drawn(s, at, ch), Advanced(at, ch))

put_char(s, ch) == LET p == PutAt(s, get_cursor_offset(s), ch)
                   IN  set_cursor_offset(p.scr, p.at)

printf(s, text) ==
    LET after[k \in 0 .. Len(text)] ==
            IF k = 0 THEN s ELSE put_char(after[k - 1], text[k])
    IN  after[Len(text)]

clear_screen(s) == set_cursor_offset([s EXCEPT !.cells = [x \in Screen |-> " "]], 0)

-----------------------------------------------------------------------------
(* string.c, on the NUL terminated array key_buffer (from index 0).        *)

strlen(b) == CHOOSE k \in DOMAIN b : b[k] = NUL /\ \A j \in 0 .. k - 1 : b[j] # NUL
StringAt(b, from) == LET t == [j \in 0 .. KEY_BUFFER_SIZE - from |-> b[from + j]]
                     IN  [j \in 1 .. strlen(t) |-> t[j - 1]]
String(b) == StringAt(b, 0)

append_Unterminated(b, c) == [b EXCEPT ![strlen(b)] = c]  \* fault: no new NUL
append(b, c) == [b EXCEPT ![strlen(b)] = c, ![strlen(b) + 1] = NUL]
backspace(b) == [b EXCEPT ![strlen(b) - 1] = NUL]

check_command(line, name) == line = Commands[name]
check_short_command(line, name) == IsPrefix(Commands[name], line)

-----------------------------------------------------------------------------
(* shell.c and user_input.  The result of a command: what it prints after  *)
(* an optional clear, the new mode, and whether the machine goes on.       *)

Result(clear, text, mode, then) ==
    [clear |-> clear, text |-> text, mode |-> mode, power |-> then]

Message == <<"t">>
help == <<"t", "LF", "TAB", "t">>

\* print <arg>: from input + strlen("print") + 1 on, whatever lies there; the
\* names of kernel variables print a value instead.
print_argument(b) ==
    LET msg == StringAt(b, Len(Commands["print"]) + 1)
    IN  IF \E v \in {"time", "date", "tick", "stack"} : check_short_command(msg, v)
        THEN Message ELSE msg

command_mode(b) ==
    LET line == String(b)
    IN  CASE check_command(line, "help")  -> Result(FALSE, help, "command", "on")
          [] check_command(line, "page")  -> Result(FALSE, Message, "command", "on")
          [] check_command(line, "clear") -> Result(TRUE, Message, "command", "on")
          [] check_command(line, "calc")  -> Result(FALSE, <<"t", "LF", "t">>, "calculator", "on")
          [] check_short_command(line, "print")
               -> Result(FALSE, print_argument(b), "command", "on")
          [] OTHER -> Result(FALSE, Message \o line, "command", "on")

\* split copies each token over the array of pointers, so a line with a space
\* prints from a wild pointer: anything, or a page fault.
split(line) == IF \E k \in DOMAIN line : line[k] = " "
               THEN {Result(FALSE, <<"t", "LF", "t">>, "calculator", "on"),
                     Result(FALSE, <<"t", "LF">>, "calculator", "fault")}
               ELSE {}

\* sin stands for sin, cos, tan and cotan, which only print.
calculator_mode(b) ==
    LET line == String(b)
    IN  IF check_command(line, "quit") THEN {Result(FALSE, Message, "command", "on")}
        ELSE IF check_short_command(line, "sin")
             THEN {Result(FALSE, Message, "calculator", "on")}
        ELSE {Result(FALSE, <<"t", "LF">>, "calculator", "on")} \cup split(line)

shell_command(b) ==
    {[r EXCEPT !.text = @ \o <<"LF", ">", " ">>] :
        r \in IF state = "command" THEN {command_mode(b)} ELSE calculator_mode(b)}

\* The ports of shutdown belong to emulators; elsewhere it just returns.
user_input(b) ==
    CASE String(b) = Commands["shutdown"] ->
            {Result(FALSE, <<"t", "LF">>, state, then) : then \in {"on", "off"}}
      [] String(b) = Commands["restart"] -> {Result(FALSE, <<"t", "LF">>, state, "off")}
      [] OTHER -> shell_command(b)

\* printf("\n"); user_input(key_buffer);
Submitted(s, r) == LET n == printf(s, <<"LF">>)
                   IN  printf(IF r.clear THEN clear_screen(n) ELSE n, r.text)

-----------------------------------------------------------------------------
(* keyboard.c.  A scancode is a key and whether it was released.           *)

get_index_of_control_key(k) ==
    CASE k \in {"LShift", "RShift"} -> 0 [] k = "Lctrl" -> 1
      [] k = "LAlt" -> 3 [] OTHER -> -1

\* Other keys: "Plain" has neither a letter nor a function, "Pad" has a letter
\* beyond SCANCODE_MAX, and "Outside" is a byte beyond the tables, such as 0xE0
\* or the keyboard's own acknowledgement.

ControlKeys_Untested(k, released) ==       \* fault: no test of the index
    LET bit == {get_index_of_control_key(k)}
    IN  IF released THEN control_keys \ bit ELSE control_keys \cup bit
ControlKeys(k, released) ==
    LET bit == {get_index_of_control_key(k)} \ {-1}
    IN  IF released THEN control_keys \ bit ELSE control_keys \cup bit

Letter(k) == IF 0 \in control_keys THEN Upper[k] ELSE k

Inside == proc.pc # "rest"

Zeroed == [j \in 0 .. KEY_BUFFER_SIZE |-> NUL]
ClearLine_FirstOnly(b) == [b EXCEPT ![0] = NUL]  \* fault: not the whole buffer
ClearLine(b) == Zeroed

key_erase ==
    /\ strlen(key_buffer) # 0
    /\ key_buffer' = backspace(key_buffer)
    /\ scr' = put_char(scr, "BS")
    /\ echoed' = IF echoed > 0 THEN echoed - 1 ELSE 0
    /\ torn' = (torn \/ Inside)
    /\ UNCHANGED <<control_keys, state, power, delivered, overflowed>>

\* BACKSPACE with an empty line.
key_erase_nothing ==
    /\ strlen(key_buffer) = 0
    /\ UNCHANGED <<key_buffer, scr, control_keys, state, power, delivered,
                   overflowed, echoed, torn>>

key_enter ==
    /\ \E r \in user_input(key_buffer) :
          /\ scr' = Submitted(scr, r)
          /\ state' = r.mode
          /\ power' = r.power
    /\ key_buffer' = ClearLine(key_buffer)
    /\ delivered' = String(key_buffer)
    /\ overflowed' = FALSE
    /\ echoed' = 0
    /\ torn' = (torn \/ Inside)
    /\ UNCHANGED control_keys

\* The screen and the line after "If full, flush the buffer": [scr, line, mode,
\* power].  Only the first byte of the line is cleared.
Full == strlen(key_buffer) = KEY_BUFFER_SIZE
Flush == IF Full
         THEN {[scr |-> Submitted(scr, r), line |-> [key_buffer EXCEPT ![0] = NUL],
                mode |-> r.mode, power |-> r.power] : r \in user_input(key_buffer)}
         ELSE {[scr |-> scr, line |-> key_buffer, mode |-> state, power |-> power]}

\* Any other scancode: flush a full line, then a letter, a modifier or nothing;
\* "then" is how it goes on if the flushed command lets it.
key_other(k, released, then) ==
    \E f \in Flush :
        LET types == k \in Letters /\ ~released
            count == IF Full THEN 0 ELSE echoed
        IN  /\ state' = f.mode
            /\ power' = IF f.power = "on" THEN then ELSE f.power
            /\ key_buffer' = IF types THEN append(f.line, Letter(k)) ELSE f.line
            /\ scr' = IF types THEN put_char(f.scr, Letter(k)) ELSE f.scr
            /\ control_keys' = IF k \in Letters THEN control_keys
                                                ELSE ControlKeys(k, released)
            /\ delivered' = IF Full THEN String(key_buffer) ELSE delivered
            /\ overflowed' = (overflowed \/ Full)
            /\ echoed' = IF types THEN count + 1 ELSE count
            /\ torn' = (torn \/ (Inside /\ (types \/ Full)))

\* A byte beyond the tables reads whatever follows them: nothing happens, or a
\* wild name pointer faults.
key_outside == \E then \in {"on", "fault"} : key_other("Outside", FALSE, then)

\* IF is clear only while a process that cleared it prints.
IF_set == proc.id # 0 => ~Printers[proc.id].cli

\* A key may repeat its make code, and a release may come without one; the right
\* Ctrl and Alt send "Outside" before the scancode of the left ones.
keyboard_callback(k, released) ==
    /\ power = "on" /\ IF_set
    /\ nkeys < user.max
    /\ nkeys' = nkeys + 1
    /\ CASE k = "BACKSPACE" /\ ~released -> key_erase \/ key_erase_nothing
         [] k = "ENTER" /\ ~released -> key_enter
         [] k = "Outside" -> key_outside
         [] OTHER -> key_other(k, released, "on")
    /\ UNCHANGED <<proc, unfinished, user, nticks>>

-----------------------------------------------------------------------------
(* task_confirm and kernel_task print.  schedule never saves a context: a  *)
(* process that is preempted starts again from its beginning.              *)

Nobody == [id |-> 0, todo |-> <<>>, pc |-> "rest", at |-> 0]

run(p) ==
    /\ power = "on"
    /\ proc = Nobody
    /\ p \in unfinished
    /\ proc' = [id |-> p, todo |-> Printers[p].text, pc |-> "rest", at |-> 0]
    /\ UNCHANGED <<scr, key_buffer, control_keys, state, power, unfinished,
                   user, nkeys, nticks, delivered, overflowed, echoed, torn>>

\* The tick preempts; a half written cursor stays half written.
tick ==
    /\ power = "on"
    /\ proc # Nobody /\ IF_set
    /\ nticks < user.ticks
    /\ nticks' = nticks + 1
    /\ proc' = Nobody
    /\ torn' = (torn \/ proc.pc \in {"set_sel_lo", "set_lo"})
    /\ UNCHANGED <<scr, key_buffer, control_keys, state, power, unfinished,
                   user, nkeys, delivered, overflowed, echoed>>

exit ==
    /\ power = "on"
    /\ proc # Nobody /\ proc.todo = <<>> /\ proc.pc = "rest"
    /\ proc' = Nobody
    /\ unfinished' = unfinished \ {proc.id}
    /\ UNCHANGED <<scr, key_buffer, control_keys, state, power, user, nkeys, nticks,
                   delivered, overflowed, echoed, torn>>

\* One access of put_char: the screen and the process after it.
Step(from, to, s, at) ==
    /\ power = "on"
    /\ proc.todo # <<>>
    /\ proc.pc = from
    /\ scr' = s
    /\ proc' = [id |-> proc.id, pc |-> to, at |-> at,
                todo |-> IF to = "rest" THEN Tail(proc.todo) ELSE proc.todo]
    /\ echoed' = IF from = "draw" THEN 0 ELSE echoed
    /\ UNCHANGED <<key_buffer, control_keys, state, power, unfinished, user, nkeys, nticks,
                   delivered, overflowed, torn>>

Select(i) == [scr EXCEPT !.index = i]
Data == scr.reg[scr.index]
Out(v) == [scr EXCEPT !.reg[scr.index] = v]

put_char_step ==
    \/ Step("rest",       "get_hi",     Select(14), 0)
    \/ Step("get_hi",     "get_sel_lo", scr, Data * BYTE)
    \/ Step("get_sel_lo", "get_lo",     Select(15), proc.at)
    \/ Step("get_lo",     "draw",       scr, proc.at + Data)
    \/ proc.todo # <<>> /\ LET p == PutAt(scr, proc.at, Head(proc.todo))
                           IN  Step("draw", "set_sel_hi", p.scr, p.at)
    \/ Step("set_sel_hi", "set_hi",     Select(14), proc.at)
    \/ Step("set_hi",     "set_sel_lo", Out(High(proc.at)), proc.at)
    \/ Step("set_sel_lo", "set_lo",     Select(15), proc.at)
    \/ Step("set_lo",     "rest",       Out(Low(proc.at)), 0)

-----------------------------------------------------------------------------
\* init_display, clrscr, kernel_main's first lines, and an empty line.
Blank == [cells |-> [x \in Screen |-> NUL], index |-> 15,
          reg |-> [r \in {14, 15} |-> 0], stray |-> FALSE]

Init ==
    /\ scr = printf(clear_screen(Blank), <<"t", "LF">>)
    /\ key_buffer = Zeroed
    /\ control_keys = {}
    /\ state = "command"
    /\ power = "on"
    /\ proc = Nobody
    /\ user \in Users
    /\ unfinished = user.procs
    /\ nkeys = 0 /\ nticks = 0
    /\ delivered = <<>>
    /\ overflowed = FALSE
    /\ echoed = 0
    /\ torn = FALSE

Next ==
    \/ \E k \in user.keys, released \in BOOLEAN : keyboard_callback(k, released)
    \/ \E p \in DOMAIN Printers : run(p)
    \/ tick \/ exit \/ put_char_step

Spec == Init /\ [][Next]_vars

-----------------------------------------------------------------------------
(* Properties                                                              *)

Line == String(key_buffer)

\* Every variable has its type; the line ends within its buffer.
TypeOK ==
    /\ DOMAIN scr.cells = Screen
    /\ scr.index \in {14, 15} /\ scr.reg \in [{14, 15} -> 0 .. BYTE - 1]
    /\ key_buffer \in [0 .. KEY_BUFFER_SIZE -> Chars \cup {NUL}]
    /\ key_buffer[KEY_BUFFER_SIZE] = NUL
    /\ control_keys \subseteq {0, 1, 3}
    /\ state \in {"command", "calculator"}
    /\ power \in {"on", "off", "fault"}
    /\ unfinished \subseteq DOMAIN Printers
    /\ echoed \in 0 .. KEY_BUFFER_SIZE

\* "Check if the offset is over screen size and scroll" (screen.c:124): between
\* two put_char the cursor is on the screen.
CursorOnScreen == proc.pc = "rest" => get_cursor_offset(scr) \in Screen

\* As long as no handler and no tick comes inside a put_char (between two of
\* them they may), the cursor stays on the screen through every scroll, ...
\* and nothing is written outside of it, however much is erased, ...
ScreenKept == ~torn => CursorOnScreen /\ ~scr.stray

\* ... and what the user sees before the cursor is what the line holds: the
\* letters typed since some other output, after any erasing, wrapping,
\* scrolling, flushing and half finished output of a preempted process.
Echo == ~torn => \A j \in 1 .. echoed :
            scr.cells[get_cursor_offset(scr) - j] = Line[Len(Line) + 1 - j]

\* Behind the end of the line is nothing, or, after a full line was flushed and
\* until the next Enter, a byte of that line at its old place: never one of a line
\* before it.  The print command, which looks one byte behind the end of the bare
\* command, prints what lies there.
TailIsFlushed ==
    \A j \in strlen(key_buffer) .. KEY_BUFFER_SIZE :
        \/ key_buffer[j] = NUL
        \/ overflowed /\ key_buffer[j] = delivered[j + 1]

Input == INSTANCE LineInput WITH line <- Line, MAX <- KEY_BUFFER_SIZE

\* What the shell relies on: see module LineInput.
ImplementsLineInput == Input!Spec

=============================================================================
