----------------------------- MODULE MCConsole -----------------------------
(* The console for TLC: a screen of four rows, lines of three letters, and  *)
(* commands spelt with two letters and a space.                            *)
EXTENDS Console, TLC

MCUpper == ("a" :> "A") @@ ("b" :> "B") @@ (" " :> " ")

MCCommands ==
    [help  |-> <<"a">>,      page |-> <<"a", " ">>,     clear |-> <<"a", "b">>,
     calc  |-> <<"b", "a">>, print |-> <<"b">>,      quit |-> <<"a">>,
     sin   |-> <<"b">>,      shutdown |-> <<"a", "a">>, restart |-> <<"a", "a", "a">>,
     time  |-> <<"a">>, date |-> <<"A">>, tick |-> <<"A", "B">>, stack |-> <<"B">>]

\* task_confirm prints with interrupts on, kernel_task with interrupts off.
MCPrinters == << [text |-> <<"t", "LF">>, cli |-> FALSE],
                 [text |-> <<"t", "LF", ">", " ">>, cli |-> TRUE] >>

\* One user writes lines, one presses every kind of key, one types while the
\* boot processes still print.
Writer  == [keys |-> {"a", "b", " ", "BACKSPACE", "ENTER"}, max |-> 9, procs |-> {}, ticks |-> 0]
Fumbler == [keys |-> {"a", "LShift", "RShift", "Lctrl", "LAlt", "Plain", "Pad",
                      "Outside", "ENTER"}, max |-> 8, procs |-> {}, ticks |-> 0]
Hasty   == [keys |-> {"a", "BACKSPACE", "ENTER"}, max |-> 3, procs |-> {1, 2},
            ticks |-> 1]
MCUsers == {Writer, Fumbler, Hasty}

=============================================================================
