-------------------------- MODULE MCRuntimeExecution ---------------------------
EXTENDS RuntimeExecution

(* A server that prints nothing, one that prints more than the terminal    *)
(* holds, and the outputs of a gamemode and of a test suite, with or without*)
(* what may follow the line that ends the run; and a line that does not fit*)
(* the scanner's buffer, with and without a rest.                          *)
Chatty   == <<"text", "text", "text">>
Gamemode == <<"boot", "preamble", "blank", "text", "main_end", "text">>
Passing  == <<"preamble", "blank", "tests_passed", "text">>
Failing  == <<"preamble", "blank", "text", "tests_failed">>
TooLong  == <<"text", "long", "text">>
CutShort == <<"preamble", "long">>
MCOutputs == {<<>>, Chatty, Gamemode, Passing, Failing, TooLong, CutShort}

TestOutputs == {Failing}
================================================================================
