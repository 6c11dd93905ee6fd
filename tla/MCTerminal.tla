----------------------------- MODULE MCTerminal -----------------------------
(* A small screen and keyboard for the run of Terminal.                    *)
EXTENDS Terminal

CONSTANTS c0, c1, k

MCContext == Core \X {"program", "handler"}
MCPlain == [x \in Letters |-> "l"]
MCShifted == [x \in Letters |-> "L"]
MCReadSize == [c \in Core |-> IF c = c0 THEN 0 ELSE 1]
MCChar == {"a", "b", "l", "L", "0", "1"}
MCMessages == {<<"b", Newline>>}
MCStrings == MCMessages \cup {<<"l">>, <<"L">>, <<"0">>, <<"1", "0">>}
=============================================================================
