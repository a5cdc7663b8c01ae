------------------------------ MODULE MCShell -------------------------------
(***************************************************************************)
(* Two letters, c and h: "ch..." is panic, "c..." clear, "hh..." history,  *)
(* "hc..." a command that prints a message of Cyrillic, number sign and    *)
(* new line.  The message wraps on a screen of four columns.               *)
(***************************************************************************)
EXTENDS Shell

MCCommands ==
    << <<<<99, 104>>, "panic">>, <<<<99>>, "clear">>, <<<<104, 104>>, "history">>,
       <<<<104, 99>>, "message">> >>
MCMessage == <<1103, 8470, NEWLINE, 1103>>
=============================================================================
