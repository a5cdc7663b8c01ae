----------------------------- MODULE LineEditor -----------------------------
(***************************************************************************)
(* What the shell's line editor promises, without its buffers: a line of   *)
(* text, the last commands, oldest first, and how far back the user is in  *)
(* them (0: not recalling).  Module Shell implements it.                   *)
(***************************************************************************)
EXTENDS Integers, Sequences, SequencesExt

CONSTANTS
    MaxText,        \* longest line
    HISTORY_SIZE,
    Letters         \* printable characters

VARIABLES text, history, recall,
          executed  \* the last line handed to execute

vars == <<text, history, recall, executed>>

Init == text = <<>> /\ history = <<>> /\ recall = 0 /\ executed = <<>>

\* The last HISTORY_SIZE commands; an empty line and a repetition of the last
\* command are not remembered.
Remember(line) ==
    IF line = <<>> \/ (history # <<>> /\ Last(history) = line) THEN history
    ELSE LET all == Append(history, line)
         IN  IF Len(all) > HISTORY_SIZE THEN Tail(all) ELSE all

Recalled(back) == history[Len(history) + 1 - back]

Enter ==
    /\ executed' = text /\ history' = Remember(text)
    /\ text' = <<>> /\ recall' = 0
Cancel == text' = <<>> /\ recall' = 0 /\ UNCHANGED <<history, executed>>
Type(c) ==
    /\ Len(text) < MaxText
    /\ text' = Append(text, c)
    /\ UNCHANGED <<history, recall, executed>>
Erase ==
    /\ text # <<>> /\ text' = Front(text)
    /\ UNCHANGED <<history, recall, executed>>
Up ==
    /\ recall < Len(history)
    /\ recall' = recall + 1 /\ text' = Recalled(recall + 1)
    /\ UNCHANGED <<history, executed>>
Down ==
    /\ recall > 0
    /\ recall' = recall - 1
    /\ text' = IF recall = 1 THEN <<>> ELSE Recalled(recall - 1)
    /\ UNCHANGED <<history, executed>>

Next == Enter \/ Cancel \/ Erase \/ Up \/ Down \/ \E c \in Letters : Type(c)

Spec == Init /\ [][Next]_vars
=============================================================================
