------------------------------ MODULE KeyQueue ------------------------------
(***************************************************************************)
(* What the keyboard driver promises to the code that reads it: a first-in *)
(* first-out queue of bounded capacity.  A key that finds the queue full   *)
(* is lost; a read of an empty queue answers -1 at once.                   *)
(***************************************************************************)
EXTENDS Integers, Sequences

CONSTANTS Keys, Capacity

VARIABLES
    queue,      \* the keys waiting to be read
    answer      \* what the last keyboard_getchar returned

NoKey == "EMPTY"          \* the answer -1

QInit == queue = <<>> /\ answer = NoKey

Put(k) ==
    /\ Len(queue) < Capacity
    /\ queue' = Append(queue, k)
    /\ UNCHANGED answer

Take ==
    /\ queue # <<>>
    /\ answer' = Head(queue)
    /\ queue' = Tail(queue)

TakeNothing ==
    /\ queue = <<>>
    /\ answer' = NoKey
    /\ UNCHANGED queue

QNext == (\E k \in Keys : Put(k)) \/ Take \/ TakeNothing

QSpec == QInit /\ [][QNext]_<<queue, answer>>
=============================================================================
