------------------------------ MODULE MCInput ------------------------------
(* Instances of Input: a script of two short lines and delays of a tick or *)
(* two.                                                                    *)
EXTENDS Input

CONSTANTS k1, k2

MCKeys == {k1, k2}
MCScript == <<2, 1>>
AllSources == {AUTO, "PS2", "DEMO", "USB"}
=============================================================================
