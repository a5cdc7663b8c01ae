------------------------------- MODULE Input -------------------------------
(***************************************************************************)
(* The input layer (src/kernel/input/input.c) between the shell, the       *)
(* keyboard queue, the PIT tick counter and the hlt instruction.           *)
(*                                                                         *)
(* The keyboard is the queue KeyQueue, which Keyboard is checked to        *)
(* implement.  The tick counter only grows and is only compared, so the    *)
(* model keeps distances: since is now - g_last_real_input, capped at the  *)
(* timeout, and wait is what is left until g_demo_next_tick.  IRQ0 and     *)
(* IRQ1 may come between the steps of input_getchar_blocking: after the    *)
(* queue was found empty and before hlt, too.  The shell calls it again    *)
(* when it returns.                                                        *)
(***************************************************************************)
EXTENDS Integers, Sequences

CONSTANTS
    Keys, Capacity,
    Script,                     \* the length of each line of g_demo_script
    DEMO_CHAR_DELAY_TICKS, DEMO_LINE_DELAY_TICKS, DEMO_RESTART_DELAY_TICKS,
    DEMO_TIMEOUT_TICKS,
    Sources                     \* the sources input_set_source is given

AUTO == "auto"
ASSUME InputAssumption ==
    /\ Capacity \in Nat \ {0} /\ Script \in Seq(Nat \ {0})
    /\ {DEMO_CHAR_DELAY_TICKS, DEMO_LINE_DELAY_TICKS, DEMO_RESTART_DELAY_TICKS,
        DEMO_TIMEOUT_TICKS} \subseteq Nat \ {0}
    /\ Sources \subseteq {AUTO, "PS2", "USB", "DEMO"}

VARIABLES
    queue,                      \* keys typed and not read
    g_source, g_demo_active, g_demo_line, g_demo_char,
    since, wait,
    pc,                         \* of input_getchar_blocking
    out,                        \* what it returned last
    quiet, late                 \* ghosts: ticks since automatic mode returned a
                                \* key; script characters returned past a key

demo == <<g_demo_active, g_demo_line, g_demo_char, wait>>
inputVars == <<queue, g_source, demo, since, pc, out, quiet, late>>

Nothing == [kind |-> "none", val |-> 0]
Key(k) == [kind |-> "key", val |-> k]
DemoChar(line, char) == [kind |-> "demo", val |-> <<line, char>>]

InputInit ==
    /\ queue = <<>>
    /\ g_source = AUTO
    /\ g_demo_active = FALSE /\ g_demo_line = 0 /\ g_demo_char = 0
    /\ since = 0 /\ wait = 0
    /\ pc = "shell" /\ out = Nothing
    /\ quiet = 0 /\ late = 0
----------------------------------------------------------------------------
\* Interrupts.  Either of them ends a hlt.

Wake == pc' = IF pc = "halted" THEN "poll" ELSE pc

Capped(n) == IF n < DEMO_TIMEOUT_TICKS THEN n + 1 ELSE n

\* MUTANT: the timer interrupt does not end a hlt (IRQ0 masked).
pit_tick_NoWake ==
    /\ since' = Capped(since) /\ quiet' = Capped(quiet)
    /\ wait' = IF wait > 0 THEN wait - 1 ELSE 0
    /\ UNCHANGED <<queue, g_source, g_demo_active, g_demo_line, g_demo_char,
                   pc, out, late>>

\* IRQ0: pit_tick.
pit_tick ==
    /\ since' = Capped(since) /\ quiet' = Capped(quiet)
    /\ wait' = IF wait > 0 THEN wait - 1 ELSE 0
    /\ Wake
    /\ UNCHANGED <<queue, g_source, g_demo_active, g_demo_line, g_demo_char, out, late>>

\* IRQ1: a key is queued, or lost when the queue is full.
KeyPress(k) ==
    /\ queue' = IF Len(queue) < Capacity THEN Append(queue, k) ELSE queue
    /\ Wake
    /\ UNCHANGED <<g_source, demo, since, out, quiet, late>>
----------------------------------------------------------------------------
\* The demo script.

\* demo_get_char of an active demo at line l, character ch (both from 0).
Emit(l, ch) ==
    /\ g_demo_char' = ch + 1 /\ g_demo_line' = l
    /\ wait' = DEMO_CHAR_DELAY_TICKS
    /\ out' = DemoChar(l, ch)
    /\ late' = IF g_source = AUTO /\ queue # <<>> THEN late + 1 ELSE late
    /\ pc' = "shell"

EndOfLine(l) ==
    /\ g_demo_line' = l + 1 /\ g_demo_char' = 0
    /\ wait' = DEMO_LINE_DELAY_TICKS
    /\ pc' = "hlt"
    /\ UNCHANGED <<out, late>>

\* MUTANT: the script is not rewound at its end.
EndOfScript_Stays ==
    /\ g_demo_char' = 0 /\ UNCHANGED g_demo_line
    /\ wait' = DEMO_RESTART_DELAY_TICKS
    /\ pc' = "hlt"
    /\ UNCHANGED <<out, late>>

EndOfScript ==
    /\ g_demo_line' = 0 /\ g_demo_char' = 0
    /\ wait' = DEMO_RESTART_DELAY_TICKS
    /\ pc' = "hlt"
    /\ UNCHANGED <<out, late>>
TooEarly ==
    /\ pc' = "hlt"
    /\ UNCHANGED <<g_demo_line, g_demo_char, wait, out, late>>

demo_get_char ==
    /\ UNCHANGED g_demo_active
    /\ IF wait > 0 THEN TooEarly
       ELSE IF g_demo_line = Len(Script) THEN EndOfScript
       ELSE IF g_demo_char = Script[g_demo_line + 1] THEN EndOfLine(g_demo_line)
       ELSE Emit(g_demo_line, g_demo_char)

\* demo_start; demo_get_char follows in the same call, when the messages
\* demo_start prints are out.
demo_start ==
    /\ g_demo_active' = TRUE /\ g_demo_line' = 0 /\ g_demo_char' = 0
    /\ wait' = DEMO_LINE_DELAY_TICKS
    /\ UNCHANGED <<pc, out, late>>

demo_stop ==
    /\ g_demo_active' = FALSE
    /\ g_demo_line' = IF g_demo_active THEN 0 ELSE g_demo_line
    /\ g_demo_char' = IF g_demo_active THEN 0 ELSE g_demo_char
    /\ UNCHANGED wait
----------------------------------------------------------------------------
\* input_getchar_blocking.

ReturnKey ==
    /\ queue' = Tail(queue) /\ out' = Key(Head(queue))
    /\ quiet' = (IF g_source = AUTO THEN 0 ELSE quiet) /\ late' = 0
    /\ pc' = "shell"

\* The shell has dealt with the last character and wants the next.
Call ==
    /\ pc = "shell"
    /\ pc' = "poll"
    /\ UNCHANGED <<queue, g_source, demo, since, out, quiet, late>>

\* MUTANT: a key does not reset the timeout.
PollKey_NoReset ==
    /\ pc = "poll" /\ g_source = AUTO /\ queue # <<>>
    /\ ReturnKey
    /\ demo_stop
    /\ UNCHANGED <<since, g_source>>

\* Automatic mode: the keyboard first; a key resets the timeout and stops the
\* demo.
PollKey ==
    /\ pc = "poll" /\ g_source = AUTO /\ queue # <<>>
    /\ ReturnKey
    /\ since' = 0
    /\ demo_stop
    /\ UNCHANGED g_source

\* MUTANT: a running demo is asked before the keyboard.
PollEmpty_DemoFirst ==
    /\ pc = "poll" /\ g_source = AUTO /\ (queue = <<>> \/ g_demo_active)
    /\ pc' = "demo"
    /\ UNCHANGED <<queue, g_source, demo, since, out, quiet, late>>

PollEmpty ==
    /\ pc = "poll" /\ g_source = AUTO /\ queue = <<>>
    /\ pc' = "demo"
    /\ UNCHANGED <<queue, g_source, demo, since, out, quiet, late>>

\* Then the demo, started after a long silence.
AutoDemo ==
    /\ pc = "demo"
    /\ \/ ~g_demo_active /\ since >= DEMO_TIMEOUT_TICKS /\ demo_start
       \/ ~g_demo_active /\ since < DEMO_TIMEOUT_TICKS
          /\ pc' = "hlt" /\ UNCHANGED <<demo, out, late>>
       \/ g_demo_active /\ demo_get_char
    /\ UNCHANGED <<queue, g_source, since, quiet>>

\* A forced source: keyboard_getchar alone, the USB stub, or the demo alone.
ForcedPs2 ==
    /\ pc = "poll" /\ g_source = "PS2"
    /\ IF queue # <<>> THEN ReturnKey
       ELSE pc' = "hlt" /\ UNCHANGED <<queue, out, quiet, late>>
    /\ UNCHANGED <<g_source, demo, since>>
ForcedUsb ==
    /\ pc = "poll" /\ g_source = "USB"
    /\ pc' = "hlt"
    /\ UNCHANGED <<queue, g_source, demo, since, out, quiet, late>>
ForcedDemo ==
    /\ pc = "poll" /\ g_source = "DEMO"
    /\ IF g_demo_active THEN demo_get_char ELSE demo_start
    /\ UNCHANGED <<queue, g_source, since, quiet>>

Halt ==
    /\ pc = "hlt"
    /\ pc' = "halted"
    /\ UNCHANGED <<queue, g_source, demo, since, out, quiet, late>>

\* input_set_source, between two calls of input_getchar_blocking.
input_set_source(src) ==
    /\ pc = "shell"
    /\ g_source' = src
    /\ g_demo_active' = (g_demo_active /\ src = "DEMO")
    /\ UNCHANGED <<queue, g_demo_line, g_demo_char, wait, since, pc, out, quiet, late>>

Shell ==
    \/ Call \/ PollKey \/ PollEmpty \/ AutoDemo
    \/ ForcedPs2 \/ ForcedUsb \/ ForcedDemo \/ Halt

InputNext ==
    \/ pit_tick
    \/ \E k \in Keys : KeyPress(k)
    \/ Shell
    \/ \E src \in Sources : input_set_source(src)

InputSpec == InputInit /\ [][InputNext]_inputVars

\* The shell's code keeps running, and the PIT, programmed as a periodic
\* square wave and never stopped or masked, keeps ticking.
FairSpec == InputSpec /\ WF_inputVars(Shell) /\ WF_inputVars(pit_tick)
----------------------------------------------------------------------------
\* Properties.

\* In automatic mode the demo runs only when that mode has returned no key
\* for the whole timeout, however the sources were switched in between.  (A
\* key read while PS/2 is forced does not count: keyboard_getchar is called
\* without input_reset_demo_timeout.)
DemoOnlyAfterSilence ==
    g_source = AUTO /\ g_demo_active => quiet = DEMO_TIMEOUT_TICKS

\* In automatic mode the first key stops the demo: of the characters of the
\* script, at most one gets past a key that is already waiting.
DemoYieldsToKey == late <= 1

\* A key that was queued is returned, unless a source that does not read the
\* keyboard is chosen, although the shell may test the queue, be interrupted
\* by that very key, and only then execute hlt.
KeyEventuallyReturned ==
    \A k \in Keys :
      (\E i \in DOMAIN queue : queue[i] = k)
         ~> (out = Key(k) \/ g_source \in {"USB", "DEMO"})

\* Once nobody changes the source, the demo plays its script again and again
\* if it is forced, or if the keyboard has fallen silent in automatic mode.
DemoTakesOver ==
    /\ <>[][\A src \in Sources : ~input_set_source(src)]_inputVars
    /\ <>[](g_source = "DEMO") \/ <>[](g_source = AUTO /\ queue = <<>>)
    => /\ []<>(out = DemoChar(0, 0))
       /\ []<>(out = DemoChar(Len(Script) - 1, Script[Len(Script)] - 1))
=============================================================================
