---------------------------- MODULE ScancodeLog ----------------------------
(***************************************************************************)
(* The log of raw scan codes of src/kernel/drivers/keyboard.c: IRQ1 writes *)
(* it (log_scancode), the shell commands kbd_test and kbd_dump empty it    *)
(* (keyboard_take_scancodes).  The reader runs with interrupts on, so IRQ1 *)
(* may come between any two of its reads of g_sc_head and g_sc_count.      *)
(* A scan code is its place in the order of arrival: 1, 2, 3...  The       *)
(* module KeyboardIrq puts this log behind the interrupt controllers.      *)
(***************************************************************************)
EXTENDS Integers, Sequences, FiniteSets

CONSTANT KBD_SC_LOG_SIZE

VARIABLES
    g_sc_log, g_sc_head, g_sc_count, g_sc_total,
    pc, head, start, i, out,    \* keyboard_take_scancodes and its buffer
    raced,                      \* ghost: IRQ1 came during this call
    emptied                     \* ghost: g_sc_total when the log was cleared

log == <<g_sc_log, g_sc_head, g_sc_count, g_sc_total>>
take == <<pc, head, start, i, out>>
ghosts == <<raced, emptied>>
vars == <<log, take, ghosts>>

Slots == 0 .. (KBD_SC_LOG_SIZE - 1)

Init ==
    /\ g_sc_log = [s \in Slots |-> 0]
    /\ g_sc_head = 0 /\ g_sc_count = 0 /\ g_sc_total = 0
    /\ pc = "idle" /\ head = 0 /\ start = 0 /\ i = 0 /\ out = <<>>
    /\ raced = FALSE /\ emptied = 0

log_scancode ==
    /\ g_sc_log' = [g_sc_log EXCEPT ![g_sc_head] = g_sc_total + 1]
    /\ g_sc_head' = (g_sc_head + 1) % KBD_SC_LOG_SIZE
    /\ g_sc_count' = IF g_sc_count < KBD_SC_LOG_SIZE THEN g_sc_count + 1
                     ELSE g_sc_count
    /\ g_sc_total' = g_sc_total + 1
    /\ raced' = (raced \/ pc # "idle")
    /\ UNCHANGED <<take, emptied>>

\* start is computed from two separate reads of volatile variables, in the
\* order they are written.
ReadHead ==
    /\ pc = "idle"
    /\ head' = g_sc_head /\ out' = <<>> /\ pc' = "start"
    /\ raced' = FALSE
    /\ UNCHANGED <<log, start, i, emptied>>

\* MUTANT: the copy starts at the head, right only when the log is full.
ReadCount_FromHead ==
    /\ pc = "start"
    /\ start' = head /\ i' = 0 /\ pc' = "loop"
    /\ UNCHANGED <<log, head, out, ghosts>>

ReadCount ==
    /\ pc = "start"
    /\ start' = (head - g_sc_count + KBD_SC_LOG_SIZE) % KBD_SC_LOG_SIZE
    /\ i' = 0 /\ pc' = "loop"
    /\ UNCHANGED <<log, head, out, ghosts>>
\* The loop reads g_sc_count again each time; max is KBD_SC_LOG_SIZE in both
\* callers.  An interrupt between the test and the copy of one iteration is
\* left out: it matters to raced calls only.
LoopBody ==
    /\ pc = "loop" /\ i < g_sc_count /\ Len(out) < KBD_SC_LOG_SIZE
    /\ out' = Append(out, g_sc_log[(start + i) % KBD_SC_LOG_SIZE])
    /\ i' = i + 1
    /\ UNCHANGED <<log, pc, head, start, ghosts>>
LoopExit ==
    /\ pc = "loop" /\ ~(i < g_sc_count /\ Len(out) < KBD_SC_LOG_SIZE)
    /\ pc' = "reset"
    /\ UNCHANGED <<log, head, start, i, out, ghosts>>
Reset ==
    /\ pc = "reset"
    /\ g_sc_count' = 0
    /\ pc' = "idle"
    /\ emptied' = g_sc_total
    /\ UNCHANGED <<g_sc_log, g_sc_head, g_sc_total, head, start, i, out, raced>>

keyboard_take_scancodes == ReadHead \/ ReadCount \/ LoopBody \/ LoopExit \/ Reset

Next == log_scancode \/ keyboard_take_scancodes

Spec == Init /\ [][Next]_vars
----------------------------------------------------------------------------
\* A call that no interrupt hits returns the codes that came since the log
\* was last cleared, at most the KBD_SC_LOG_SIZE newest, in order of arrival:
\* an interrupt during an earlier call does no damage beyond that call.
QuietTakeExact ==
    pc = "reset" /\ ~raced =>
      LET fresh == g_sc_total - emptied
          n == IF fresh < KBD_SC_LOG_SIZE THEN fresh ELSE KBD_SC_LOG_SIZE
      IN  out = [k \in 1 .. n |-> g_sc_total - n + k]
=============================================================================
