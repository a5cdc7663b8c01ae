------------------------------- MODULE Shell --------------------------------
(***************************************************************************)
(* The shell's loop (shell_run of src/kernel/shell/shell.c): its line      *)
(* buffer, the ring of past commands, and all it writes to the framebuffer *)
(* console of module Fb.  One action per key that input_getchar_blocking   *)
(* returns.  The buffers keep their old bytes, as in C: a string ends at   *)
(* its first zero.                                                         *)
(*                                                                         *)
(* The commands are reduced to what they do to the screen and the editor:  *)
(* the sequence Commands stands for the chain of str_starts_with tests of  *)
(* execute.                                                                *)
(***************************************************************************)
EXTENDS Fb

CONSTANTS
    LINE_MAX, HISTORY_SIZE,
    Letters,        \* printable characters the user types
    Commands,       \* <<prefix, effect>>, tried in this order
    Message         \* what a command prints

ASSUME EditorAssumption ==
    /\ LINE_MAX \in Nat \ {0} /\ HISTORY_SIZE \in Nat \ {0}
    /\ Letters \subseteq 32 .. 126

VARIABLES
    line, pos, hist_pos,
    g_history, g_hist_count, g_hist_head,
    con,            \* the console
    halted,         \* the kernel panicked
    executed,       \* ghost: the string execute was last given
    text,           \* ghost: the lines of text a screen should show
    base, edge      \* ghosts: the column after the prompt; the line has
                    \* reached the right edge since the prompt

editor == <<line, pos, hist_pos, g_history, g_hist_count, g_hist_head, executed>>
screen == <<con, text>>
vars == <<editor, screen, halted, base, edge>>

Index == 0 .. (LINE_MAX - 1)
Slots == 0 .. (HISTORY_SIZE - 1)
NEWLINE == 10
BACKSPACE == 8
PROMPT == <<62, SPACE>>
ERASE == <<BACKSPACE, SPACE, BACKSPACE>>

\* A C string: the bytes before the first zero.
CString(buf) ==
    LET ends == {i \in Index : buf[i] = 0}
        n == CHOOSE i \in ends : \A j \in ends : i <= j
    IN  [k \in 1 .. n |-> buf[k - 1]]

\* The text a viewer should see: every line as long as a row at most, and no
\* more of them than there are rows.
Cut(lines) == IF Len(lines) > g_rows THEN Tail(lines) ELSE lines
TypedOn(lines, c) ==
    LET cur == Last(lines) IN
    CASE c = NEWLINE -> Cut(Append(lines, <<>>))
      [] c = BACKSPACE -> IF cur = <<>> THEN lines ELSE Append(Front(lines), Front(cur))
      [] c \in 0 .. 31 \ {NEWLINE, BACKSPACE} -> lines
      [] OTHER -> LET full == Append(Front(lines), Append(cur, c))
                  IN  IF Len(cur) + 1 = g_cols THEN Cut(Append(full, <<>>)) ELSE full

\* kprintf of characters, to a console and to the text that should appear.
Shows(s, chars) ==
    [con |-> emit_str(s.con, chars), text |-> FoldLeft(TypedOn, s.text, chars)]
Screen == [con |-> con, text |-> text]
SetScreen(s) == con' = s.con /\ text' = s.text

\* The prompt, and the reset of the editor before it.
NewLine(s) ==
    LET t == Shows(s, PROMPT) IN
    /\ SetScreen(t)
    /\ base' = Len(Last(t.text)) /\ edge' = FALSE
    /\ pos' = 0 /\ hist_pos' = -1

Init ==
    /\ line = [i \in Index |-> 0] /\ pos = 0 /\ hist_pos = -1
    /\ g_history = [s \in Slots |-> [i \in Index |-> 0]]
    /\ g_hist_count = 0 /\ g_hist_head = 0
    /\ con = emit_str(fb_init, PROMPT) /\ text = <<PROMPT>>
    /\ halted = FALSE /\ executed = <<>> /\ base = Len(PROMPT) /\ edge = FALSE
----------------------------------------------------------------------------
\* The history.

\* strcmp with the newest entry; a new one is copied up to its end, over the
\* bytes of the oldest.
history_add(buf) ==
    LET str == CString(buf)
        last == (g_hist_head - 1 + HISTORY_SIZE) % HISTORY_SIZE
        n == Len(str)
    IN  IF str = <<>> \/ (g_hist_count > 0 /\ CString(g_history[last]) = str)
        THEN UNCHANGED <<g_history, g_hist_count, g_hist_head>>
        ELSE /\ g_history' = [g_history EXCEPT ![g_hist_head] =
                  [i \in Index |-> IF i < n THEN buf[i] ELSE IF i = n THEN 0 ELSE @[i]]]
             /\ g_hist_head' = (g_hist_head + 1) % HISTORY_SIZE
             /\ g_hist_count' = IF g_hist_count < HISTORY_SIZE THEN g_hist_count + 1
                                ELSE g_hist_count

history_get(back) ==
    CString(g_history[(g_hist_head - 1 - back + HISTORY_SIZE * 2) % HISTORY_SIZE])

\* cmd_history, the oldest first, with the ring as history_add leaves it.
HistoryText(ring, count, head) ==
    LET start == (head - count + HISTORY_SIZE * 2) % HISTORY_SIZE
        entry(i) == <<49 + i, 58>> \o CString(ring[(start + i) % HISTORY_SIZE]) \o <<NEWLINE>>
    IN  FlattenSeq([i \in 1 .. count |-> entry(i - 1)])
----------------------------------------------------------------------------
\* execute.

str_starts_with(str, prefix) ==
    Len(prefix) <= Len(str) /\ SubSeq(str, 1, Len(prefix)) = prefix

\* cmd_clear: fb_clear, then an escape sequence for the serial line, which
\* emit sends to the framebuffer as well.
cmd_clear(s) ==
    Shows([con |-> fb_clear(s.con), text |-> <<<<>>>>], <<27, 91, 50, 74, 27, 91, 72>>)

Effect(str) ==
    LET hits == {i \in DOMAIN Commands : str_starts_with(str, Commands[i][1])}
    IN  IF str = <<>> THEN "nothing"
        ELSE IF hits = {} THEN "unknown"
        ELSE Commands[CHOOSE i \in hits : \A j \in hits : i <= j][2]

After(s, str) ==
    CASE Effect(str) = "nothing" -> s
      [] Effect(str) = "clear" -> cmd_clear(s)
      [] Effect(str) = "history" ->
           Shows(s, HistoryText(g_history', g_hist_count', g_hist_head'))
      [] Effect(str) = "unknown" -> Shows(s, Message \o str \o <<NEWLINE>>)
      [] OTHER -> Shows(s, Message \o <<NEWLINE>>)

\* The loop goes on with a new prompt, unless the command was panic.
execute(s, str) ==
    IF Effect(str) = "panic"
    THEN /\ halted' = TRUE /\ SetScreen(After(s, str))
         /\ UNCHANGED <<pos, hist_pos, base, edge>>
    ELSE NewLine(After(s, str)) /\ UNCHANGED halted
----------------------------------------------------------------------------
\* The keys.

\* MUTANT: the buffer is not terminated.
Terminated_Not == line
Terminated == [line EXCEPT ![pos] = 0]

KeyEnter ==
    /\ ~halted
    /\ LET buf == Terminated
           str == CString(buf)
       IN  /\ IF pos > 0 THEN history_add(buf)
              ELSE UNCHANGED <<g_history, g_hist_count, g_hist_head>>
           /\ executed' = str
           /\ execute(Shows(Screen, <<NEWLINE>>), str)
           /\ line' = IF halted' THEN buf ELSE [buf EXCEPT ![0] = 0]

KeyCtrlC ==
    /\ ~halted
    /\ NewLine(Shows(Screen, <<94, 67, NEWLINE>>))
    /\ line' = [line EXCEPT ![0] = 0]
    /\ UNCHANGED <<g_history, g_hist_count, g_hist_head, executed, halted>>

KeyBackspace ==
    /\ ~halted /\ pos > 0
    /\ pos' = pos - 1 /\ SetScreen(Shows(Screen, ERASE))
    /\ UNCHANGED <<line, hist_pos, g_history, g_hist_count, g_hist_head, executed, halted,
                   base, edge>>

\* MUTANT: one character too few is erased, as `--pos > 0' would.
Erased_OneShort(s) ==
    Shows(s, FlattenSeq([i \in 1 .. (IF pos = 0 THEN 0 ELSE pos - 1) |-> ERASE]))

\* The text typed so far is erased from the screen, the recalled one takes
\* its place in the buffer and on the screen.
Erased(s) == Shows(s, FlattenSeq([i \in 1 .. pos |-> ERASE]))
Recall(next, str) ==
    /\ line' = [i \in Index |-> IF i < Len(str) THEN str[i + 1] ELSE line[i]]
    /\ pos' = Len(str) /\ hist_pos' = next
    /\ SetScreen(Shows(Erased(Screen), str))
    /\ edge' = (edge \/ base + Len(str) >= g_cols)
    /\ UNCHANGED <<g_history, g_hist_count, g_hist_head, executed, halted, base>>

KeyUp ==
    /\ ~halted /\ hist_pos + 1 < g_hist_count
    /\ Recall(hist_pos + 1, history_get(hist_pos + 1))

KeyDown ==
    /\ ~halted
    /\ \/ hist_pos > 0 /\ Recall(hist_pos - 1, history_get(hist_pos - 1))
       \/ hist_pos = 0 /\ Recall(-1, <<>>)

KeyChar(c) ==
    /\ ~halted /\ pos < LINE_MAX - 1
    /\ line' = [line EXCEPT ![pos] = c] /\ pos' = pos + 1
    /\ SetScreen(Shows(Screen, <<c>>))
    /\ edge' = (edge \/ base + pos + 1 >= g_cols)
    /\ UNCHANGED <<hist_pos, g_history, g_hist_count, g_hist_head, executed, halted, base>>

Next ==
    \/ KeyEnter \/ KeyCtrlC \/ KeyBackspace \/ KeyUp \/ KeyDown
    \/ \E c \in Letters : KeyChar(c)

Spec == Init /\ [][Next]_vars
----------------------------------------------------------------------------
\* Properties.

Text == [k \in 1 .. pos |-> line[k - 1]]
Entry(i) ==
    CString(g_history[(g_hist_head - g_hist_count + i - 1 + HISTORY_SIZE) % HISTORY_SIZE])

\* The editor: the text is the buffer up to pos, whatever bytes follow, the
\* history the ring from the oldest entry on.  What execute is given is the
\* text the user sees himself typing, and the arrows step through the last
\* HISTORY_SIZE commands, also after the ring wrapped.
Abstract ==
    INSTANCE LineEditor WITH
        MaxText <- LINE_MAX - 1,
        text <- IF halted THEN <<>> ELSE Text,
        history <- [i \in 1 .. g_hist_count |-> Entry(i)],
        recall <- IF halted THEN 0 ELSE hist_pos + 1
ImplementsEditor == Abstract!Spec

\* The screen shows the last rows of the text printed, each character of one
\* to three bytes as one glyph, and the cursor is at the end of it, through
\* scrolling, wrapping, clearing, and a height that leaves a strip below
\* the last row.
Glyph(c) == IF c = 1103 THEN 255 ELSE IF c = 8470 THEN 185 ELSE c
ScreenShowsText ==
    /\ con.row = Len(text) - 1 /\ con.col = Len(Last(text))
    /\ con.expect = 0
    /\ \A r \in 0 .. (g_rows - 1), x \in Cells :
         Seen(con, r, x) = IF r < Len(text) /\ x < Len(text[r + 1])
                           THEN Glyph(text[r + 1][x + 1]) ELSE SPACE

\* As long as the line has not reached the right edge, the cursor's row shows
\* the prompt and exactly the text in the buffer: erasing and recalling leave
\* nothing behind.  (Past the edge they do: \b stops at column 0.)
LineOnScreen ==
    ~edge /\ ~halted =>
      /\ con.col = base + pos
      /\ \A k \in 1 .. pos : Seen(con, con.row, base + k - 1) = line[k - 1]
      /\ \A x \in Cells : x >= con.col => Seen(con, con.row, x) = SPACE
      /\ base >= 2 => Seen(con, con.row, base - 2) = PROMPT[1]
=============================================================================
