------------------------------ MODULE Keyboard ------------------------------
(***************************************************************************)
(* The PS/2 keyboard driver (src/kernel/drivers/keyboard.c).               *)
(*                                                                         *)
(* Two parties touch its ring buffer: keyboard_handler, which runs in IRQ1 *)
(* with interrupts off and is one step, and keyboard_getchar, which runs   *)
(* in the shell and may be interrupted between any two of its accesses to  *)
(* g_head, g_tail and g_buf.  The keyboard itself (external) sends one     *)
(* byte per make or break code, two for an extended key; wire holds the    *)
(* bytes not yet read from port 0x60.  The log of raw codes, which the     *)
(* handler writes first and nothing here reads, is module ScancodeLog.     *)
(***************************************************************************)
EXTENDS Integers, Sequences, FiniteSets

CONSTANTS
    KBD_BUF_SIZE,
    PhysKeys,       \* the keys of the keyboard that are pressed
    MaxWire,        \* bound: bytes the controller holds back
    MaxDown         \* bound: keys held down at a time

VARIABLES
    g_buf, g_head, g_tail,
    g_shift, g_ctrl, g_alt, g_caps, g_extended,
    pc, c,          \* keyboard_getchar: where it is, and its local c
    ret,            \* what it returned last
    wire, down      \* the keyboard: bytes sent, keys held down

ring == <<g_buf, g_head, g_tail>>
modifiers == <<g_shift, g_ctrl, g_alt, g_caps>>
reader == <<pc, c, ret>>
vars == <<ring, modifiers, g_extended, reader, wire, down>>

NoKey == "EMPTY"          \* the answer -1
NoChar == "NUL"

\* The keys told apart, with their set 1 code.  A key of Extended is sent with
\* the prefix 0xE0: right Ctrl shares the code of left Ctrl, the arrows share
\* theirs with the keypad digits, and f12 and home have no meaning.
Code == [lshift |-> "2A", rshift |-> "36", lctrl |-> "1D", lalt |-> "38",
         caps |-> "3A", letter |-> "1E", digit |-> "02", f12 |-> "58",
         kp8 |-> "48", up |-> "48", down |-> "50", left |-> "4B",
         right |-> "4D", rctrl |-> "1D", home |-> "47"]
Extended == {"up", "down", "left", "right", "rctrl", "home"}
Codes == {Code[k] : k \in DOMAIN Code}

keymap_lower ==
    [x \in Codes |-> CASE x = "1E" -> "a" [] x = "02" -> "1" [] x = "48" -> "8"
                       [] x = "50" -> "2" [] x = "4B" -> "4" [] x = "4D" -> "6"
                       [] x = "47" -> "7" [] OTHER -> NoChar]
keymap_upper ==
    [x \in Codes |-> CASE x = "1E" -> "A" [] x = "02" -> "!"
                       [] OTHER -> keymap_lower[x]]
arrows == [x \in Codes |-> CASE x = "48" -> "UP" [] x = "50" -> "DOWN"
                             [] x = "4B" -> "LEFT" [] x = "4D" -> "RIGHT"
                             [] OTHER -> NoChar]
Chars == ({keymap_lower[x] : x \in Codes} \cup {keymap_upper[x] : x \in Codes}
          \cup {arrows[x] : x \in Codes} \cup {"^A"}) \ {NoChar}

ASSUME KeyboardAssumption ==
    /\ KBD_BUF_SIZE \in Nat \ {0, 1}
    /\ PhysKeys \subseteq DOMAIN Code
    /\ MaxWire \in Nat /\ MaxDown \in Nat

Prefix == [code |-> "E0", released |-> FALSE]
----------------------------------------------------------------------------
\* The keyboard (external).  A key held down repeats its make code.

Send(k, released) ==
    LET byte == [code |-> Code[k], released |-> released] IN
    IF k \in Extended THEN wire \o <<Prefix, byte>> ELSE Append(wire, byte)

Press(k) ==
    /\ Len(wire) + 2 <= MaxWire
    /\ Cardinality(down \cup {k}) <= MaxDown
    /\ wire' = Send(k, FALSE) /\ down' = down \cup {k}
    /\ UNCHANGED <<ring, modifiers, g_extended, reader>>

Lift(k) ==
    /\ k \in down /\ Len(wire) + 2 <= MaxWire
    /\ wire' = Send(k, TRUE) /\ down' = down \ {k}
    /\ UNCHANGED <<ring, modifiers, g_extended, reader>>
----------------------------------------------------------------------------
\* IRQ1.

\* MUTANT: the ring counts as full one key early.
buf_push_FullEarly(k) ==
    LET next == (g_head + 1) % KBD_BUF_SIZE IN
    IF (next + 1) % KBD_BUF_SIZE = g_tail THEN UNCHANGED ring
    ELSE /\ g_buf' = [g_buf EXCEPT ![g_head] = k]
         /\ g_head' = next
         /\ UNCHANGED g_tail

buf_push(k) ==
    LET next == (g_head + 1) % KBD_BUF_SIZE IN
    IF next = g_tail THEN UNCHANGED ring
    ELSE /\ g_buf' = [g_buf EXCEPT ![g_head] = k]
         /\ g_head' = next
         /\ UNCHANGED g_tail

HandlePrefix(sc) ==
    /\ sc = Prefix
    /\ g_extended' = TRUE
    /\ UNCHANGED <<ring, modifiers>>

\* MUTANT: a break code returns before the prefix is forgotten.
HandleExtended_Sticks(sc) ==
    /\ sc # Prefix /\ g_extended
    /\ g_extended' = sc.released
    /\ IF sc.released \/ arrows[sc.code] = NoChar THEN UNCHANGED ring
       ELSE buf_push(arrows[sc.code])
    /\ UNCHANGED modifiers

\* After the prefix only a pressed arrow means anything.
HandleExtended(sc) ==
    /\ sc # Prefix /\ g_extended
    /\ g_extended' = FALSE
    /\ IF sc.released \/ arrows[sc.code] = NoChar THEN UNCHANGED ring
       ELSE buf_push(arrows[sc.code])
    /\ UNCHANGED modifiers

HandleModifier(sc) ==
    /\ sc # Prefix /\ ~g_extended /\ sc.code \in {"2A", "36", "1D", "38", "3A"}
    /\ g_shift' = IF sc.code \in {"2A", "36"} THEN ~sc.released ELSE g_shift
    /\ g_ctrl' = IF sc.code = "1D" THEN ~sc.released ELSE g_ctrl
    /\ g_alt' = IF sc.code = "38" THEN ~sc.released ELSE g_alt
    /\ g_caps' = IF sc.code = "3A" /\ ~sc.released THEN ~g_caps ELSE g_caps
    /\ UNCHANGED <<ring, g_extended>>

\* The character of a plain key, then the Ctrl rewriting of 'a'..'z'.
CharOf(code) ==
    LET ch == IF g_shift # g_caps THEN keymap_upper[code] ELSE keymap_lower[code]
    IN  IF g_ctrl /\ ch = "a" THEN "^A" ELSE ch

HandlePlain(sc) ==
    /\ sc # Prefix /\ ~g_extended /\ sc.code \notin {"2A", "36", "1D", "38", "3A"}
    /\ IF sc.released \/ CharOf(sc.code) = NoChar THEN UNCHANGED ring
       ELSE buf_push(CharOf(sc.code))
    /\ UNCHANGED <<modifiers, g_extended>>

keyboard_handler ==
    /\ wire # <<>>
    /\ wire' = Tail(wire)
    /\ \/ HandlePrefix(Head(wire))
       \/ HandleExtended(Head(wire))
       \/ HandleModifier(Head(wire))
       \/ HandlePlain(Head(wire))
    /\ UNCHANGED <<reader, down>>
----------------------------------------------------------------------------
\* keyboard_getchar (buf_pop), three steps.

PopTest ==
    /\ pc = "test"
    /\ IF g_tail = g_head THEN ret' = NoKey /\ UNCHANGED pc
                          ELSE pc' = "read" /\ UNCHANGED ret
    /\ UNCHANGED <<ring, modifiers, g_extended, c, wire, down>>
PopRead ==
    /\ pc = "read"
    /\ c' = g_buf[g_tail] /\ pc' = "advance"
    /\ UNCHANGED <<ring, modifiers, g_extended, ret, wire, down>>

\* MUTANT: the tail is advanced before the slot is read.
PopAdvance_BeforeRead ==
    /\ pc = "advance"
    /\ g_tail' = (g_tail + 1) % KBD_BUF_SIZE
    /\ ret' = g_buf[g_tail'] /\ c' = NoKey /\ pc' = "test"
    /\ UNCHANGED <<g_buf, g_head, modifiers, g_extended, wire, down>>

PopAdvance ==
    /\ pc = "advance"
    /\ g_tail' = (g_tail + 1) % KBD_BUF_SIZE
    /\ ret' = c /\ c' = NoKey /\ pc' = "test"
    /\ UNCHANGED <<g_buf, g_head, modifiers, g_extended, wire, down>>
----------------------------------------------------------------------------
Init ==
    /\ g_buf = [i \in 0 .. (KBD_BUF_SIZE - 1) |-> NoKey]
    /\ g_head = 0 /\ g_tail = 0
    /\ g_shift = FALSE /\ g_ctrl = FALSE /\ g_alt = FALSE /\ g_caps = FALSE
    /\ g_extended = FALSE
    /\ pc = "test" /\ c = NoKey /\ ret = NoKey
    /\ wire = <<>> /\ down = {}

Next ==
    \/ \E k \in PhysKeys : Press(k) \/ Lift(k)
    \/ keyboard_handler
    \/ PopTest \/ PopRead \/ PopAdvance

Spec == Init /\ [][Next]_vars
----------------------------------------------------------------------------
\* Properties.

\* The keys in the ring, oldest first.
Count == (g_head + KBD_BUF_SIZE - g_tail) % KBD_BUF_SIZE
Contents == [i \in 1 .. Count |-> g_buf[(g_tail + i - 1) % KBD_BUF_SIZE]]

\* The driver implements the queue it promises: whatever point of buf_pop an
\* interrupt hits, no key is lost once queued, read twice or out of order.
KQ == INSTANCE KeyQueue WITH queue <- Contents, answer <- ret,
                             Keys <- Chars, Capacity <- KBD_BUF_SIZE - 1
ImplementsKeyQueue == KQ!QSpec

\* A key is dropped only when KBD_BUF_SIZE - 1 keys wait: a handled make code
\* that stands for a character otherwise lengthens the queue by it.
Meaning(sc) == IF g_extended THEN arrows[sc.code] ELSE CharOf(sc.code)
Typed == /\ wire # <<>> /\ wire' = Tail(wire) /\ Head(wire) # Prefix
         /\ ~Head(wire).released /\ Meaning(Head(wire)) # NoChar
DropOnlyWhenFull ==
    [][Typed => \/ Contents' = Append(Contents, Meaning(Head(wire)))
                \/ Len(Contents) = KBD_BUF_SIZE - 1 /\ Contents' = Contents]_vars

\* When every byte has been handled the modifiers agree with the fingers: an
\* extended key never toggles the modifier whose code it shares, a prefix
\* never sticks, and shift is never on with neither shift key down.
ModifiersTrackKeys ==
    wire = <<>> =>
      /\ g_ctrl = ("lctrl" \in down)
      /\ g_alt = ("lalt" \in down)
      /\ g_shift => down \cap {"lshift", "rshift"} # {}
      /\ ~g_extended
=============================================================================
