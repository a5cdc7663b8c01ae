----------------------------- MODULE MCKeyboard -----------------------------
(* An instance of Keyboard with keys that fill the ring and keys that       *)
(* exercise the modifiers and the prefix: right Ctrl shares its code with   *)
(* left Ctrl, an arrow with a keypad digit.                                 *)
EXTENDS Keyboard

MCKeys == {"letter", "up", "lshift", "rshift", "lctrl", "rctrl", "lalt", "caps"}
=============================================================================
