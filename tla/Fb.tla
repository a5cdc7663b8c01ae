-------------------------------- MODULE Fb ---------------------------------
(***************************************************************************)
(* The framebuffer console (src/kernel/fb/fb.c), as operators on a record  *)
(* of its static variables.  Across, the screen is cells of one character; *)
(* down, it is lines of pixels, because scrolling copies pixel lines and   *)
(* the height need not be a multiple of the font's.  Line k of the glyph g *)
(* is <<g, k>>; the lines of a blank glyph are BLACK.                      *)
(***************************************************************************)
EXTENDS Integers, Sequences, SequencesExt

CONSTANTS
    g_cols,         \* characters in a row
    g_height,       \* pixel lines of the screen
    FONT_HEIGHT     \* pixel lines of a character: 16 in the code

\* fb_init would compute zero rows, and scroll_up negative sizes, on a screen
\* lower than one character.
ASSUME ScreenAssumption ==
    /\ g_cols \in Nat \ {0} /\ FONT_HEIGHT \in Nat \ {0}
    /\ g_height \in Nat /\ g_height >= FONT_HEIGHT

g_rows == g_height \div FONT_HEIGHT
BLACK == <<>>
SPACE == 32
Lines == 0 .. (g_height - 1)
Cells == 0 .. (g_cols - 1)

\* A character is a byte, except that from 128 on UTF-8 spreads it over two
\* to four: the compiler's encoding of the string literals.
Utf8(c) ==
    CASE c < 128 -> <<c>>
      [] c \in 128 .. 2047 -> <<192 + c \div 64, 128 + (c % 64)>>
      [] c \in 2048 .. 65535 -> <<224 + c \div 4096, 128 + ((c \div 64) % 64), 128 + (c % 64)>>
      [] OTHER -> <<240 + c \div 262144, 128 + ((c \div 4096) % 64),
                    128 + ((c \div 64) % 64), 128 + (c % 64)>>

\* The characters of the code page from 128 to 191; 152 is not assigned.
Upper ==
    << 1026, 1027, 8218, 1107, 8222, 8230, 8224, 8225, 8364, 8240, 1033, 8249, 1034, 1036,
       1035, 1039, 1106, 8216, 8217, 8220, 8221, 8226, 8211, 8212, -1, 8482, 1113, 8250,
       1114, 1116, 1115, 1119, 160, 1038, 1118, 1032, 164, 1168, 166, 167, 1025, 169, 1028,
       171, 172, 173, 174, 1031, 176, 177, 1030, 1110, 1169, 181, 182, 183, 1105, 8470,
       1108, 187, 1112, 1029, 1109, 1111 >>
QUESTION == 63
GARBLED == -1

unicode_to_cp1251(uni) ==
    CASE uni < 128 -> uni
      [] uni \in 1040 .. 1103 -> 192 + (uni - 1040)
      [] \E i \in 1 .. Len(Upper) : Upper[i] = uni ->
           127 + (CHOOSE i \in 1 .. Len(Upper) : Upper[i] = uni)
      [] OTHER -> QUESTION
----------------------------------------------------------------------------
\* Drawing.

Blank == [y \in Lines |-> [x \in Cells |-> BLACK]]

\* fb_init, and what fb_clear leaves: the decoder's state is not touched.
fb_init == [px |-> Blank, col |-> 0, row |-> 0, pending |-> 0, expect |-> 0]
fb_clear(con) == [con EXCEPT !.px = Blank, !.col = 0, !.row = 0]

Slice(ch, k) == IF ch = SPACE THEN BLACK ELSE <<ch, k>>

\* fb_put_pixel clips what lies outside the screen.
draw_glyph(con, ch) ==
    [con EXCEPT !.px =
        [y \in Lines |-> [x \in Cells |->
            IF x = con.col /\ y \div FONT_HEIGHT = con.row
            THEN Slice(ch, y % FONT_HEIGHT) ELSE con.px[y][x]]]]

\* MUTANT: the copy stops a character short of the last row of text.
scroll_up_RowsOnly(con) ==
    [con EXCEPT !.px = [y \in Lines |->
        IF y < g_height - 2 * FONT_HEIGHT THEN con.px[y + FONT_HEIGHT]
        ELSE Blank[y]]]

\* The whole picture moves up by a character, the strip below the last row
\* of text included; the last FONT_HEIGHT lines become black.
scroll_up(con) ==
    [con EXCEPT !.px = [y \in Lines |->
        IF y < g_height - FONT_HEIGHT THEN con.px[y + FONT_HEIGHT] ELSE Blank[y]]]

\* The label `scroll' of fb_putc.
Scrolled(con) ==
    IF con.row >= g_rows THEN [scroll_up(con) EXCEPT !.row = g_rows - 1] ELSE con

NextCell(con) ==
    IF con.col + 1 >= g_cols THEN [con EXCEPT !.col = 0, !.row = @ + 1]
    ELSE [con EXCEPT !.col = @ + 1]
Put(con, ch) == Scrolled(NextCell(draw_glyph(con, ch)))

\* A byte of a character that is being put together.
Decode(con, b) ==
    LET uni == con.pending * 64 + (b % 64) IN
    CASE b \div 64 # 2 -> [con EXCEPT !.pending = 0, !.expect = 0]
      [] b \div 64 = 2 /\ con.expect > 1 ->
           [con EXCEPT !.pending = uni, !.expect = @ - 1]
      [] OTHER -> [Put(con, unicode_to_cp1251(uni)) EXCEPT !.pending = 0, !.expect = 0]

\* The first byte of a character; a stray byte is dropped.
Start(con, b) ==
    CASE b \div 32 = 6 -> [con EXCEPT !.pending = b % 32, !.expect = 1]
      [] b \div 16 = 14 -> [con EXCEPT !.pending = b % 16, !.expect = 2]
      [] b \div 8 = 30 -> [con EXCEPT !.pending = b % 8, !.expect = 3]
      [] OTHER -> con

\* \n \r \b \t; they also end an unfinished character.
Newline(con) == Scrolled([con EXCEPT !.col = 0, !.row = @ + 1])
Backspace(con) ==
    IF con.col > 0 THEN draw_glyph([con EXCEPT !.col = @ - 1], SPACE) ELSE con
Tab(con) ==
    LET col == ((con.col + 8) \div 8) * 8 IN
    Scrolled(IF col >= g_cols THEN [con EXCEPT !.col = 0, !.row = @ + 1]
             ELSE [con EXCEPT !.col = col])
Control(con, b) ==
    LET fresh == [con EXCEPT !.pending = 0, !.expect = 0] IN
    CASE b = 10 -> Newline(fresh)
      [] b = 13 -> [fresh EXCEPT !.col = 0]
      [] b = 8  -> Backspace(fresh)
      [] b = 9  -> Tab(fresh)
      [] OTHER  -> con

fb_putc(con, b) ==
    CASE b < 32 -> Control(con, b)
      [] b \in 32 .. 127 /\ con.expect = 0 -> Put(con, b)
      [] b >= 128 /\ con.expect = 0 -> Start(con, b)
      [] OTHER -> Decode(con, b)

\* kprintf, once its arguments are formatted: a byte after the other.
emit_str(con, chars) ==
    FoldLeft(LAMBDA c, ch : FoldLeft(fb_putc, c, Utf8(ch)), con, chars)
----------------------------------------------------------------------------
\* What a viewer sees: the glyph of a cell, or GARBLED when the lines of the
\* cell do not belong together.
Seen(con, row, col) ==
    LET cell == [k \in 0 .. (FONT_HEIGHT - 1) |-> con.px[row * FONT_HEIGHT + k][col]]
        glyph == IF cell[0] = BLACK THEN SPACE ELSE cell[0][1]
    IN  IF cell = [k \in 0 .. (FONT_HEIGHT - 1) |-> Slice(glyph, k)]
        THEN glyph ELSE GARBLED
=============================================================================
