------------------------------ MODULE Flanterm ------------------------------
(* The terminal emulator src/kernel/terminal/src/flanterm.c: escape          *)
(* sequences, cursor, scroll region and colours, one byte at a time, with    *)
(* the cursor functions of flanterm_backends/fb.c.  The cells themselves are *)
(* in FbQueue and TermGrid, and which glyph a charset gives is left out.     *)
EXTENDS Integers, Sequences, SequencesExt, TermBytes

CONSTANTS
  rows, cols,
  MAX_ESC_VALUES,   \* FLANTERM_MAX_ESC_VALUES, 16 in the code
  Width,            \* the width of an escape value and of int, 32 in the code
  Alphabets         \* the programs that write: for each its set of buffers

VARIABLES
  ctx,              \* struct flanterm_context and its framebuffer part
  program,          \* the program that writes
  last              \* the kind of buffer it wrote last

vars == <<ctx, program, last>>

TAB_SIZE == 8
NoColour == -1       \* (size_t)-1

Ansi(i) == <<"ansi", i>>
Bright(i) == <<"bright", i>>
Rgb(r, g, b) == <<"rgb", r, g, b>>
col256(i) == <<"col256", i>>
text_fg_default == <<"text_fg_default", 0>>
text_fg_default_bright == <<"text_fg_default_bright", 0>>
text_bg_default == <<"0xffffffff", 0>>
text_bg_default_bright == <<"text_bg_default_bright", 0>>

PlainAttributes ==
  [bold |-> FALSE, bg_bold |-> FALSE, reverse_video |-> FALSE,
   current_primary |-> NoColour, current_bg |-> NoColour,
   text_fg |-> text_fg_default, text_bg |-> text_bg_default]

(* flanterm_context_reinit, which knows nothing of the framebuffer's part:    *)
(* the text colours and the place of the cursor stay.                         *)
flanterm_context_reinit(t) ==
  [t EXCEPT !.cursor_enabled = TRUE, !.scroll_enabled = TRUE,
            !.control_sequence = FALSE, !.escape = FALSE,
            !.osc = FALSE, !.osc_escape = FALSE, !.rrr = FALSE, !.discard_next = FALSE,
            !.sgr.bold = FALSE, !.sgr.bg_bold = FALSE, !.sgr.reverse_video = FALSE,
            !.sgr.current_primary = NoColour, !.sgr.current_bg = NoColour,
            !.dec_private = FALSE, !.insert_mode = FALSE, !.csi_unhandled = FALSE,
            !.unicode_remaining = 0, !.g_select = 0,
            !.escape_offset = 0, !.esc_values_i = 0,
            !.saved_cursor = <<0, 0>>, !.top = 0, !.bottom = rows]

(* Nothing is saved yet: what would be restored are the zeros of the context. *)
(* The colour 0 is black, whose pixels are 0 as well.                         *)
NothingSaved ==
  [sgr |-> [PlainAttributes EXCEPT !.current_primary = 0, !.current_bg = 0,
                                   !.text_fg = Ansi(0), !.text_bg = Ansi(0)],
   x |-> 0, y |-> 0]

(* The state after flanterm_fb_init.                                          *)
Start ==
  flanterm_context_reinit(
    [cursor_enabled |-> TRUE, scroll_enabled |-> TRUE, control_sequence |-> FALSE,
     escape |-> FALSE, osc |-> FALSE, osc_escape |-> FALSE, rrr |-> FALSE,
     discard_next |-> FALSE, sgr |-> PlainAttributes, dec_private |-> FALSE,
     insert_mode |-> FALSE, csi_unhandled |-> FALSE, unicode_remaining |-> 0,
     g_select |-> 0, escape_offset |-> 0, esc_values |-> [i \in 0 .. MAX_ESC_VALUES - 1 |-> 0],
     esc_values_i |-> 0, saved_cursor |-> <<0, 0>>, top |-> 0, bottom |-> rows,
     x |-> 0, y |-> 0,
     saved |-> NothingSaved])

Init ==
  /\ ctx = Start
  /\ program \in DOMAIN Alphabets
  /\ last = "none"

-----------------------------------------------------------------------------
(* The cursor.  Positions are size_t: a negative one stands for its value     *)
(* modulo 2^64, which the code tells apart by the sign of its low bits.       *)

Least(a, b) == IF a <= b THEN a ELSE b
Signed(n) == ((n + 2 ^ (Width - 1)) % 2 ^ Width) - 2 ^ (Width - 1)

Clamp(n, limit) ==
  IF 0 <= n /\ n < limit THEN n ELSE IF Signed(n) < 0 THEN 0 ELSE limit - 1

set_cursor_pos(t, x, y) == [t EXCEPT !.x = Clamp(x, cols), !.y = Clamp(y, rows)]

GetX(t) == Least(t.x, cols - 1)
GetY(t) == Least(t.y, rows - 1)

(* Wrap first, then write; the scrolling of the text is in TermGrid.  With     *)
(* scroll_enabled off cursor_x grows on in the last row: columns past the      *)
(* first behind the line are one.                                              *)
raw_putchar(t) ==
  LET wraps == t.x >= cols /\ (t.y < t.bottom - 1 \/ t.scroll_enabled)
      below == IF t.y + 1 = t.bottom THEN t.y ELSE t.y + 1
      y     == IF wraps THEN Least(below, cols - 1) ELSE t.y
  IN [t EXCEPT !.x = IF wraps THEN 1 ELSE Least(@ + 1, cols + 1), !.y = y]

Puts(t, n) == FoldLeft(LAMBDA u, i : raw_putchar(u), t, [i \in 1 .. n |-> i])

(* \n, ESC D, ESC E; ESC M is the same upwards.                               *)
LineDown(t, x) ==
  set_cursor_pos(t, x, IF GetY(t) = t.bottom - 1 THEN GetY(t) ELSE GetY(t) + 1)

LineUp(t) == set_cursor_pos(t, 0, IF GetY(t) = t.top THEN GetY(t) ELSE GetY(t) - 1)

-----------------------------------------------------------------------------
(* Select graphic rendition.                                                  *)

swap_palette(s) == [s EXCEPT !.text_fg = s.text_bg, !.text_bg = s.text_fg]

Fg(s, colour) == [s EXCEPT !.text_fg = colour]
Bg(s, colour) == [s EXCEPT !.text_bg = colour]

(* The primary colour is painted in the background while video is reversed.   *)
PaintPrimary(s, colour) == IF s.reverse_video THEN Bg(s, colour) ELSE Fg(s, colour)
PaintBg(s, colour) == IF s.reverse_video THEN Fg(s, colour) ELSE Bg(s, colour)

SgrReset(s) == PlainAttributes

SgrBold(s, on) ==
  LET b == [s EXCEPT !.bold = on]
      c == s.current_primary
  IN IF c # NoColour THEN PaintPrimary(b, IF on THEN Bright(c) ELSE Ansi(c))
     ELSE IF s.reverse_video THEN Bg(b, IF on THEN text_bg_default_bright ELSE text_bg_default)
     ELSE Fg(b, IF on THEN text_fg_default_bright ELSE text_fg_default)

SgrBgBold(s, on) ==
  LET b == [s EXCEPT !.bg_bold = on]
      c == s.current_bg
  IN IF c # NoColour THEN PaintBg(b, IF on THEN Bright(c) ELSE Ansi(c))
     ELSE IF s.reverse_video THEN Fg(b, IF on THEN text_fg_default_bright ELSE text_fg_default)
     ELSE Bg(b, IF on THEN text_bg_default_bright ELSE text_bg_default)

SgrPrimary(s, c) ==
  PaintPrimary([s EXCEPT !.current_primary = c], IF s.bold THEN Bright(c) ELSE Ansi(c))

SgrBg(s, c) ==
  PaintBg([s EXCEPT !.current_bg = c], IF s.bg_bold THEN Bright(c) ELSE Ansi(c))

SgrPrimaryBright(s, c) == PaintPrimary([s EXCEPT !.current_primary = c], Bright(c))
SgrBgBright(s, c) == PaintBg([s EXCEPT !.current_bg = c], Bright(c))

(* A default colour that forgets to look at the video.                        *)
SgrDefaultUnswapped(s) ==
  Fg([s EXCEPT !.current_primary = NoColour], IF s.bold THEN text_fg_default_bright ELSE text_fg_default)

SgrDefault(s) ==
  PaintPrimary([s EXCEPT !.current_primary = NoColour],
               IF s.bold THEN text_fg_default_bright ELSE text_fg_default)

SgrBgDefault(s) ==
  PaintBg([s EXCEPT !.current_bg = NoColour],
          IF s.bg_bold THEN text_bg_default_bright ELSE text_bg_default)

SgrReverse(s, on) ==
  IF s.reverse_video = on THEN s ELSE swap_palette([s EXCEPT !.reverse_video = on])

Sgr256(c) == IF c < 8 THEN Ansi(c) ELSE IF c < 16 THEN Bright(c - 8) ELSE col256(c - 16)

SgrOne(s, v) ==
  CASE v = 0 -> SgrReset(s)
    [] v = 1 -> SgrBold(s, TRUE)
    [] v = 22 -> SgrBold(s, FALSE)
    [] v = 5 -> SgrBgBold(s, TRUE)
    [] v = 25 -> SgrBgBold(s, FALSE)
    [] v \in 30 .. 37 -> SgrPrimary(s, v - 30)
    [] v \in 40 .. 47 -> SgrBg(s, v - 40)
    [] v \in 90 .. 97 -> SgrPrimaryBright(s, v - 90)
    [] v \in 100 .. 107 -> SgrBgBright(s, v - 100)
    [] v = 39 -> SgrDefault(s)
    [] v = 49 -> SgrBgDefault(s)
    [] v = 7 -> SgrReverse(s, TRUE)
    [] v = 27 -> SgrReverse(s, FALSE)
    [] OTHER -> s

(* The loop over the escape values from the i-th on.  38 and 48 take the      *)
(* values after them, and end the loop when those are missing.                *)
RECURSIVE SgrFrom(_, _, _)
SgrFrom(t, s, i) ==
  LET v(j) == t.esc_values[j]
      n == t.esc_values_i
      paint(u, colour) == IF v(i) = 38 THEN Fg(u, colour) ELSE Bg(u, colour)
  IN IF i >= n THEN s
     ELSE IF v(i) \notin {38, 48} THEN SgrFrom(t, SgrOne(s, v(i)), i + 1)
     ELSE IF i + 1 >= n THEN s
     ELSE IF v(i + 1) = 2
       THEN IF i + 4 >= n THEN s
            ELSE SgrFrom(t, paint(s, Rgb(v(i + 2), v(i + 3), v(i + 4))), i + 5)
     ELSE IF v(i + 1) = 5
       THEN IF i + 2 >= n THEN s
            ELSE SgrFrom(t, IF v(i + 2) < 256 THEN paint(s, Sgr256(v(i + 2))) ELSE s, i + 3)
     ELSE SgrFrom(t, s, i + 2)

sgr(t) ==
  [t EXCEPT !.sgr = IF t.esc_values_i = 0 THEN SgrReset(@) ELSE SgrFrom(t, @, 0)]

-----------------------------------------------------------------------------
(* Control sequences, ESC [ ... .                                             *)

(* "cleanup" at the end of control_sequence_parse.                            *)
Ended(t) == [t EXCEPT !.control_sequence = FALSE, !.escape = FALSE]

CsiDigitUnchecked(t, d) ==
  [t EXCEPT !.rrr = TRUE, !.esc_values[t.esc_values_i] = (@ * 10 + d) % 2 ^ Width]

CsiDigit(t, d) ==
  IF t.esc_values_i = MAX_ESC_VALUES THEN t
  ELSE [t EXCEPT !.rrr = TRUE, !.esc_values[t.esc_values_i] = (@ * 10 + d) % 2 ^ Width]

CsiSemicolon(t) ==
  IF t.rrr THEN [t EXCEPT !.esc_values_i = @ + 1, !.rrr = FALSE]
  ELSE IF t.esc_values_i = MAX_ESC_VALUES THEN t
  ELSE [t EXCEPT !.esc_values[t.esc_values_i] = 0, !.esc_values_i = @ + 1]

(* The values not given become 0 for J, K and q, and 1 for the others.        *)
CsiDefaults(t, k) ==
  LET n == t.esc_values_i + (IF t.rrr THEN 1 ELSE 0)
  IN [t EXCEPT !.rrr = FALSE, !.esc_values_i = n,
               !.esc_values = [i \in DOMAIN @ |->
                 IF i < n THEN @[i] ELSE IF k \in {"J", "K", "q"} THEN 0 ELSE 1]]

CursorUpUnchecked(t, x) ==
  set_cursor_pos(t, x, GetY(t) - Least(t.esc_values[0], GetY(t)))

(* A and F: not past the top of the scroll region when it is on the way.      *)
CursorUp(t, x) ==
  LET y == GetY(t)
      dest == y - Least(t.esc_values[0], y)
      in_region == t.top \in dest .. y \/ t.bottom \in dest .. y
  IN set_cursor_pos(t, x, IF in_region /\ dest < t.top THEN t.top ELSE dest)

(* B, e and E.                                                                *)
CursorDown(t, x) ==
  LET y == GetY(t)
      dest == Least(y + t.esc_values[0], rows - 1)
      in_region == t.top \in y .. dest \/ t.bottom \in y .. dest
  IN set_cursor_pos(t, x, IF in_region /\ dest >= t.bottom THEN t.bottom - 1 ELSE dest)

(* d, G and 0x60: a value of 0 wraps, and ends in the last row or column.        *)
Absolute(v, limit) == Least((v - 1) % 2 ^ Width, limit - 1)

(* H and f.                                                                   *)
CursorTo(t) ==
  LET less(v) == IF v = 0 THEN 0 ELSE v - 1
  IN set_cursor_pos(t, Least(less(t.esc_values[1]), cols - 1),
                       Least(less(t.esc_values[0]), rows - 1))

SetMarginsUnchecked(t) ==
  LET top    == IF t.esc_values_i > 0 THEN t.esc_values[0] - 1 ELSE 0
      bottom == IF t.esc_values_i > 1 THEN t.esc_values[1] ELSE rows
      valid  == top < rows /\ bottom <= rows
  IN set_cursor_pos([t EXCEPT !.top = IF valid THEN top ELSE 0,
                              !.bottom = IF valid THEN bottom ELSE rows], 0, 0)

SetMargins(t) ==
  LET v(i)   == IF t.esc_values[i] = 0 THEN 1 ELSE t.esc_values[i]
      top    == IF t.esc_values_i > 0 THEN v(0) - 1 ELSE 0
      bottom == IF t.esc_values_i > 1 THEN v(1) ELSE rows
      valid  == top < rows /\ bottom <= rows /\ top < bottom - 1
  IN set_cursor_pos([t EXCEPT !.top = IF valid THEN top ELSE 0,
                              !.bottom = IF valid THEN bottom ELSE rows], 0, 0)

(* J, @, P, X and K write blanks through raw_putchar, and put the cursor      *)
(* back, save K with 1.                                                       *)
CsiErase(t, k) ==
  LET x == GetX(t)  y == GetY(t)  v == t.esc_values[0]
      back(u) == set_cursor_pos(u, x, y)
  IN CASE k = "K" /\ v = 1 -> Puts(set_cursor_pos(t, 0, y), x)
       [] k = "K" /\ v \notin 0 .. 2 -> t
       [] k = "J" /\ v # 0 /\ v # 1 -> t
       [] OTHER -> back(t)

(* dec_private_parse and mode_toggle; what they do not know goes to a         *)
(* callback, which the kernel does not set.                                   *)
dec_private_parse(t, k) ==
  LET u == [t EXCEPT !.dec_private = FALSE]
  IN IF t.esc_values_i > 0 /\ k \in {"h", "l"} /\ t.esc_values[0] = 25
       THEN [u EXCEPT !.cursor_enabled = k = "h"] ELSE u

mode_toggle(t, k) ==
  IF t.esc_values_i > 0 /\ t.esc_values[0] = 4 THEN [t EXCEPT !.insert_mode = k = "h"] ELSE t

(* The last byte of a sequence.  Callbacks (c, n, q and ]) have no effect, and *)
(* the scrolling of M and L is in TermGrid.                                   *)
CsiFinal(t, k) ==
  LET x == GetX(t)  y == GetY(t)  v == t.esc_values[0]
  IN CASE k = "A" -> CursorUp(t, x)
       [] k = "F" -> CursorUp(t, 0)
       [] k \in {"B", "e"} -> CursorDown(t, x)
       [] k = "E" -> CursorDown(t, 0)
       [] k \in {"C", "a"} -> set_cursor_pos(t, Least(x + v, cols - 1), y)
       [] k = "D" -> set_cursor_pos(t, x - Least(v, x), y)
       [] k = "d" -> set_cursor_pos(t, x, Absolute(v, rows))
       [] k \in {"G", "backtick"} -> set_cursor_pos(t, Absolute(v, cols), y)
       [] k \in {"H", "f"} -> CursorTo(t)
       [] k \in {"J", "K", "@", "P", "X"} -> CsiErase(t, k)
       [] k = "m" -> sgr(t)
       [] k = "s" -> [t EXCEPT !.saved_cursor = <<x, y>>]
       [] k = "u" -> set_cursor_pos(t, t.saved_cursor[1], t.saved_cursor[2])
       [] k = "r" -> SetMargins(t)
       [] k \in {"h", "l"} -> mode_toggle(t, k)
       [] OTHER -> t

Handled == {"A", "F", "B", "e", "E", "C", "a", "D", "c", "d", "G", "backtick", "H", "f", "M", "L",
            "n", "q", "J", "@", "P", "X", "m", "s", "u", "K", "r", "l", "h", "]"}

(* Bytes of 0x40 to 0x7E.                                                     *)
Terminator(k) == k \notin {"esc", "?", "(", ")", "nl", "bs", "cr", "tab", "bel", "can", "so", "si",
                           "cont"}

(* scroll_enabled is off while a sequence's last byte is acted on, and the    *)
(* early returns leave it off.                                                *)
CsiByte(t, k) ==
  LET d == CsiDefaults(t, k)
      off == [d EXCEPT !.scroll_enabled = FALSE]
  IN CASE d.dec_private -> Ended(dec_private_parse(d, k))
       [] ~ d.dec_private /\ d.csi_unhandled ->
            IF Terminator(k) THEN Ended([off EXCEPT !.csi_unhandled = FALSE]) ELSE off
       [] ~ d.dec_private /\ ~ d.csi_unhandled /\ k = "esc" -> off
       [] ~ d.dec_private /\ ~ d.csi_unhandled /\ k \in Handled ->
            Ended([CsiFinal(off, k) EXCEPT !.scroll_enabled = d.scroll_enabled])
       [] OTHER -> [off EXCEPT !.csi_unhandled = TRUE]

control_sequence_parse(t, c) ==
  IF t.escape_offset = 2 /\ c.k = "[" THEN Ended([t EXCEPT !.discard_next = TRUE])
  ELSE IF t.escape_offset = 2 /\ c.k = "?" THEN [t EXCEPT !.dec_private = TRUE]
  ELSE IF c.k = "digit" THEN CsiDigit(t, c.n)
  ELSE IF c.k = ";" THEN CsiSemicolon(t)
  ELSE CsiByte(t, c.k)

-----------------------------------------------------------------------------
(* Other escape sequences.                                                    *)

save_state(t) == [t EXCEPT !.saved = [sgr |-> t.sgr, x |-> t.x, y |-> t.y]]

restore_state(t) == [t EXCEPT !.sgr = t.saved.sgr, !.x = t.saved.x, !.y = t.saved.y]

(* A string for the operating system ends with BEL or ESC \; after another    *)
(* ESC the byte is parsed again, and the second result says so.               *)
osc_parse(t, k) ==
  CASE t.osc_escape ->
         <<[t EXCEPT !.osc = FALSE, !.osc_escape = FALSE, !.escape = k # "backslash"],
           k = "backslash">>
    [] ~ t.osc_escape /\ k = "esc" -> <<[t EXCEPT !.osc_escape = TRUE], TRUE>>
    [] ~ t.osc_escape /\ k = "bel" -> <<[t EXCEPT !.osc = FALSE, !.escape = FALSE], TRUE>>
    [] OTHER -> <<t, TRUE>>

EscapeByte(t, c) ==
  LET done == [t EXCEPT !.escape = FALSE]
  IN CASE c.k = "]" -> [t EXCEPT !.osc = TRUE, !.osc_escape = FALSE]
       [] c.k = "[" -> [t EXCEPT !.esc_values = [i \in DOMAIN @ |-> 0], !.esc_values_i = 0,
                                 !.rrr = FALSE, !.csi_unhandled = FALSE,
                                 !.control_sequence = TRUE]
       [] c = Digit(7) -> save_state(done)
       [] c = Digit(8) -> restore_state(done)
       [] c.k = "c" -> [flanterm_context_reinit(t) EXCEPT !.x = 0, !.y = 0]
       [] c.k = "D" -> LineDown(done, GetX(t))
       [] c.k = "E" -> LineDown(done, 0)
       [] c.k = "M" -> LineUp(done)
       [] c.k = "(" -> [done EXCEPT !.g_select = 1]
       [] c.k = ")" -> [done EXCEPT !.g_select = 2]
       [] OTHER -> done

(* escape_offset only ever matters up to 2.                                   *)
escape_parse(t, c) ==
  LET u == [t EXCEPT !.escape_offset = Least(@ + 1, 3)]
      o == IF u.osc THEN osc_parse(u, c.k) ELSE <<u, FALSE>>
  IN IF o[2] THEN o[1]
     ELSE IF t.control_sequence THEN control_sequence_parse(o[1], c)
     ELSE EscapeByte(o[1], c)

-----------------------------------------------------------------------------
(* One byte.                                                                  *)

Discard(t) ==
  [t EXCEPT !.discard_next = FALSE, !.escape = FALSE, !.control_sequence = FALSE,
            !.unicode_remaining = 0, !.osc = FALSE, !.osc_escape = FALSE, !.g_select = 0]

(* Control characters, and text: one cell a character, in whichever charset.  *)
Plain(t, k) ==
  LET x == GetX(t)  y == GetY(t)
  IN CASE k = "esc" -> [t EXCEPT !.escape_offset = 0, !.escape = TRUE]
       [] k = "tab" -> set_cursor_pos(t, IF x \div TAB_SIZE + 1 >= cols THEN cols - 1
                                         ELSE (x \div TAB_SIZE + 1) * TAB_SIZE, y)
       [] k = "nl" -> LineDown(t, 0)
       [] k = "bs" -> set_cursor_pos(t, x - 1, y)
       [] k = "cr" -> set_cursor_pos(t, 0, y)
       [] k \in {"bel", "so", "si", "nul"} -> t
       [] OTHER -> raw_putchar(t)

AfterUnicode(t, c) ==
  CASE c.k = "lead" -> [t EXCEPT !.unicode_remaining = c.n]
    [] c.k # "lead" /\ t.escape -> escape_parse(t, c)
    [] c.k # "lead" /\ ~ t.escape /\ t.g_select # 0 -> [t EXCEPT !.g_select = 0]
    [] OTHER -> Plain(t, c.k)

flanterm_putchar(t, c) ==
  CASE t.discard_next \/ c.k = "can" -> Discard(t)
    [] ~ (t.discard_next \/ c.k = "can") /\ t.unicode_remaining # 0 /\ c.k = "cont" ->
         LET u == [t EXCEPT !.unicode_remaining = @ - 1]
         IN IF u.unicode_remaining # 0 THEN u ELSE Puts(u, c.n)
    [] OTHER -> AfterUnicode([t EXCEPT !.unicode_remaining = 0], c)

(* The values of a sequence are dead after it, as ESC [ clears them, and so   *)
(* is the place in it, as ESC does.                                           *)
Forget(t) ==
  IF t.control_sequence THEN t
  ELSE [t EXCEPT !.esc_values = [i \in DOMAIN @ |-> 0], !.esc_values_i = 0,
                 !.escape_offset = IF t.escape THEN @ ELSE 0]

Moves == {"A", "B", "e", "E", "F"}
Kind(buf) ==
  IF \A i \in DOMAIN buf : buf[i].k = "digit" THEN "digits"
  ELSE IF Len(buf) > 2 /\ buf[Len(buf)].k \in Moves THEN "move"
  ELSE "other"

(* Two runs of digits one after the other are one run, which is not written   *)
(* in two pieces: the one bound of the inputs.                                *)
flanterm_write(buf) ==
  /\ ~ (last = "digits" /\ Kind(buf) = "digits")
  /\ ctx' = Forget(FoldLeft(flanterm_putchar, ctx, buf))
  /\ last' = Kind(buf)
  /\ UNCHANGED program

Next == \E buf \in Alphabets[program] : flanterm_write(buf)

Spec == Init /\ [][Next]_vars

-----------------------------------------------------------------------------
(* The values of a sequence stay inside esc_values[]: a value is begun only   *)
(* where there is room, whatever digits, semicolons and bytes that end or     *)
(* break off a sequence come in which order (flanterm.c:514-536).             *)
EscValuesFit ==
  /\ ctx.esc_values_i \in 0 .. MAX_ESC_VALUES
  /\ ctx.rrr => ctx.esc_values_i < MAX_ESC_VALUES

(* The cursor is on the screen, or waits behind a line's end, as long as      *)
(* scrolling is on, the scroll region reaches the last row, and no other      *)
(* cursor was saved; the region itself always has two rows of the screen      *)
(* (flanterm.c:782-804, fb.c:802-821, 971-991).                               *)
OnScreen(c) == c.x \in 0 .. cols /\ c.y \in 0 .. rows - 1

CursorOnScreen ==
  /\ ctx.scroll_enabled /\ ctx.bottom = rows /\ OnScreen(ctx.saved) => OnScreen(ctx)
  /\ 0 <= ctx.top /\ ctx.top < ctx.bottom - 1 /\ ctx.bottom <= rows

(* A relative move that starts inside the scroll region ends inside it        *)
(* (flanterm.c:574-612).                                                      *)
InRegion(t) == GetY(t) \in t.top .. t.bottom - 1
MovesStayInRegion ==
  [][last' = "move" /\ ~ ctx.escape /\ InRegion(ctx) => InRegion(ctx')]_vars

(* Programs that use no bright, 256 or RGB colours, do not reset the          *)
(* terminal, and use no bold text in reverse video.                           *)
Uses(p, k, values) == \E v \in values : Csi(<<v>>, k) \in Alphabets[p]
PlainColours(p) ==
  /\ \A buf \in Alphabets[p] : Len(buf) < 7 /\ buf[Len(buf)].k # "c"
  /\ ~ Uses(p, "m", {91, 101})
  /\ Uses(p, "m", {7}) => ~ Uses(p, "m", {1, 5})

Shade(colour, bold, plain, bright) ==
  IF colour = NoColour THEN IF bold THEN bright ELSE plain
  ELSE IF bold THEN Bright(colour) ELSE Ansi(colour)

(* The colours of such a program's text are always those that its attributes  *)
(* say, however often they are set, reset, reversed, saved and restored: no   *)
(* order of attributes leaves a colour behind (flanterm.c:130-397, 824-844).  *)
(* Attributes that are restored before any were saved are the zeros of the    *)
(* context, black on black (fb.c:1137).                                       *)
ColoursFollowAttributes ==
  PlainColours(program) =>
    LET s == ctx.sgr
        normal == IF s.reverse_video THEN swap_palette(s) ELSE s
    IN /\ normal.text_fg = Shade(s.current_primary, s.bold, text_fg_default, text_fg_default_bright)
       /\ normal.text_bg = Shade(s.current_bg, s.bg_bold, text_bg_default, text_bg_default_bright)
=============================================================================
