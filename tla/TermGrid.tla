------------------------------ MODULE TermGrid ------------------------------
(* What the terminal's operations do to the text: scrolling, and the loops   *)
(* of the editing sequences of control_sequence_parse, over the text that    *)
(* push_to_queue writes (a cell's queued character, or the grid's).          *)
(* A terminal t has the text g (cells by index), its size, the cursor, the   *)
(* scroll region [top, bottom) and scroll_enabled.                           *)
EXTENDS Integers, Sequences
LOCAL INSTANCE SequencesExt

Blank == -1

UpTo(a, b) == [k \in 1 .. b - a + 1 |-> a + k - 1]
DownTo(a, b) == [k \in 1 .. a - b + 1 |-> a - k + 1]
Loop(F(_, _), t, is) == FoldLeft(F, t, is)

push(t, ch, x, y) ==
  IF x \in 0 .. t.cols - 1 /\ y \in 0 .. t.rows - 1
    THEN [t EXCEPT !.g[x + y * t.cols] = ch] ELSE t

At(t, x, y) == [t EXCEPT !.x = IF x < 0 THEN 0 ELSE IF x >= t.cols THEN t.cols - 1 ELSE x,
                         !.y = IF y < 0 THEN 0 ELSE IF y >= t.rows THEN t.rows - 1 ELSE y]

ClearRow(t, y) == Loop(LAMBDA u, i : push(u, Blank, i, y), t, UpTo(0, t.cols - 1))

(* A scroll that starts with the first row of the region.                     *)
scrollFirstToo(t) ==
  ClearRow(Loop(LAMBDA u, i : push(u, u.g[i], (i - t.cols) % t.cols, (i - t.cols) \div t.cols),
                t, UpTo(t.top * t.cols, t.bottom * t.cols - 1)),
           t.bottom - 1)

scroll(t) ==
  ClearRow(Loop(LAMBDA u, i : push(u, u.g[i], (i - t.cols) % t.cols, (i - t.cols) \div t.cols),
                t, UpTo((t.top + 1) * t.cols, t.bottom * t.cols - 1)),
           t.bottom - 1)

revscroll(t) ==
  ClearRow(Loop(LAMBDA u, i : push(u, u.g[i], (i + t.cols) % t.cols, (i + t.cols) \div t.cols),
                t, DownTo((t.bottom - 1) * t.cols - 1, t.top * t.cols)),
           t.top)

clear(t) == Loop(LAMBDA u, i : push(u, Blank, i % t.cols, i \div t.cols), t,
                 UpTo(0, t.rows * t.cols - 1))

move_character(t, new_x, new_y, old_x, old_y) ==
  IF {old_x, new_x} \subseteq 0 .. t.cols - 1 /\ {old_y, new_y} \subseteq 0 .. t.rows - 1
    THEN push(t, t.g[old_x + old_y * t.cols], new_x, new_y) ELSE t

(* The row is compared with the columns, not with the rows.                   *)
raw_putchar(t, ch) ==
  LET wraps == t.x >= t.cols /\ (t.y < t.bottom - 1 \/ t.scroll)
      down == [t EXCEPT !.x = 0, !.y = @ + 1]
      in == IF down.y = t.bottom THEN scroll([down EXCEPT !.y = @ - 1]) ELSE down
      u == IF ~ wraps THEN t ELSE IF in.y >= t.cols THEN [in EXCEPT !.y = t.cols - 1] ELSE in
  IN [push(u, ch, u.x, u.y) EXCEPT !.x = @ + 1]

Blanks(t, n) == Loop(LAMBDA u, i : raw_putchar(u, Blank), t, UpTo(1, n))
-----------------------------------------------------------------------------
(* The sequences.  The cursor of a full line is behind its last cell; a       *)
(* sequence is told that it is in that cell, but the blanks it writes without *)
(* setting the cursor first start behind it.                                  *)
GetX(t) == IF t.x >= t.cols THEN t.cols - 1 ELSE t.x

EraseBelow(t) ==
  At(Blanks(t, (t.rows - (t.y + 1)) * t.cols + (t.cols - (GetX(t) + 1)) + 1), t.x, t.y)

(* J with 1 writes from the first cell up to the cursor's.                    *)
EraseAbove(t) == At(Blanks(At(t, 0, 0), t.y * t.cols + GetX(t) + 1), t.x, t.y)

EraseLine(t, v) ==
  IF v = 0 THEN At(Blanks(t, t.cols - GetX(t)), t.x, t.y)
  ELSE IF v = 1 THEN Blanks(At(t, 0, t.y), GetX(t))
  ELSE At(Blanks(At(t, 0, t.y), t.cols), t.x, t.y)

(* An insertion that takes the cells from the left.                           *)
InsertBlanksFromLeft(t, v) ==
  At(Loop(LAMBDA u, i : raw_putchar(At(move_character(u, i + v, t.y, i, t.y), i, t.y), Blank),
          t, UpTo(GetX(t), t.cols - 1)), t.x, t.y)

InsertBlanks(t, v) ==
  At(Loop(LAMBDA u, i : raw_putchar(At(move_character(u, i + v, t.y, i, t.y), i, t.y), Blank),
          t, DownTo(t.cols - 1, GetX(t))), t.x, t.y)

EraseChars(t, v, x, y) == At(Blanks(t, IF v > t.cols THEN t.cols ELSE v), x, y)

DeleteChars(t, v) ==
  EraseChars(At(Loop(LAMBDA u, i : move_character(u, i - v, t.y, i, t.y), t,
                     UpTo(GetX(t) + v, t.cols - 1)), t.cols - v, t.y),
             v, t.x, t.y)

(* M scrolls the region; L the part of it below the cursor.                   *)
Times(t, v) == UpTo(1, IF v > t.rows THEN t.rows ELSE v)
DeleteLines(t, v) == Loop(LAMBDA u, i : scroll(u), t, Times(t, v))
InsertLines(t, v) ==
  [Loop(LAMBDA u, i : revscroll(u), [t EXCEPT !.top = t.y], Times(t, v)) EXCEPT !.top = t.top]

(* A character in insert mode, which is not inside a sequence: it may scroll. *)
PutInserting(t, ch) ==
  raw_putchar(Loop(LAMBDA u, i : move_character(u, i + 1, t.y, i, t.y), t,
                   DownTo(t.cols - 1, GetX(t))),
              ch)

Sequence(t, k, v) ==
  LET u == [t EXCEPT !.scroll = FALSE]
  IN [CASE k = "J" /\ v = 0 -> EraseBelow(u)
        [] k = "J" /\ v = 1 -> EraseAbove(u)
        [] k = "J" /\ v \in 2 .. 3 -> clear(u)
        [] k = "K" /\ v \in 0 .. 2 -> EraseLine(u, v)
        [] k = "@" -> InsertBlanks(u, v)
        [] k = "P" -> DeleteChars(u, v)
        [] k = "X" -> EraseChars(u, v, t.x, t.y)
        [] k = "M" -> DeleteLines(u, v)
        [] k = "L" -> InsertLines(u, v)
        [] OTHER -> u EXCEPT !.scroll = t.scroll]
-----------------------------------------------------------------------------
(* What the sequences are for, by console_codes(4): the text after one, cell  *)
(* by cell.  Each is given by the cell (x, y) whose character the cell takes, *)
(* or a blank.                                                                *)
Shows(t, From(_, _)) ==
  [i \in DOMAIN t.g |->
     LET from == From(i % t.cols, i \div t.cols)
     IN IF from = <<>> THEN Blank ELSE t.g[from[1] + from[2] * t.cols]]

(* The rows [top, bottom) moved up by n, and down by n.                       *)
RowsUp(t, top, bottom, n) ==
  Shows(t, LAMBDA x, y : IF y \notin top .. bottom - 1 THEN <<x, y>>
                         ELSE IF y + n < bottom THEN <<x, y + n>> ELSE <<>>)
RowsDown(t, top, bottom, n) ==
  Shows(t, LAMBDA x, y : IF y \notin top .. bottom - 1 THEN <<x, y>>
                         ELSE IF y - n >= top THEN <<x, y - n>> ELSE <<>>)

Earlier(t, x, y) == y < t.y \/ (y = t.y /\ x < GetX(t))
Erased(t, S(_, _)) == Shows(t, LAMBDA x, y : IF S(x, y) THEN <<>> ELSE <<x, y>>)

Wanted(t, k, v) ==
  LET cx == GetX(t) IN
  CASE k = "J" /\ v = 0 -> Erased(t, LAMBDA x, y : ~ Earlier(t, x, y))
    [] k = "J" /\ v = 1 -> Erased(t, LAMBDA x, y : Earlier(t, x, y) \/ (x = cx /\ y = t.y))
    [] k = "J" /\ v \in 2 .. 3 -> Erased(t, LAMBDA x, y : TRUE)
    [] k = "K" /\ v = 0 -> Erased(t, LAMBDA x, y : y = t.y /\ x >= cx)
    [] k = "K" /\ v = 1 -> Erased(t, LAMBDA x, y : y = t.y /\ x <= cx)
    [] k = "K" /\ v = 2 -> Erased(t, LAMBDA x, y : y = t.y)
    [] k = "@" -> Shows(t, LAMBDA x, y : IF y # t.y \/ x < cx THEN <<x, y>>
                                         ELSE IF x - v >= cx THEN <<x - v, y>> ELSE <<>>)
    [] k = "P" -> Shows(t, LAMBDA x, y : IF y # t.y \/ x < cx THEN <<x, y>>
                                         ELSE IF x + v < t.cols THEN <<x + v, y>> ELSE <<>>)
    [] k = "X" -> Erased(t, LAMBDA x, y : y = t.y /\ x \in cx .. cx + v - 1)
    [] k = "M" -> RowsUp(t, t.y, t.bottom, v)
    [] k = "L" -> RowsDown(t, t.y, t.bottom, v)
    [] OTHER -> t.g

(* The cells that the code's loops leave otherwise: the cursor's after K with *)
(* 1; where blanks run on behind the end of a line (X, and K and J with 0     *)
(* when the cursor is there), or stop at the end of the region (J); left of   *)
(* the cursor where P deletes more than the rest of the line; the rest of the *)
(* line after @ with 0; and the rows of M and L, of which M starts with the   *)
(* region's first row and L, below the region, clears the cursor's.           *)
Differs(t, k, v, x, y) ==
  LET cell == x + y * t.cols  at == t.x + t.y * t.cols
  IN \/ k = "K" /\ v = 1 /\ cell = GetX(t) + t.y * t.cols
     \/ t.x = t.cols /\ (k = "X" \/ (k \in {"J", "K"} /\ v = 0)) /\ cell \in {at - 1, at}
     \/ k = "X" /\ y > t.y /\ cell < at + v
     \/ k = "J" /\ v \in 0 .. 1 /\ y >= t.bottom
     \/ k = "P" /\ y = t.y /\ x \in t.cols - v .. GetX(t) - 1
     \/ k = "@" /\ v = 0 /\ y = t.y /\ x >= GetX(t)
     \/ k = "L" /\ y = t.y /\ t.y >= t.bottom
     \/ k = "M" /\ t.y # t.top /\ y >= (IF t.y < t.top THEN t.y ELSE t.top) /\ y < t.bottom
=============================================================================
