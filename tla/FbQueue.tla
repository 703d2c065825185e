------------------------------ MODULE FbQueue ------------------------------
(* Deferred drawing in src/kernel/terminal/src/flanterm_backends/fb.c: a    *)
(* character goes into a queue, an item per cell that the map points at,    *)
(* and double_buffer_flush draws the items, the cursor and what the cursor  *)
(* covered.  Cells are numbered as grid[] is, y * cols + x.                 *)
EXTENDS Integers, Sequences

CONSTANTS
  rows, cols,
  Glyphs,          \* the characters of the font
  Colours,         \* the colours a pixel can have
  default_bg,
  Written          \* the characters that callers write

TRANSPARENT == "0xffffffff"
FbChar == [c : Glyphs, fg : Colours \cup {TRANSPARENT}, bg : Colours \cup {TRANSPARENT}]

ASSUME FbAssumption ==
  /\ rows \in Nat \ {0} /\ cols \in Nat \ {0}
  /\ default_bg \in Colours
  /\ Written \subseteq FbChar

Cells == 0 .. rows * cols - 1
NULL == 0
NOWHERE == -1      \* a cursor that is not on a cell, as behind the last column

VARIABLES
  grid,            \* ctx->grid: the characters as last drawn
  queue,           \* the first queue_i items of ctx->queue
  map,             \* ctx->map: NULL or the number of a cell's item
  screen,          \* the cells of the framebuffer
  cursor, old_cursor, cursor_enabled,
  at,              \* the item the flush is at, or 0 outside a flush
  wrote            \* the last write, <<cell, character>>; history, never read

vars == <<grid, queue, map, screen, cursor, old_cursor, cursor_enabled, at, wrote>>

Resolve(colour) == IF colour = TRANSPARENT THEN default_bg ELSE colour

(* What plot_char leaves of a character in its cell.                       *)
plot_char(ch) == [c |-> ch.c, fg |-> Resolve(ch.fg), bg |-> Resolve(ch.bg)]

Reversed(ch) == [c |-> ch.c, fg |-> ch.bg, bg |-> ch.fg]

(* The character of a cell, drawn or waiting.                              *)
Content(i) == IF map[i] # NULL THEN queue[map[i]].c ELSE grid[i]

Init ==
  /\ \E blank \in Written :
       /\ grid = [i \in Cells |-> blank]
       /\ screen = [i \in Cells |->
                      IF i = 0 THEN plot_char(Reversed(blank)) ELSE plot_char(blank)]
  /\ queue = <<>>
  /\ map = [i \in Cells |-> NULL]
  /\ cursor = 0 /\ old_cursor = 0 /\ cursor_enabled = TRUE
  /\ at = 0
  /\ wrote = <<>>

-----------------------------------------------------------------------------
(* Between two flushes.                                                    *)

PushAlways(i, ch) ==
  /\ at = 0
  /\ queue' = Append(queue, [cell |-> i, c |-> ch])
  /\ map' = [map EXCEPT ![i] = Len(queue) + 1]
  /\ wrote' = <<i, ch>>
  /\ UNCHANGED <<grid, screen, cursor, old_cursor, cursor_enabled, at>>

PushDrawn(i, ch) ==
  /\ at = 0
  /\ IF grid[i] = ch
       THEN UNCHANGED <<queue, map>>
       ELSE IF map[i] # NULL
         THEN queue' = [queue EXCEPT ![map[i]] = [cell |-> i, c |-> ch]] /\ UNCHANGED map
         ELSE /\ queue' = Append(queue, [cell |-> i, c |-> ch])
              /\ map' = [map EXCEPT ![i] = Len(queue) + 1]
  /\ wrote' = <<i, ch>>
  /\ UNCHANGED <<grid, screen, cursor, old_cursor, cursor_enabled, at>>

push_to_queue(i, ch) ==
  /\ at = 0
  /\ IF map[i] # NULL
       THEN queue' = [queue EXCEPT ![map[i]] = [cell |-> i, c |-> ch]] /\ UNCHANGED map
       ELSE IF grid[i] = ch
         THEN UNCHANGED <<queue, map>>
         ELSE /\ queue' = Append(queue, [cell |-> i, c |-> ch])
              /\ map' = [map EXCEPT ![i] = Len(queue) + 1]
  /\ wrote' = <<i, ch>>
  /\ UNCHANGED <<grid, screen, cursor, old_cursor, cursor_enabled, at>>

set_cursor(p) ==
  /\ at = 0
  /\ cursor' = p
  /\ UNCHANGED <<grid, queue, map, screen, old_cursor, cursor_enabled, at, wrote>>

(* ESC[?25h and ESC[?25l.                                                  *)
show_cursor(on) ==
  /\ at = 0
  /\ cursor_enabled' = on
  /\ UNCHANGED <<grid, queue, map, screen, cursor, old_cursor, at, wrote>>

-----------------------------------------------------------------------------
(* double_buffer_flush: the cursor, the items one by one, the old cursor.  *)

(* The item under the cursor is taken off the map, and stays in the queue. *)
draw_cursor ==
  /\ at = 0
  /\ IF cursor_enabled /\ cursor # NOWHERE
       THEN /\ screen' = [screen EXCEPT ![cursor] = plot_char(Reversed(Content(cursor)))]
            /\ grid' = [grid EXCEPT ![cursor] = Content(cursor)]
            /\ map' = [map EXCEPT ![cursor] = NULL]
       ELSE UNCHANGED <<grid, map, screen>>
  /\ at' = 1
  /\ UNCHANGED <<queue, cursor, old_cursor, cursor_enabled, wrote>>

FlushItem ==
  /\ at \in 1 .. Len(queue)
  /\ LET i == queue[at].cell IN
       IF map[i] = NULL
         THEN UNCHANGED <<grid, map, screen>>
         ELSE /\ screen' = [screen EXCEPT ![i] = plot_char(queue[at].c)]
              /\ grid' = [grid EXCEPT ![i] = queue[at].c]
              /\ map' = [map EXCEPT ![i] = NULL]
  /\ at' = at + 1
  /\ UNCHANGED <<queue, cursor, old_cursor, cursor_enabled, wrote>>

FlushEndMovedOnly ==
  /\ at = Len(queue) + 1
  /\ screen' = IF old_cursor # cursor /\ old_cursor # NOWHERE
                 THEN [screen EXCEPT ![old_cursor] = plot_char(grid[old_cursor])]
                 ELSE screen
  /\ old_cursor' = cursor
  /\ queue' = <<>>
  /\ at' = 0
  /\ UNCHANGED <<grid, map, cursor, cursor_enabled, wrote>>

FlushEnd ==
  /\ at = Len(queue) + 1
  /\ screen' = IF (old_cursor # cursor \/ ~ cursor_enabled) /\ old_cursor # NOWHERE
                 THEN [screen EXCEPT ![old_cursor] = plot_char(grid[old_cursor])]
                 ELSE screen
  /\ old_cursor' = cursor
  /\ queue' = <<>>
  /\ at' = 0
  /\ UNCHANGED <<grid, map, cursor, cursor_enabled, wrote>>

Next ==
  \/ \E i \in Cells, ch \in Written : push_to_queue(i, ch)
  \/ \E p \in Cells \cup {NOWHERE} : set_cursor(p)
  \/ \E on \in BOOLEAN : show_cursor(on)
  \/ draw_cursor \/ FlushItem \/ FlushEnd

Spec == Init /\ [][Next]_vars

-----------------------------------------------------------------------------
(* The queue never outgrows ctx->queue, which has room for an item per cell *)
(* and is indexed without a check: no cell is queued twice, also when the   *)
(* cursor's item was taken off the map (fb.c:708-730, 911-960).             *)
QueueFits == Len(queue) <= rows * cols

(* The inductive strengthening.  Outside a flush map and queue point at each *)
(* other; during one, the items from `at` on do, save the cursor's; and what *)
(* is on the screen is what was last drawn, save where the old cursor is.    *)
Queued == [cell : Cells, c : FbChar]

TypeOK ==
  /\ grid \in [Cells -> FbChar]
  /\ queue \in Seq(Queued)
  /\ map \in [Cells -> Nat]
  /\ screen \in [Cells -> FbChar]
  /\ cursor \in Cells \cup {NOWHERE} /\ old_cursor \in Cells \cup {NOWHERE}
  /\ cursor_enabled \in BOOLEAN
  /\ at \in 0 .. Len(queue) + 1

Drawn(i) == cursor_enabled /\ i = cursor

QueueOK ==
  /\ \A j, k \in 1 .. Len(queue) : queue[j].cell = queue[k].cell => j = k
  /\ \A i \in Cells : map[i] # NULL =>
       map[i] \in 1 .. Len(queue) /\ map[i] >= at /\ queue[map[i]].cell = i
  /\ \A k \in 1 .. Len(queue) : k >= at =>
       map[queue[k].cell] = k \/ (at > 0 /\ Drawn(queue[k].cell))
  /\ at > 0 => \A i \in Cells : Drawn(i) => map[i] = NULL

ScreenOK ==
  \A i \in Cells :
    /\ at > 0 /\ Drawn(i) => screen[i] = plot_char(Reversed(grid[i]))
    /\ i # old_cursor /\ ~ (at > 0 /\ Drawn(i)) => screen[i] = plot_char(grid[i])

IInv == TypeOK /\ QueueOK /\ ScreenOK

(* What a viewer sees once a flush is over: the text, reversed at the       *)
(* cursor and nowhere else.                                                 *)
Picture(i) ==
  IF cursor_enabled /\ i = cursor THEN plot_char(Reversed(Content(i)))
                                  ELSE plot_char(Content(i))

(* A flush leaves the text on the screen with the cursor drawn once: none   *)
(* is left behind where the cursor was, nothing queued is missing, and a    *)
(* cursor that was hidden is gone (fb.c:937-969).                           *)
FlushShowsText == [][FlushEnd => \A i \in Cells : screen'[i] = Picture(i)]_vars

(* The terminal promises a grid of characters: a write changes its cell and  *)
(* no other, also when the cell waits to be drawn or shows that character    *)
(* already, and nothing else, a flush least of all, changes text (TextGrid;  *)
(* fb.c:708-730, 911-969).                                                   *)
Text == INSTANCE TextGrid WITH text <- [i \in Cells |-> Content(i)], wrote <- wrote
ImplementsTextGrid == Text!Spec
=============================================================================
