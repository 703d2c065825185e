--------------------------- MODULE FbQueueProofs ---------------------------
(* The deferred drawing of the terminal, for every size of the screen and    *)
(* every set of characters.                                                  *)
EXTENDS FbQueue, FiniteSetTheorems, TLAPS

(* The number of cells is a number, and a cell is never NOWHERE.             *)
LEMMA CellFacts ==
  /\ rows * cols \in Nat
  /\ Cells \subseteq Nat
  /\ NOWHERE \notin Cells
  /\ IsFiniteSet(Cells) /\ Cardinality(Cells) = rows * cols
  <1>1. rows \in Nat /\ cols \in Nat
    BY FbAssumption
  <1> DEFINE n == rows * cols
  <1>2. n \in Nat
    BY <1>1
  <1> HIDE DEF n
  <1>3. /\ IsFiniteSet(0 .. n - 1)
        /\ Cardinality(0 .. n - 1) = IF 0 > n - 1 THEN 0 ELSE (n - 1) - 0 + 1
    BY <1>2, FS_Interval, 0 \in Int, n - 1 \in Int
  <1>4. Cardinality(0 .. n - 1) = n
    BY <1>2, <1>3
  <1>5. 0 .. n - 1 \subseteq Nat /\ NOWHERE \notin 0 .. n - 1
    BY <1>2 DEF NOWHERE
  <1>6. Cells = 0 .. n - 1
    BY DEF Cells, n
  <1>7. QED
    BY <1>2, <1>3, <1>4, <1>5, <1>6 DEF n

(* Plotting and reversing a character give characters.                       *)
LEMMA CharFacts ==
  ASSUME NEW ch \in FbChar
  PROVE  plot_char(ch) \in FbChar /\ Reversed(ch) \in FbChar
  BY FbAssumption DEF FbChar, plot_char, Reversed, Resolve

(* An item of the queue is a cell and a character.                           *)
LEMMA QueueItems ==
  ASSUME TypeOK
  PROVE  \A k \in 1 .. Len(queue) :
           queue[k] \in Queued /\ queue[k].cell \in Cells /\ queue[k].c \in FbChar
  <1>1. \A k \in 1 .. Len(queue) : queue[k] \in Queued
    BY DEF TypeOK
  <1>2. QED
    BY <1>1 DEF Queued

(* A sequence whose items are of different cells has no more items than      *)
(* there are cells.                                                          *)
LEMMA DistinctFits ==
  ASSUME TypeOK, QueueOK
  PROVE  QueueFits
  <1> DEFINE f == [k \in 1 .. Len(queue) |-> queue[k].cell]
  <1>1. Len(queue) \in Nat
    BY DEF TypeOK
  <1>2. f \in [1 .. Len(queue) -> Cells]
    BY QueueItems
  <1>3. f \in Injection(1 .. Len(queue), Cells)
    BY <1>2 DEF Injection, IsInjective, QueueOK
  <1>4. Cardinality(1 .. Len(queue)) <= Cardinality(Cells)
    <2> HIDE DEF f
    <2> QED BY <1>3, CellFacts, FS_Injection
  <1>5. Cardinality(1 .. Len(queue)) = Len(queue)
    <2>1. \A n \in Nat : Cardinality(1 .. n) = IF 1 > n THEN 0 ELSE n - 1 + 1
      BY FS_Interval
    <2>2. QED
      BY <1>1, <2>1
  <1>6. QED
    BY <1>1, <1>4, <1>5, CellFacts DEF QueueFits

(* A cell's content is a character, whether it waits or is drawn.            *)
LEMMA ContentType ==
  ASSUME TypeOK, QueueOK, NEW i \in Cells
  PROVE  Content(i) \in FbChar
  BY QueueItems DEF TypeOK, QueueOK, Content

LEMMA InitIInv == Init => IInv
  <1> SUFFICES ASSUME Init PROVE IInv
    OBVIOUS
  <1>1. PICK blank \in Written :
          /\ grid = [i \in Cells |-> blank]
          /\ screen = [i \in Cells |->
                IF i = 0 THEN plot_char(Reversed(blank)) ELSE plot_char(blank)]
    BY DEF Init
  <1>2. /\ blank \in FbChar /\ plot_char(blank) \in FbChar
        /\ plot_char(Reversed(blank)) \in FbChar
    BY FbAssumption, CharFacts
  <1>3. 0 \in Cells
    <2>1. rows * cols > 0
      BY FbAssumption
    <2>2. QED
      BY <2>1, CellFacts DEF Cells
  <1>4. queue = <<>> /\ Len(queue) = 0 /\ queue \in Seq(Queued)
    BY DEF Init
  <1>5. TypeOK
    <2>1. grid \in [Cells -> FbChar] /\ screen \in [Cells -> FbChar]
      BY <1>1, <1>2
    <2>2. QED
      BY <2>1, <1>3, <1>4 DEF Init, TypeOK, NULL
  <1>6. QueueOK
    BY <1>4 DEF Init, QueueOK, NULL
  <1>7. ScreenOK
    BY <1>1 DEF Init, ScreenOK
  <1>8. QED
    BY <1>5, <1>6, <1>7 DEF IInv

(* Writing a character queues its cell once, and draws nothing.              *)
LEMMA PushKeeps ==
  ASSUME IInv, NEW i \in Cells, NEW ch \in Written, push_to_queue(i, ch)
  PROVE  IInv' /\ Content(i)' = ch
               /\ \A j \in Cells \ {i} : Content(j)' = Content(j)
  <1> DEFINE item == [cell |-> i, c |-> ch]
  <1>1. ch \in FbChar /\ item \in Queued /\ item.cell = i /\ item.c = ch
    BY FbAssumption DEF Queued
  <1>2. TypeOK /\ QueueOK /\ ScreenOK /\ at = 0 /\ Len(queue) \in Nat
    BY DEF IInv, TypeOK, push_to_queue
  <1>3. UNCHANGED <<grid, screen, cursor, old_cursor, cursor_enabled, at>>
    BY DEF push_to_queue
  <1>4. ScreenOK'
    BY <1>2, <1>3 DEF ScreenOK, Drawn
  <1>5. CASE map[i] # NULL
    <2>1. queue' = [queue EXCEPT ![map[i]] = item] /\ map' = map
      BY <1>5 DEF push_to_queue
    <2>2. map[i] \in 1 .. Len(queue) /\ queue[map[i]].cell = i
      BY <1>2, <1>5 DEF QueueOK
    <2> HIDE DEF item
    <2>3. /\ queue' \in Seq(Queued) /\ Len(queue') = Len(queue)
          /\ \A k \in 1 .. Len(queue) : queue'[k] = IF k = map[i] THEN item ELSE queue[k]
      BY <1>1, <1>2, <2>1, <2>2 DEF TypeOK
    <2>4. \A k \in 1 .. Len(queue) : queue'[k].cell = queue[k].cell
      BY <1>1, <2>2, <2>3
    <2>5. TypeOK'
      BY <1>2, <1>3, <2>1, <2>3 DEF TypeOK
    <2>6. QueueOK'
      BY <1>2, <1>3, <2>1, <2>3, <2>4 DEF QueueOK, Drawn
    <2>7. Content(i)' = ch
      BY <1>1, <1>5, <2>1, <2>2, <2>3 DEF Content
    <2>8. \A j \in Cells \ {i} : Content(j)' = Content(j)
      BY <1>2, <1>3, <2>1, <2>2, <2>3 DEF Content, QueueOK
    <2>9. QED
      BY <1>4, <2>5, <2>6, <2>7, <2>8 DEF IInv
  <1>6. CASE map[i] = NULL /\ grid[i] = ch
    <2>1. UNCHANGED <<queue, map>>
      BY <1>6 DEF push_to_queue
    <2>2. TypeOK' /\ QueueOK'
      BY <1>2, <1>3, <2>1 DEF TypeOK, QueueOK, Drawn
    <2>3. Content(i)' = ch /\ \A j \in Cells \ {i} : Content(j)' = Content(j)
      BY <1>3, <1>6, <2>1 DEF Content
    <2>4. QED
      BY <1>4, <2>2, <2>3 DEF IInv
  <1>7. CASE map[i] = NULL /\ grid[i] # ch
    <2>1. queue' = Append(queue, item) /\ map' = [map EXCEPT ![i] = Len(queue) + 1]
      BY <1>7 DEF push_to_queue
    <2> HIDE DEF item
    <2>2. /\ queue' \in Seq(Queued) /\ Len(queue') = Len(queue) + 1
          /\ queue'[Len(queue) + 1] = item
          /\ \A k \in 1 .. Len(queue) : queue'[k] = queue[k]
      BY <1>1, <1>2, <2>1 DEF TypeOK
    <2>3. /\ map' \in [Cells -> Nat] /\ map'[i] = Len(queue) + 1
          /\ \A j \in Cells \ {i} : map'[j] = map[j]
      BY <1>2, <2>1 DEF TypeOK
    <2>4. \A k \in 1 .. Len(queue) : queue[k].cell # i
      BY <1>2, <1>7 DEF QueueOK, NULL
    <2>5. TypeOK'
      BY <1>2, <1>3, <2>2, <2>3 DEF TypeOK
    <2>6. QueueOK'
      <3> DEFINE n == Len(queue)
      <3>1. \A k \in 1 .. n + 1 : k \in 1 .. n \/ k = n + 1
        BY <1>2
      <3>2. /\ queue'[n + 1].cell = i
            /\ \A k \in 1 .. n : queue'[k].cell = queue[k].cell /\ queue[k].cell \in Cells \ {i}
        BY <1>1, <1>2, <2>2, <2>4, QueueItems
      <3>3. \A j, k \in 1 .. n + 1 : queue'[j].cell = queue'[k].cell => j = k
        BY <1>2, <3>1, <3>2 DEF QueueOK
      <3>4. \A j \in Cells : map'[j] # NULL =>
              map'[j] \in 1 .. n + 1 /\ map'[j] >= at /\ queue'[map'[j]].cell = j
        BY <1>2, <2>2, <2>3, <3>2 DEF QueueOK
      <3>5. \A k \in 1 .. n + 1 : map'[queue'[k].cell] = k
        BY <1>2, <2>3, <3>1, <3>2 DEF QueueOK
      <3>6. QED
        BY <1>2, <1>3, <2>2, <3>3, <3>4, <3>5 DEF QueueOK
    <2>7. Content(i)' = ch
      BY <1>1, <1>2, <2>2, <2>3 DEF Content, NULL
    <2>8. \A j \in Cells \ {i} : Content(j)' = Content(j)
      BY <1>2, <1>3, <2>2, <2>3 DEF Content, QueueOK
    <2>9. QED
      BY <1>4, <2>5, <2>6, <2>7, <2>8 DEF IInv
  <1>8. QED
    BY <1>5, <1>6, <1>7

(* Drawing the cursor draws its cell's text and takes the cell off the map.  *)
LEMMA DrawCursorStep ==
  ASSUME IInv, draw_cursor
  PROVE  IInv' /\ \A j \in Cells : Content(j)' = Content(j)
  <1>1. TypeOK /\ QueueOK /\ ScreenOK /\ at = 0 /\ at' = 1 /\ Len(queue) \in Nat
    BY DEF IInv, TypeOK, draw_cursor
  <1>2. UNCHANGED <<queue, cursor, old_cursor, cursor_enabled>>
    BY DEF draw_cursor
  <1>3. CASE cursor_enabled /\ cursor # NOWHERE
    <2>1. /\ screen' = [screen EXCEPT ![cursor] = plot_char(Reversed(Content(cursor)))]
          /\ grid' = [grid EXCEPT ![cursor] = Content(cursor)]
          /\ map' = [map EXCEPT ![cursor] = NULL]
      BY <1>3 DEF draw_cursor
    <2>2. cursor \in Cells /\ Content(cursor) \in FbChar
      BY <1>1, <1>3, ContentType DEF TypeOK
    <2>3. plot_char(Reversed(Content(cursor))) \in FbChar
      BY <2>2, CharFacts
    <2>4. TypeOK'
      BY <1>1, <1>2, <2>1, <2>2, <2>3 DEF TypeOK, NULL
    <2>5. /\ map'[cursor] = NULL /\ \A j \in Cells \ {cursor} : map'[j] = map[j]
          /\ grid'[cursor] = Content(cursor) /\ \A j \in Cells \ {cursor} : grid'[j] = grid[j]
      BY <1>1, <2>1, <2>2 DEF TypeOK
    <2>6. QueueOK'
      <3>1. \A k \in 1 .. Len(queue) : queue[k].cell \in Cells
        BY <1>1, QueueItems
      <3>2. \A k \in 1 .. Len(queue) : k >= at' => map'[queue[k].cell] = k \/ Drawn(queue[k].cell)
        BY <1>1, <1>3, <2>5, <3>1 DEF QueueOK, Drawn
      <3>3. \A j \in Cells : map'[j] # NULL =>
              map'[j] \in 1 .. Len(queue) /\ map'[j] >= at' /\ queue[map'[j]].cell = j
        BY <1>1, <2>5 DEF QueueOK
      <3>4. \A j \in Cells : Drawn(j)' => map'[j] = NULL
        BY <1>2, <2>5 DEF Drawn
      <3>5. \A j, k \in 1 .. Len(queue) : queue[j].cell = queue[k].cell => j = k
        BY <1>1 DEF QueueOK
      <3>6. \A j \in Cells : Drawn(j)' = Drawn(j)
        BY <1>2 DEF Drawn
      <3>7. QED
        BY ONLY <1>1, <1>2, <3>1, <3>2, <3>3, <3>4, <3>5, <3>6 DEF QueueOK
    <2>7. ScreenOK'
      BY <1>1, <1>2, <1>3, <2>1, <2>2, <2>5 DEF ScreenOK, Drawn, TypeOK
    <2>8. \A j \in Cells : Content(j)' = Content(j)
      BY <1>2, <2>5 DEF Content
    <2>9. QED
      BY <2>4, <2>6, <2>7, <2>8 DEF IInv
  <1>4. CASE ~ (cursor_enabled /\ cursor # NOWHERE)
    <2>1. UNCHANGED <<grid, map, screen>>
      BY <1>4 DEF draw_cursor
    <2>2. \A j \in Cells : ~ Drawn(j)
      BY <1>4, CellFacts DEF Drawn
    <2>3. TypeOK'
      BY <1>1, <1>2, <2>1 DEF TypeOK
    <2>4. QueueOK'
      BY <1>1, <1>2, <2>1, <2>2 DEF QueueOK, Drawn
    <2>5. ScreenOK'
      BY <1>1, <1>2, <2>1, <2>2 DEF ScreenOK, Drawn
    <2>6. \A j \in Cells : Content(j)' = Content(j)
      BY <1>2, <2>1 DEF Content
    <2>7. QED
      BY <2>3, <2>4, <2>5, <2>6 DEF IInv
  <1>5. QED
    BY <1>3, <1>4

(* Drawing an item draws its cell's text, unless the cursor was drawn there. *)
LEMMA FlushItemKeeps ==
  ASSUME IInv, FlushItem
  PROVE  IInv' /\ \A j \in Cells : Content(j)' = Content(j)
  <1> DEFINE i == queue[at].cell
  <1>1. /\ TypeOK /\ QueueOK /\ ScreenOK
        /\ at \in 1 .. Len(queue) /\ at' = at + 1 /\ Len(queue) \in Nat
    BY DEF IInv, TypeOK, FlushItem
  <1>2. UNCHANGED <<queue, cursor, old_cursor, cursor_enabled>>
    BY DEF FlushItem
  <1>3. i \in Cells /\ queue[at].c \in FbChar /\ plot_char(queue[at].c) \in FbChar
    BY <1>1, QueueItems, CharFacts
  <1>4. CASE map[i] = NULL
    <2>1. UNCHANGED <<grid, map, screen>>
      BY <1>4 DEF FlushItem
    <2>2. TypeOK'
      BY <1>1, <1>2, <2>1 DEF TypeOK
    <2>3. \A j \in Cells : map[j] # NULL => map[j] >= at + 1
      BY <1>1, <1>3, <1>4 DEF QueueOK, TypeOK
    <2>4. QueueOK'
      BY <1>1, <1>2, <2>1, <2>3 DEF QueueOK, Drawn
    <2>5. ScreenOK'
      BY <1>1, <1>2, <2>1 DEF ScreenOK, Drawn
    <2>6. \A j \in Cells : Content(j)' = Content(j)
      BY <1>2, <2>1 DEF Content
    <2>7. QED
      BY <2>2, <2>4, <2>5, <2>6 DEF IInv
  <1>5. CASE map[i] # NULL
    <2>1. /\ screen' = [screen EXCEPT ![i] = plot_char(queue[at].c)]
          /\ grid' = [grid EXCEPT ![i] = queue[at].c]
          /\ map' = [map EXCEPT ![i] = NULL]
      BY <1>5 DEF FlushItem
    <2>2. ~ Drawn(i) /\ map[i] = at
      BY <1>1, <1>3, <1>5 DEF QueueOK
    <2> HIDE DEF i
    <2>3. /\ map'[i] = NULL /\ \A j \in Cells \ {i} : map'[j] = map[j]
          /\ grid'[i] = queue[at].c /\ \A j \in Cells \ {i} : grid'[j] = grid[j]
          /\ screen'[i] = plot_char(queue[at].c)
          /\ \A j \in Cells \ {i} : screen'[j] = screen[j]
      BY <1>1, <1>3, <2>1 DEF TypeOK
    <2>4. TypeOK'
      BY <1>1, <1>2, <1>3, <2>1 DEF TypeOK, NULL
    <2>5. QueueOK'
      <3>1. \A k \in 1 .. Len(queue) : queue[k].cell \in Cells
        BY <1>1, QueueItems
      <3>2. \A k \in 1 .. Len(queue) : k >= at + 1 => queue[k].cell # i
        BY <1>1, <2>2 DEF QueueOK, i
      <3>3. \A k \in 1 .. Len(queue) : k >= at + 1 => map'[queue[k].cell] = k \/ Drawn(queue[k].cell)
        <4> SUFFICES ASSUME NEW k \in 1 .. Len(queue), k >= at + 1
                     PROVE  map'[queue[k].cell] = k \/ Drawn(queue[k].cell)
          OBVIOUS
        <4>1. map[queue[k].cell] = k \/ Drawn(queue[k].cell) BY <1>1 DEF QueueOK
        <4>2. map'[queue[k].cell] = map[queue[k].cell] BY <2>3, <3>1, <3>2
        <4> QED BY ONLY <4>1, <4>2
      <3>4. \A j \in Cells : map'[j] # NULL =>
              map'[j] \in 1 .. Len(queue) /\ map'[j] >= at + 1 /\ queue[map'[j]].cell = j
        <4> SUFFICES ASSUME NEW j \in Cells, map'[j] # NULL
                     PROVE  map'[j] \in 1 .. Len(queue) /\ map'[j] >= at + 1 /\ queue[map'[j]].cell = j
          OBVIOUS
        <4>1. j # i /\ map'[j] = map[j] /\ map[j] # at
          BY <1>1, <2>3 DEF QueueOK, i
        <4>2. QED
          BY <1>1, <4>1 DEF QueueOK
      <3>5. QED
        BY <1>1, <1>2, <2>3, <3>3, <3>4 DEF QueueOK, Drawn
    <2>6. ScreenOK'
      BY <1>1, <1>2, <1>3, <2>2, <2>3 DEF ScreenOK, Drawn
    <2>7. \A j \in Cells : Content(j)' = Content(j)
      BY <1>2, <1>5, <2>2, <2>3 DEF Content
    <2>8. QED
      BY <2>4, <2>5, <2>6, <2>7 DEF IInv
  <1>6. QED
    BY <1>4, <1>5

(* The end of a flush leaves the picture of the text on the screen.          *)
LEMMA FlushEndKeeps ==
  ASSUME IInv, FlushEnd
  PROVE  /\ IInv' /\ \A j \in Cells : Content(j)' = Content(j)
         /\ \A j \in Cells : screen'[j] = Picture(j)
  <1>1. /\ TypeOK /\ QueueOK /\ ScreenOK
        /\ at = Len(queue) + 1 /\ at > 0 /\ at' = 0 /\ Len(queue) \in Nat
    BY DEF IInv, TypeOK, FlushEnd
  <1>2. UNCHANGED <<grid, map, cursor, cursor_enabled>> /\ old_cursor' = cursor
    BY DEF FlushEnd
  <1>3. queue' = <<>> /\ Len(queue') = 0 /\ queue' \in Seq(Queued)
    BY DEF FlushEnd
  <1>4. \A j \in Cells : map[j] = NULL
    BY <1>1 DEF QueueOK
  <1>5. \A j \in Cells : Content(j) = grid[j] /\ Content(j)' = grid[j]
    BY <1>2, <1>4 DEF Content
  <1>6. \A j \in Cells : screen'[j] = Picture(j)
    <2>1. CASE (old_cursor # cursor \/ ~ cursor_enabled) /\ old_cursor # NOWHERE
      <3>1. old_cursor \in Cells /\ ~ Drawn(old_cursor)
        BY <1>1, <2>1 DEF TypeOK, Drawn
      <3>2. /\ screen'[old_cursor] = plot_char(grid[old_cursor])
            /\ \A j \in Cells \ {old_cursor} : screen'[j] = screen[j]
        BY <1>1, <2>1, <3>1 DEF FlushEnd, TypeOK
      <3>3. QED
        BY <1>1, <1>5, <3>1, <3>2 DEF ScreenOK, Picture, Drawn
    <2>2. CASE ~ ((old_cursor # cursor \/ ~ cursor_enabled) /\ old_cursor # NOWHERE)
      <3>1. screen' = screen
        BY <2>2 DEF FlushEnd
      <3>2. \A j \in Cells : j = old_cursor => Drawn(j)
        BY <2>2, CellFacts DEF Drawn
      <3>3. QED
        BY <1>1, <1>5, <3>1, <3>2 DEF ScreenOK, Picture, Drawn
    <2>3. QED
      BY <2>1, <2>2
  <1>7. TypeOK'
    <2>1. \A j \in Cells : grid[j] \in FbChar
      BY <1>1 DEF TypeOK
    <2>2. \A j \in Cells : plot_char(grid[j]) \in FbChar
      BY <2>1, CharFacts
    <2>3. screen' \in [Cells -> FbChar]
      BY <1>1, <2>2 DEF FlushEnd, TypeOK
    <2>4. QED
      BY <1>1, <1>2, <1>3, <2>3 DEF TypeOK
  <1>8. QueueOK'
    BY <1>1, <1>2, <1>3, <1>4 DEF QueueOK
  <1>9. ScreenOK'
    BY <1>1, <1>2, <1>5, <1>6 DEF ScreenOK, Picture, Drawn
  <1>10. QED
    BY <1>5, <1>6, <1>7, <1>8, <1>9 DEF IInv

(* Moving, showing or hiding the cursor draws nothing and changes no text.   *)
LEMMA CursorKeeps ==
  ASSUME IInv,
         \/ \E p \in Cells \cup {NOWHERE} : set_cursor(p)
         \/ \E on \in BOOLEAN : show_cursor(on)
  PROVE  IInv' /\ \A j \in Cells : Content(j)' = Content(j)
  <1>1. at = 0 /\ UNCHANGED <<grid, queue, map, screen, old_cursor, at>>
    BY DEF set_cursor, show_cursor
  <1>2. cursor' \in Cells \cup {NOWHERE} /\ cursor_enabled' \in BOOLEAN
    BY DEF set_cursor, show_cursor, IInv, TypeOK
  <1>3. TypeOK'
    BY <1>1, <1>2 DEF IInv, TypeOK
  <1>4. QueueOK' /\ ScreenOK'
    BY <1>1 DEF IInv, QueueOK, ScreenOK, Drawn
  <1>5. QED
    BY <1>1, <1>3, <1>4 DEF IInv, Content

(* A step changes the text as the write it is, or not at all.                *)
LEMMA StepIInv ==
  ASSUME IInv, [Next]_vars
  PROVE  /\ IInv'
         /\ \/ \E i \in Cells, ch \in Written :
                 /\ Content(i)' = ch /\ \A j \in Cells \ {i} : Content(j)' = Content(j)
                 /\ wrote' = <<i, ch>>
            \/ (\A j \in Cells : Content(j)' = Content(j)) /\ wrote' = wrote
  <1>1. ASSUME NEW i \in Cells, NEW ch \in Written, push_to_queue(i, ch)
        PROVE  /\ IInv' /\ Content(i)' = ch
               /\ \A j \in Cells \ {i} : Content(j)' = Content(j)
               /\ wrote' = <<i, ch>>
    <2>1. wrote' = <<i, ch>>
      BY <1>1 DEF push_to_queue
    <2>2. QED
      BY <1>1, <2>1, PushKeeps
  <1>2. CASE UNCHANGED vars
    BY <1>2 DEF vars, IInv, TypeOK, QueueOK, ScreenOK, Drawn, Content
  <1>3. ASSUME \/ \E p \in Cells \cup {NOWHERE} : set_cursor(p)
               \/ \E on \in BOOLEAN : show_cursor(on)
               \/ draw_cursor \/ FlushItem \/ FlushEnd
        PROVE  wrote' = wrote
    BY <1>3 DEF set_cursor, show_cursor, draw_cursor, FlushItem, FlushEnd
  <1>4. QED
    BY <1>1, <1>2, <1>3, CursorKeeps, DrawCursorStep, FlushItemKeeps, FlushEndKeeps DEF Next

(* The queue of the terminal never outgrows its memory (push_to_queue,       *)
(* fb.c:708-730), whatever is written between whichever flushes.             *)
THEOREM FbQueueFits == Spec => []QueueFits
  <1>1. IInv => QueueFits
    BY DistinctFits DEF IInv
  <1>2. IInv /\ [Next]_vars => IInv'
    BY StepIInv
  <1>3. QED
    BY InitIInv, <1>1, <1>2, PTL DEF Spec

(* A flush leaves the text and one cursor on the screen (double_buffer_flush,*)
(* fb.c:937-969).                                                            *)
THEOREM FbFlushShowsText == Spec => FlushShowsText
  <1>1. IInv /\ [Next]_vars => IInv'
    BY StepIInv
  <1>2. IInv /\ [Next]_vars => [FlushEnd => \A i \in Cells : screen'[i] = Picture(i)]_vars
    BY FlushEndKeeps
  <1>3. QED
    BY InitIInv, <1>1, <1>2, PTL DEF Spec, FlushShowsText

(* The terminal's deferred drawing implements a grid of characters           *)
(* (push_to_queue and double_buffer_flush against TextGrid).                 *)
THEOREM FbImplementsTextGrid == Spec => ImplementsTextGrid
  <1> DEFINE text == [i \in Cells |-> Content(i)]
  <1>1. Init => Text!Init
    BY DEF Init, Text!Init, Content, NULL
  <1>2. IInv /\ [Next]_vars => IInv' /\ [Text!Next]_<<text, wrote>>
    <2> SUFFICES ASSUME IInv, [Next]_vars
                 PROVE  IInv' /\ (Text!Next \/ <<text, wrote>>' = <<text, wrote>>)
      OBVIOUS
    <2>1. ASSUME NEW i \in Cells, NEW ch \in Written, Content(i)' = ch,
                 \A j \in Cells \ {i} : Content(j)' = Content(j),
                 wrote' = <<i, ch>>
          PROVE  Text!Next
      <3>1. text' = [text EXCEPT ![i] = ch]
        BY ZenonT(60), <2>1
      <3>2. QED
        BY ZenonT(60), <2>1, <3>1 DEF Text!Next, Text!Write
    <2>2. ASSUME \A j \in Cells : Content(j)' = Content(j)
          PROVE  text' = text
      BY <2>2
    <2>3. QED
      BY <2>1, <2>2, StepIInv
  <1>3. QED
    BY InitIInv, <1>1, <1>2, PTL DEF Spec, ImplementsTextGrid, Text!Spec
-----------------------------------------------------------------------------
(* The layout of the screen and the memory it takes, for every size of the    *)
(* framebuffer.                                                               *)
Fb == INSTANCE FbLayout

LEMMA ScaleFacts ==
  ASSUME NEW width \in Nat, NEW height \in Nat
  PROVE  Fb!AutoScale(width, height) \in {1, 2, 4}
  BY DEF Fb!AutoScale

LEMMA ColsFit ==
  ASSUME NEW w \in Nat, w <= 1920, NEW s \in Nat, s = 1 \/ s = 2 \/ s = 4
  PROVE  (w - 0) \div (9 * s) \in Nat /\ (w - 0) \div (9 * s) <= 213
<1>1. CASE s = 1 BY <1>1
<1>2. CASE s = 2 BY <1>2
<1>3. CASE s = 4 BY <1>3
<1> QED BY <1>1, <1>2, <1>3

LEMMA RowsFit ==
  ASSUME NEW h \in Nat, h <= 1200, NEW s \in Nat, s = 1 \/ s = 2 \/ s = 4
  PROVE  (h - 0) \div (16 * s) \in Nat /\ (h - 0) \div (16 * s) <= 75
<1>1. CASE s = 1 BY <1>1
<1>2. CASE s = 2 BY <1>2
<1>3. CASE s = 4 BY <1>3
<1> QED BY <1>1, <1>2, <1>3

LEMMA ProductFits ==
  \A c, r \in Nat : c <= 213 /\ r <= 75 => c * r \in Nat /\ c * r <= 15975
<1> SUFFICES ASSUME NEW c \in Nat, NEW r \in Nat, c <= 213, r <= 75
             PROVE  c * r \in Nat /\ c * r <= 15975
  OBVIOUS
<1>1. c * r <= 213 * r BY SMT
<1> QED BY <1>1

(* The size of the terminal on a picture that is not turned and has no margin. *)
LEMMA UprightLayout ==
  ASSUME NEW f, NEW limit, f.rotation = 0, f.margin = 0
  PROVE  /\ Fb!Layout(f, limit).cols
              = (Fb!Limited(f.width, limit.width) - 0) \div (f.font_width * f.scale)
         /\ Fb!Layout(f, limit).rows
              = (Fb!Limited(f.height, limit.height) - 0) \div (f.font_height * f.scale)
<1>1. f.margin * 2 = 0 OBVIOUS
<1>2. f.rotation \notin {90, 270} OBVIOUS
<1> QED BY <1>1, <1>2, Zenon DEF Fb!Layout

LEMMA KernelSize ==
  ASSUME NEW width \in Nat, NEW height \in Nat
  PROVE  /\ Fb!KernelLayout(width, height).cols
              = (Fb!Limited(width, Fb!WIDTH_LIMIT) - 0) \div (9 * Fb!AutoScale(width, height))
         /\ Fb!KernelLayout(width, height).rows
              = (Fb!Limited(height, Fb!HEIGHT_LIMIT) - 0) \div (16 * Fb!AutoScale(width, height))
<1> DEFINE f == [width |-> width, height |-> height, pitch |-> width, rotation |-> 0,
                 margin |-> 0, scale |-> Fb!AutoScale(width, height),
                 font_width |-> 9, font_height |-> 16]
           limit == [width |-> Fb!WIDTH_LIMIT, height |-> Fb!HEIGHT_LIMIT]
<1>1. Fb!KernelLayout(width, height) = Fb!Layout(f, limit) BY Zenon DEF Fb!KernelLayout
<1>2. f.rotation = 0 /\ f.margin = 0 BY Zenon
<1>3. f.width = width /\ f.height = height /\ f.scale = Fb!AutoScale(width, height) BY Zenon
<1>4. f.font_width = 9 /\ f.font_height = 16 BY Zenon
<1>5. limit.width = Fb!WIDTH_LIMIT /\ limit.height = Fb!HEIGHT_LIMIT BY Zenon
<1> HIDE DEF f, limit
<1>6. /\ Fb!Layout(f, limit).cols
           = (Fb!Limited(f.width, limit.width) - 0) \div (f.font_width * f.scale)
      /\ Fb!Layout(f, limit).rows
           = (Fb!Limited(f.height, limit.height) - 0) \div (f.font_height * f.scale)
  BY ONLY <1>2, UprightLayout, Zenon
<1> QED BY ONLY <1>1, <1>3, <1>4, <1>5, <1>6, Zenon

(* The largest terminal has 213 by 75 cells.                                   *)
LEMMA CellsFit ==
  ASSUME NEW width \in Nat, NEW height \in Nat
  PROVE  Fb!CellsOf(width, height) \in Nat /\ Fb!CellsOf(width, height) <= 15975
<1> DEFINE s == Fb!AutoScale(width, height)
           w == Fb!Limited(width, Fb!WIDTH_LIMIT)
           h == Fb!Limited(height, Fb!HEIGHT_LIMIT)
           c == Fb!KernelLayout(width, height).cols
           r == Fb!KernelLayout(width, height).rows
<1>1. s \in Nat /\ (s = 1 \/ s = 2 \/ s = 4) BY ScaleFacts
<1>2. w \in Nat /\ w <= 1920 BY DEF Fb!Limited, Fb!WIDTH_LIMIT
<1>3. h \in Nat /\ h <= 1200 BY DEF Fb!Limited, Fb!HEIGHT_LIMIT
<1>4. c = (w - 0) \div (9 * s) /\ r = (h - 0) \div (16 * s) BY KernelSize, Zenon
<1>5. Fb!CellsOf(width, height) = c * r BY Zenon DEF Fb!CellsOf
<1> HIDE DEF s, w, h, c, r
<1>6. (w - 0) \div (9 * s) \in Nat /\ (w - 0) \div (9 * s) <= 213 BY ONLY <1>1, <1>2, ColsFit
<1>7. (h - 0) \div (16 * s) \in Nat /\ (h - 0) \div (16 * s) <= 75 BY ONLY <1>1, <1>3, RowsFit
<1>8. c \in Nat /\ c <= 213 BY ONLY <1>4, <1>6, Zenon
<1>9. r \in Nat /\ r <= 75 BY ONLY <1>4, <1>7, Zenon
<1>10. c * r \in Nat /\ c * r <= 15975 BY ONLY <1>8, <1>9, ProductFits
<1> QED BY ONLY <1>5, <1>10

LEMMA RoundedFacts ==
  ASSUME NEW s \in Nat
  PROVE  Fb!Rounded(s) \in Nat /\ Fb!Rounded(s) <= s + 15
  BY DEF Fb!Rounded

LEMMA BumpStep ==
  ASSUME NEW ptr \in Nat, NEW s \in Nat, ptr + s + 15 <= Fb!POOL_SIZE
  PROVE  /\ Fb!bump_alloc(ptr, s) \in Nat
         /\ Fb!bump_alloc(ptr, s) <= ptr + s + 15
  BY RoundedFacts DEF Fb!bump_alloc, Fb!NoMemory, Fb!POOL_SIZE

(* For every size of the framebuffer the terminal's tables fit the pool, so    *)
(* flanterm_fb_init never fails for want of memory: the limits on the width    *)
(* and the height are small enough for the size of the pool (fb.c:58-93,       *)
(* 1110-1120, 1239-1280).                                                      *)
THEOREM FbPoolSuffices ==
  \A width, height \in Nat : Fb!PoolSuffices(width, height)
<1> SUFFICES ASSUME NEW width \in Nat, NEW height \in Nat, NEW misaligned \in 0 .. 15
             PROVE  Fb!fb_alloc(IF misaligned = 0 THEN 0 ELSE 16 - misaligned,
                             Fb!CellsOf(width, height)) # Fb!NoMemory
  BY DEF Fb!PoolSuffices
<1> DEFINE n == Fb!CellsOf(width, height)
           p0 == IF misaligned = 0 THEN 0 ELSE 16 - misaligned
           p1 == Fb!bump_alloc(p0, 816)
           p2 == Fb!bump_alloc(p1, (8 * 16 * 256) \div 8)
           p3 == Fb!bump_alloc(p2, 256 * 16 * 9)
           p4 == Fb!bump_alloc(p3, n * 12)
           p5 == Fb!bump_alloc(p4, n * 32)
           p6 == Fb!bump_alloc(p5, n * 8)
<1>0. n \in Nat /\ n <= 15975 BY CellsFit
<1>p. p0 \in Nat /\ p0 <= 15 OBVIOUS
<1>q. Fb!fb_alloc(p0, n) = p6 BY DEF Fb!fb_alloc
<1>c. (8 * 16 * 256) \div 8 = 4096 /\ 256 * 16 * 9 = 36864 OBVIOUS
<1> HIDE DEF n, p0
<1>1. p1 \in Nat /\ p1 <= 846 BY <1>p, BumpStep DEF Fb!POOL_SIZE
<1> HIDE DEF p1
<1>2. p2 \in Nat /\ p2 <= 4957 BY <1>1, <1>c, BumpStep DEF Fb!POOL_SIZE
<1> HIDE DEF p2
<1>3. p3 \in Nat /\ p3 <= 41836 BY <1>2, <1>c, BumpStep DEF Fb!POOL_SIZE
<1> HIDE DEF p3
<1>4. p4 \in Nat /\ p4 <= 41851 + n * 12 BY <1>0, <1>3, BumpStep DEF Fb!POOL_SIZE
<1> HIDE DEF p4
<1>5. p5 \in Nat /\ p5 <= 41866 + n * 44
  <2>1. n * 32 \in Nat /\ p4 + n * 32 + 15 <= Fb!POOL_SIZE BY <1>0, <1>4 DEF Fb!POOL_SIZE
  <2>2. p5 \in Nat /\ p5 <= p4 + n * 32 + 15 BY <1>4, <2>1, BumpStep
  <2> QED BY <1>0, <1>4, <2>2
<1> HIDE DEF p5
<1>6. p6 \in Nat /\ p6 <= 41881 + n * 52
  <2>1. n * 8 \in Nat /\ p5 + n * 8 + 15 <= Fb!POOL_SIZE BY <1>0, <1>5 DEF Fb!POOL_SIZE
  <2>2. p6 \in Nat /\ p6 <= p5 + n * 8 + 15 BY <1>5, <2>1, BumpStep
  <2> QED BY <1>0, <1>5, <2>2
<1> HIDE DEF p6
<1>7. p6 # Fb!NoMemory BY <1>0, <1>6 DEF Fb!NoMemory, Fb!POOL_SIZE
<1> QED BY <1>7, <1>q DEF n, p0
=============================================================================
