----------------------------- MODULE MCConsole -----------------------------
(* The console, for TLC: the framebuffer's queue (one row of three cells, a  *)
(* blank on the transparent background and a dark letter on light), the      *)
(* escape sequences of the terminal, and the shell's line.  Only one of      *)
(* them, `which`, takes steps; the others stay as they are.                  *)
EXTENDS FbQueue, Shell, TermBytes

CONSTANT Alphabets

VARIABLES
  which,
  ctx, program, last

MCWritten == {[c |-> "blank", fg |-> "white", bg |-> TRANSPARENT],
              [c |-> "A", fg |-> "black", bg |-> "white"]}

-----------------------------------------------------------------------------
Term == INSTANCE Flanterm
  WITH rows <- 3, cols <- 4, MAX_ESC_VALUES <- 5, Width <- 8

Keys(ks) == {<<Byte(k)>> : k \in ks}
Esc(c) == <<Byte("esc"), c>>
With(ks, lists) == {Csi(l, k) : k \in ks, l \in lists}
Region == With({"r"}, {<<>>, <<2, 3>>, <<1, 2>>, <<3, 3>>, <<0, 255>>})
Saving == {Esc(Digit(7)), Esc(Digit(8))}

(* Most programs write whole sequences; three write single bytes, and so      *)
(* broken sequences too.                                                      *)
MCAlphabets ==
  << \* moves and the scroll region
     Region \cup With({"A", "B", "E", "F", "e"}, {<<>>, <<2>>, <<255>>})
       \cup With({"d"}, {<<0>>, <<3>>}) \cup Keys({"x", "nl"})
       \cup {Esc(Byte("D")), Esc(Byte("M")), Esc(Byte("E"))} \cup Saving,
     \* columns, erasing and saving
     With({"r"}, {<<>>, <<2, 3>>, <<0, 255>>})
       \cup With({"C", "D", "G", "H"}, {<<0>>, <<2>>, <<255>>}) \cup With({"P", "X", "@"}, {<<0>>, <<255>>})
       \cup With({"J", "K"}, {<<>>, <<1>>, <<2>>}) \cup With({"s", "u", "M", "L", "n"}, {<<>>})
       \cup Keys({"x", "bs", "cr", "tab"}) \cup Saving,
     \* colours: bold, then reverse video, then all of them
     With({"m"}, {<<>>, <<1>>, <<22>>, <<5>>, <<25>>, <<31>>, <<39>>, <<41>>, <<49>>}) \cup Saving,
     With({"m"}, {<<0>>, <<7>>, <<27>>, <<31>>, <<39>>, <<41>>, <<49>>}) \cup Saving,
     With({"m"}, {<<1>>, <<5>>, <<7>>, <<91>>, <<101>>, <<38, 5, 5>>, <<48, 5, 9>>, <<38, 5, 99>>,
                  <<48, 2, 1, 2, 3>>, <<38, 2, 1>>, <<48>>, <<38, 9, 0>>}) \cup {Esc(Byte("c"))},
     \* bytes: values, modes, text
     Keys({"esc", "[", ";", "m", "can", "x"}) \cup {Decimal(1)},
     Keys({"esc", "[", "?", "h", "l", "nl", "can", "x", "c", "q"})
       \cup {Decimal(4), Decimal(25)},
     Keys({"esc", "]", "bel", "backslash", "(", ")", "[", "D", "M", "bs", "cr", "tab", "so"})
       \cup {<<Lead(1)>>, <<Lead(2)>>, <<Lead(3)>>, <<Cont(0)>>, <<Cont(2)>>} >>

-----------------------------------------------------------------------------
(* Words of one and two letters stand for the shell's commands.              *)
MCCommands == (<<"e">> :> "ECHO") @@ (<<"x">> :> "HELP") @@ (<<"e", "x">> :> "PANIC")

ASSUME ConsoleAssumption == ShellConstants

-----------------------------------------------------------------------------
termVars == <<ctx, program, last>>
allVars == <<which, vars, termVars, shell_vars>>

MCInit ==
  /\ which \in {"framebuffer", "terminal", "shell"}
  /\ Init /\ ShellInit
  /\ IF which = "terminal" THEN Term!Init ELSE ctx = "none" /\ program = 1 /\ last = "none"
  /\ which # "framebuffer" => grid[0].c = "blank"
  /\ which # "shell" => \A k \in DOMAIN buffer : buffer[k] = "NUL"

FramebufferDoes(A) == which = "framebuffer" /\ A /\ UNCHANGED <<which, termVars, shell_vars>>
TerminalDoes(A) == which = "terminal" /\ A /\ UNCHANGED <<which, vars, shell_vars>>
ShellDoes(A) == which = "shell" /\ A /\ UNCHANGED <<which, vars, termVars>>

(* panic stops the machine.                                                  *)
Halted == which = "shell" /\ halted /\ UNCHANGED allVars

MCNext ==
  \/ FramebufferDoes(Next)
  \/ TerminalDoes(Term!Next)
  \/ ShellDoes(ShellNext)
  \/ Halted

MCSpec == MCInit /\ [][MCNext]_allVars

-----------------------------------------------------------------------------
(* The values of a sequence stay inside esc_values[], whatever digits and    *)
(* bytes that end or break off a sequence come in which order                *)
(* (flanterm.c:514-536); the cursor is on the screen or behind a line's end, *)
(* as long as scrolling is on, the scroll region reaches the last row and no *)
(* other cursor was saved, and the region keeps two rows (flanterm.c:782-804, *)
(* fb.c:802-821, 971-991).                                                   *)
TerminalStateFits == which = "terminal" => Term!EscValuesFit /\ Term!CursorOnScreen

(* A relative move that starts inside the scroll region ends inside it       *)
(* (flanterm.c:574-612).                                                     *)
MovesStayInRegion == Term!MovesStayInRegion

(* The colours of a program's text are those its attributes say, however     *)
(* often they are set, reset, reversed, saved and restored: no order of      *)
(* attributes leaves a colour behind.  This is for programs that use the     *)
(* eight colours, bold or reverse video: with bold text in reverse video,    *)
(* with bright, 256 or RGB colours and after ESC c the code picks others     *)
(* (flanterm.c:130-397, 824-844).                                            *)
ColoursFollowAttributes == which = "terminal" => Term!ColoursFollowAttributes
=============================================================================
