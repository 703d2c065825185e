------------------------------- MODULE Shell -------------------------------
(* The shell, src/kernel/shell/shell.c: shell_main edits a line in a buffer *)
(* with the characters getc returns, and execute takes it apart in place.   *)
(* The buffer is not cleared between lines.                                 *)
EXTENDS Integers, Sequences, FiniteSetsExt

CONSTANTS
  BufferSize,    \* the size of buffer[]
  Printable,     \* the characters from 32 to 126, SPACE among them
  SPACE, NUL,
  ENTER, BACKSPACE, TAB,  \* the other characters that getc returns
  Commands       \* the command words and what they stand for, [words -> names]

(* What the constants must be for this to model the code.                   *)
ShellConstants ==
  /\ BufferSize \in Nat \ {0}
  /\ SPACE \in Printable
  /\ Printable \cap {NUL, ENTER, BACKSPACE, TAB} = {}
  /\ DOMAIN Commands \subseteq Seq(Printable \ {SPACE})

VARIABLES
  buffer, pos,   \* the variables of shell_main
  shown,        \* the characters after the prompt, as the terminal shows them
  ran,           \* what the last line made execute do
  halted         \* panic was called

shell_vars == <<buffer, pos, shown, ran, halted>>

Index == 0 .. BufferSize - 1

(* buffer[] is not initialized: its bytes may be anything at all.          *)
ShellInit ==
  /\ buffer \in [Index -> Printable \cup {NUL}]
  /\ pos = 0
  /\ shown = <<>>
  /\ ran = [command |-> "NONE", args |-> <<>>]
  /\ halted = FALSE

-----------------------------------------------------------------------------
(* A pointer is an index, a string what lies from it to the next NUL.      *)

SkipSpaces(b, i) == Min({j \in Index : j >= i /\ b[j] # SPACE})

WordEnd(b, i) == Min({j \in Index : j >= i /\ b[j] \in {SPACE, NUL}})

StringEnd(b, i) == Min({j \in Index : j >= i /\ b[j] = NUL})

String(b, i) == [n \in 1 .. StringEnd(b, i) - i |-> b[i + n - 1]]

get_command(word) ==
  IF word \in DOMAIN Commands THEN Commands[word] ELSE "UNKNOWN"

(* What a command does with its arguments; the others do not look at them.  *)
Does(command, word, args) ==
  [command |-> command,
   args |-> CASE command \in {"ECHO", "BIRDSAY"} -> args
              [] command = "UNKNOWN" -> word
              [] OTHER -> <<>>]

(* A blank line does nothing.                                              *)
execute(b) ==
  LET word == SkipSpaces(b, 0)
      end == WordEnd(b, word)
      cut == [b EXCEPT ![end] = NUL]
      args == IF b[end] = NUL THEN end ELSE SkipSpaces(b, end + 1)
      command == get_command(String(cut, word))
  IN  IF b[word] = NUL
        THEN buffer' = b /\ ran' = [command |-> "NONE", args |-> <<>>] /\ UNCHANGED halted
        ELSE /\ buffer' = cut
             /\ ran' = Does(command, String(cut, word), String(cut, args))
             /\ halted' = (command = "PANIC")

-----------------------------------------------------------------------------
(* shell_main, once for each character that getc returns.                  *)

EnterUnterminated ==
  /\ execute([buffer EXCEPT ![BufferSize - 1] = NUL])
  /\ pos' = 0 /\ shown' = <<>>

Enter ==
  /\ execute([buffer EXCEPT ![pos] = NUL])
  /\ pos' = 0 /\ shown' = <<>>

EraseEverywhere ==
  /\ pos' = IF pos > 0 THEN pos - 1 ELSE 0
  /\ shown' = IF pos > 1 THEN SubSeq(shown, 1, Len(shown) - 1) ELSE shown
  /\ UNCHANGED <<buffer, ran, halted>>

Erase ==
  /\ IF pos > 0
       THEN pos' = pos - 1 /\ shown' = SubSeq(shown, 1, Len(shown) - 1)
       ELSE UNCHANGED <<pos, shown>>
  /\ UNCHANGED <<buffer, ran, halted>>

FitsToTheEnd == pos < BufferSize

Fits == pos < BufferSize - 1

Accept(c) ==
  /\ IF Fits
       THEN /\ buffer' = [buffer EXCEPT ![pos] = c]
            /\ pos' = pos + 1
            /\ shown' = Append(shown, c)
       ELSE UNCHANGED <<buffer, pos, shown>>
  /\ UNCHANGED <<ran, halted>>

Ignore == UNCHANGED shell_vars

shell_main(c) ==
  \/ c = ENTER /\ Enter
  \/ c = BACKSPACE /\ Erase
  \/ c \in Printable /\ Accept(c)
  \/ c = TAB /\ Ignore

ShellNext ==
  /\ ~ halted
  /\ \E c \in Printable \cup {ENTER, BACKSPACE, TAB} : shell_main(c)

ShellSpec == ShellInit /\ [][ShellNext]_shell_vars

-----------------------------------------------------------------------------
(* The variables keep their types; there is always room for the NUL that    *)
(* ends the line (shell.c:223-229).                                         *)
LineTypeOK ==
  /\ buffer \in [Index -> Printable \cup {NUL}]
  /\ pos \in Index
  /\ shown \in Seq(Printable)
  /\ halted \in BOOLEAN

(* The line on the screen is the line in the buffer, after any sequence of  *)
(* characters, erasures and a full buffer, and there is always room for the *)
(* NUL that ends it (shell.c:212-229).                                      *)
ScreenShowsLine ==
  /\ pos \in Index
  /\ Len(shown) = pos
  /\ \A i \in 1 .. pos : shown[i] = buffer[i - 1]

(* What a line is meant to do: the first word is the command, what follows  *)
(* the blanks after it its arguments.                                       *)
Trim(s) == SubSeq(s, Min({i \in 1 .. Len(s) : s[i] # SPACE} \cup {Len(s) + 1}), Len(s))
Meaning(s) ==
  LET line == Trim(s)
      blanks == {i \in 1 .. Len(line) : line[i] = SPACE}
      n == IF blanks # {} THEN Min(blanks) ELSE 0
      word == IF n = 0 THEN line ELSE SubSeq(line, 1, n - 1)
      args == IF n = 0 THEN <<>> ELSE Trim(SubSeq(line, n, Len(line)))
  IN  IF line = <<>> THEN [command |-> "NONE", args |-> <<>>]
                     ELSE Does(get_command(word), word, args)

(* Enter runs what the screen shows, whatever an earlier, longer line, or   *)
(* the NUL execute wrote into it, has left in the buffer                    *)
(* (shell.c:229-231, 127-145).                                              *)
RunsWhatIsShown ==
  [][Enter => ran' = Meaning(shown)]_shell_vars
=============================================================================
