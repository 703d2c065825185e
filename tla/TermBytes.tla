----------------------------- MODULE TermBytes -----------------------------
(* What programs write to the terminal: bytes and control sequences.         *)
EXTENDS Integers, Sequences, SequencesExt

(* A byte is [k |-> its name, n |-> number]: the value of a digit, the bytes  *)
(* that follow the first of a UTF-8 character, or the width of the character  *)
(* that a continuation byte completes.                                        *)
Byte(k) == [k |-> k, n |-> 0]
Digit(d) == [k |-> "digit", n |-> d]
Lead(bytes) == [k |-> "lead", n |-> bytes]
Cont(width) == [k |-> "cont", n |-> width]

(* The control sequence ESC [ v1 ; v2 ... k.                                  *)
Decimal(n) ==
  IF n < 10 THEN <<Digit(n)>>
  ELSE IF n < 100 THEN <<Digit(n \div 10), Digit(n % 10)>>
  ELSE <<Digit(n \div 100), Digit((n \div 10) % 10), Digit(n % 10)>>
Csi(values, k) ==
  <<Byte("esc"), Byte("[")>> \o
  FoldLeft(LAMBDA s, v : IF s = <<>> THEN Decimal(v) ELSE s \o <<Byte(";")>> \o Decimal(v),
           <<>>, values) \o <<Byte(k)>>
=============================================================================
