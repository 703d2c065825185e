------------------------------ MODULE Printing ------------------------------
(* Formatted output: printf to the terminal, vsprintf to a buffer and         *)
(* serial_printf to the serial line (klibc/stdio.c, tools/serial.c).  Each    *)
(* returns the characters it writes; the counts that printf and vsprintf      *)
(* return are their number.  A character is a number as in Klibc, so that the *)
(* letter d is 13; an argument is a number of the width of a long, of which a *)
(* directive for an int takes the lower half, a string, or NoString, the null *)
(* pointer.  The terminal is there: before it is, printf writes nothing and   *)
(* returns -1 (stdio.c:49).                                                   *)
EXTENDS Klibc

(* One million in the code: a double is a whole number of these parts.        *)
CONSTANT FractionScale

LongBits == 2 * IntBits

Percent == 103
Newline == 104
Return  == 105
Dot     == 106
Upper(letter) == 200 + letter
HexPrefix == <<0, LetterX>>
NoString  == <<NullPtr>>
NullText  == <<107, 23, 30, 21, 21, 108>>

Unsigned(v, bits) == v % 2 ^ bits
Repeated(n, char) == [k \in 1 .. n |-> char]
Padded(text, width, char) == Repeated(width - Len(text), char) \o text
StringOf(arg) == IF arg = NoString THEN NullText ELSE arg
-----------------------------------------------------------------------------
(* What the three parse after a percent sign: a 0, a width, a length and the  *)
(* letter of the conversion.  doubled are the lengths that may be doubled,    *)
(* single those that may not.                                                 *)
Directive(fmt, doubled, single) ==
  LET pad == IF fmt[1] = 0 THEN 0 ELSE Space
      number == Number(fmt, IF fmt[1] = 0 THEN 2 ELSE 1, 10, 0)
      i == number.end
      length == IF fmt[i] \in doubled
                  THEN IF fmt[i + 1] = fmt[i] THEN <<fmt[i], fmt[i]>> ELSE <<fmt[i]>>
                  ELSE IF fmt[i] \in single THEN <<fmt[i]>> ELSE <<>>
      j == i + Len(length)
  IN [pad |-> pad, width |-> number.value, length |-> length, conv |-> fmt[j],
      rest |-> SubSeq(fmt, j + 1, Len(fmt))]

Base(conv) == CASE conv \in {LetterX, Upper(LetterX)} -> 16 [] conv = 24 -> 8 [] OTHER -> 10

-----------------------------------------------------------------------------
(* printf.  itoa takes an int, so that the lower half of a long is printed.   *)
(* The letters are d, u, x, o, f, s, c, p and m.                              *)
printfLetters == {13, 30, LetterX, 24, 15, 28, 12, 25, 22}

printfOne(d, arg) ==
  LET int == Signed(arg, IntBits)
  IN CASE d.conv \in {13, 30, LetterX, 24} ->
            (IF d.conv = LetterX THEN HexPrefix ELSE <<>>)
              \o Padded(itoa(int, Base(d.conv)), d.width, d.pad)
       [] d.conv = 15 ->
            LET whole == Quot(arg, FractionScale)
            IN itoa(whole, 10) \o <<Dot>> \o itoa(arg - whole * FractionScale, 10)
       [] d.conv = 28 -> Padded(StringOf(arg), d.width, d.pad)
       [] d.conv = 12 -> <<arg>>
       [] d.conv = 25 -> HexPrefix \o Padded(itoa(int, 16), d.width, d.pad)
       [] d.conv = 22 -> SubSeq(StringOf(arg), 1, IF d.width = 0 THEN 16 ELSE d.width)

(* A plausible bug: the second letter of ll is left for the conversion.       *)
printfDirectiveShort(fmt) == Directive(fmt, {}, {21, Upper(21)})

printfDirective(fmt) == Directive(fmt, {21}, {Upper(21)})

RECURSIVE printf(_, _)
printf(fmt, args) ==
  IF fmt = <<>> THEN <<>>
  ELSE IF fmt[1] # Percent THEN <<fmt[1]>> \o printf(Tail(fmt), args)
  ELSE LET d == printfDirective(Tail(fmt))
       IN IF d.conv \in printfLetters
            THEN printfOne(d, args[1]) \o printf(d.rest, Tail(args))
            ELSE <<d.conv>> \o printf(d.rest, args)
-----------------------------------------------------------------------------
(* vsprintf.  Lengths are l, ll, h, hh and z, of which l, ll and z ask for a  *)
(* long.  The letters are d, i, u, x, X, o, p, s and c.                       *)
vsprintfLetters == {13, 18, 30, LetterX, Upper(LetterX), 24, 25, 28, 12}

num_to_str(num, base, uppercase) ==
  LET digits == IF num = 0 THEN <<0>> ELSE Digits(num, base)
  IN [k \in DOMAIN digits |-> IF uppercase /\ digits[k] > 9 THEN Upper(digits[k]) ELSE digits[k]]

ArgBits(d) == IF d.length \in {<<21>>, <<21, 21>>, <<35>>} THEN LongBits ELSE IntBits

vsprintfOne(d, arg) ==
  LET val == Signed(arg, ArgBits(d))
  IN CASE d.conv \in {13, 18} ->
            (IF val < 0 THEN <<Minus>> ELSE <<>>) \o num_to_str(IF val < 0 THEN - val ELSE val, 10, FALSE)
       [] d.conv = 30 -> num_to_str(Unsigned(arg, ArgBits(d)), 10, FALSE)
       [] d.conv \in {LetterX, Upper(LetterX), 24} ->
            num_to_str(Unsigned(arg, ArgBits(d)), Base(d.conv), d.conv = Upper(LetterX))
       [] d.conv = 25 -> HexPrefix \o num_to_str(Unsigned(arg, LongBits), 16, FALSE)
       [] d.conv = 28 -> StringOf(arg)
       [] d.conv = 12 -> <<arg>>

RECURSIVE vsprintf(_, _)
vsprintf(fmt, args) ==
  IF fmt = <<>> THEN <<>>
  ELSE IF fmt[1] # Percent THEN <<fmt[1]>> \o vsprintf(Tail(fmt), args)
  ELSE IF fmt[2] = Percent THEN <<Percent>> \o vsprintf(SubSeq(fmt, 3, Len(fmt)), args)
  ELSE LET d == Directive(Tail(fmt), {21, 17}, {35})
           known == d.conv \in vsprintfLetters
           text == IF known THEN vsprintfOne(d, args[1]) ELSE <<Percent, d.conv>>
       IN Padded(text, d.width, d.pad) \o vsprintf(d.rest, IF known THEN Tail(args) ELSE args)
-----------------------------------------------------------------------------
(* serial_printf has no width, and sends a return before each newline that it *)
(* meets in the format or in a string.                                        *)
serial_write(msg) == FlattenSeq([k \in DOMAIN msg |-> IF msg[k] = Newline THEN <<Return, Newline>> ELSE <<msg[k]>>])

serial_print_hex(num, width) ==
  IF num = 0 THEN <<0>> ELSE Padded(Digits(num, 16), width, 0)

serial_print_dec(num) ==
  IF num = 0 THEN <<0>>
  ELSE IF num < 0 THEN <<Minus>> \o Digits(- num, 10) ELSE Digits(num, 10)

(* The letters are d, i, u, x, X, p, s and c.                                 *)
serialLetters == {13, 18, 30, LetterX, Upper(LetterX), 25, 28, 12}

serialOne(d, arg) ==
  LET long == d.length = <<21>>
      longlong == d.length \in {<<21, 21>>, <<Upper(21)>>}
      bits == IF long \/ longlong THEN LongBits ELSE IntBits
      num == Unsigned(arg, bits)
      prefixed == longlong \/ (d.conv = LetterX /\ num # 0)
  IN CASE d.conv \in {13, 18} -> serial_print_dec(Signed(arg, IntBits))
       [] d.conv = 30 -> serial_print_dec(Unsigned(arg, IntBits))
       [] d.conv \in {LetterX, Upper(LetterX)} ->
            (IF prefixed THEN HexPrefix ELSE <<>>)
              \o serial_print_hex(num, IF bits = LongBits THEN LongBits \div 4 ELSE 0)
       [] d.conv = 25 -> HexPrefix \o serial_print_hex(Unsigned(arg, LongBits), 0)
       [] d.conv = 28 -> serial_write(arg)
       [] d.conv = 12 -> <<arg>>

(* The length and the letter that follow a percent sign.                      *)
serialDirective(fmt) ==
  LET length == IF fmt[1] = 21
                  THEN IF fmt[2] = 21 THEN <<21, 21>> ELSE <<21>>
                  ELSE IF fmt[1] = Upper(21) THEN <<Upper(21)>> ELSE <<>>
  IN [length |-> length, conv |-> fmt[Len(length) + 1], rest |-> SubSeq(fmt, Len(length) + 2, Len(fmt))]

RECURSIVE serial_printf(_, _)
serial_printf(fmt, args) ==
  IF fmt = <<>> THEN <<>>
  ELSE IF fmt[1] # Percent \/ Len(fmt) = 1 THEN serial_write(<<fmt[1]>>) \o serial_printf(Tail(fmt), args)
  ELSE LET d == serialDirective(Tail(fmt))
       IN IF d.conv \in serialLetters
            THEN serialOne(d, args[1]) \o serial_printf(d.rest, Tail(args))
            ELSE (IF d.conv = Percent THEN <<Percent>> ELSE <<Percent, d.conv>>)
                   \o serial_printf(d.rest, args)

(* The static buffer of printk.  A message that does not fit it is written    *)
(* past its end, which is an error of the evaluation here.                    *)
PrintkBuffer == 1024

printk(fmt, args) ==
  LET text == vsprintf(fmt, args)
  IN CASE Len(text) < PrintkBuffer -> serial_write(text)
=============================================================================
