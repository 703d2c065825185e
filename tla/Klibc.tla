-------------------------------- MODULE Klibc --------------------------------
(* The kernel's C library: memory, strings, numbers, searching and sorting    *)
(* (klibc/string.c, klibc/stdlib.c).  Memory is a function from addresses to  *)
(* bytes, a string is its address, and a function that writes returns the     *)
(* memory it leaves.  A read or a write outside the memory is an error of the *)
(* evaluation.                                                                *)
EXTENDS Integers, Sequences, SequencesExt

(* The width of an int.                                                       *)
CONSTANT IntBits

Nul == 0

(* No pointer.                                                                *)
NullPtr == -1

(* The bytes 0 .. n-1, first to last.                                         *)
Upward(n) == [k \in 1 .. n |-> k - 1]

Text(m, str) ==
  LET end == CHOOSE e \in DOMAIN m : e >= str /\ m[e] = Nul
                                     /\ \A i \in str .. e - 1 : m[i] # Nul
  IN [k \in 1 .. end - str |-> m[str + k - 1]]

strlen(m, str) == Len(Text(m, str))
-----------------------------------------------------------------------------
(* Copying.                                                                   *)
MoveByte(m, dst, src, i) == [m EXCEPT ![dst + i] = m[src + i]]

memcpy(m, dst, src, n) == FoldLeft(LAMBDA a, i : MoveByte(a, dst, src, i), m, Upward(n))

(* A plausible bug: copying up whatever the direction.                        *)
memmoveUpward(m, dst, src, n) == memcpy(m, dst, src, n)

memmove(m, dst, src, n) ==
  IF dst < src
    THEN memcpy(m, dst, src, n)
    ELSE FoldLeft(LAMBDA a, i : MoveByte(a, dst, src, i), m, Reverse(Upward(n)))

memset(m, ptr, value, num) ==
  FoldLeft(LAMBDA a, i : [a EXCEPT ![ptr + i] = value % 256], m, Upward(num))

memset_pattern(m, ptr, pattern, pattern_size, num) ==
  FoldLeft(LAMBDA a, i : [a EXCEPT ![ptr + i] = a[pattern + (i % pattern_size)]], m, Upward(num))

strcpy(m, dest, src) == memcpy(m, dest, src, strlen(m, src) + 1)

strcat(m, dest, src) == strcpy(m, dest + strlen(m, dest), src)

strncat(m, dest, src, n) ==
  LET d == dest + strlen(m, dest)
      k == IF n < strlen(m, src) THEN n ELSE strlen(m, src)
  IN [memcpy(m, d, src, k) EXCEPT ![d + k] = Nul]

(* The count is decremented before it is tested: a size of 0 is no limit.     *)
strlcpy(m, dst, src, n) ==
  LET sl == strlen(m, src)
  IN [ret |-> sl,
      m |-> IF n = 0 \/ n - 1 > sl
              THEN memcpy(m, dst, src, sl + 1)
              ELSE [memcpy(m, dst, src, n - 1) EXCEPT ![dst + n - 1] = Nul]]

(* A plausible bug: the room left for the terminator is forgotten.            *)
strlcatFull(m, dst, src, size) ==
  LET sl == strlen(m, src)  dl == strlen(m, dst)
  IN IF dl = size
       THEN [ret |-> size + sl, m |-> m]
       ELSE [ret |-> sl + dl,
             m |-> IF dl > size \/ sl <= size - dl
                     THEN memcpy(m, dst + dl, src, sl + 1)
                     ELSE [memcpy(m, dst + dl, src, size - dl - 1) EXCEPT ![dst + size - 1] = Nul]]

(* size - dl is unsigned: a string longer than size is appended to in full.   *)
strlcat(m, dst, src, size) ==
  LET sl == strlen(m, src)  dl == strlen(m, dst)
  IN IF dl = size
       THEN [ret |-> size + sl, m |-> m]
       ELSE [ret |-> sl + dl,
             m |-> IF dl > size \/ sl < size - dl
                     THEN memcpy(m, dst + dl, src, sl + 1)
                     ELSE [memcpy(m, dst + dl, src, size - dl - 1) EXCEPT ![dst + size - 1] = Nul]]
-----------------------------------------------------------------------------
(* Comparing and searching strings.                                           *)
RECURSIVE strncmp(_, _, _, _)
strncmp(m, str1, str2, n) ==
  IF n = 0 THEN 0
  ELSE IF m[str1] # m[str2] THEN m[str1] - m[str2]
  ELSE IF m[str1] = Nul THEN 0
  ELSE strncmp(m, str1 + 1, str2 + 1, n - 1)

RECURSIVE strcmp(_, _, _)
strcmp(m, str1, str2) ==
  IF m[str1] # Nul /\ m[str1] = m[str2]
    THEN strcmp(m, str1 + 1, str2 + 1)
    ELSE m[str1] - m[str2]

RECURSIVE strchr(_, _, _)
strchr(m, str, chr) ==
  IF m[str] = Nul THEN NullPtr
  ELSE IF m[str] = chr THEN str ELSE strchr(m, str + 1, chr)

strcount(m, str, char1) == Len(SelectSeq(Text(m, str), LAMBDA c : c = char1))

strswap(m, str, char1, char2) ==
  FoldLeft(LAMBDA a, i : IF a[str + i] = char1 THEN [a EXCEPT ![str + i] = char2] ELSE a,
           m, Upward(strlen(m, str)))

RECURSIVE strstr(_, _, _)
strstr(m, haystack, needle) ==
  IF m[needle] = Nul THEN haystack
  ELSE IF m[haystack] = Nul \/ strlen(m, haystack) < strlen(m, needle) THEN NullPtr
  ELSE IF strncmp(m, haystack, needle, strlen(m, needle)) = 0 THEN haystack
  ELSE strstr(m, haystack + 1, needle)

RECURSIVE strpbrk(_, _, _)
strpbrk(m, haystack, needle) ==
  IF m[haystack] = Nul THEN NullPtr
  ELSE IF strchr(m, needle, m[haystack]) # NullPtr THEN haystack
  ELSE strpbrk(m, haystack + 1, needle)

(* A plausible bug: the rest starts at the delimiter just overwritten.        *)
strtokStuck(m, tok, str, delim) ==
  LET start == IF str # NullPtr THEN str ELSE tok
      end == strpbrk(m, start, delim)
  IN IF start = NullPtr THEN [m |-> m, tok |-> tok, ret |-> NullPtr]
     ELSE IF end = NullPtr THEN [m |-> m, tok |-> NullPtr, ret |-> start]
     ELSE [m |-> [m EXCEPT ![end] = Nul], tok |-> end, ret |-> start]

(* tok is the static variable, the rest of the string of an earlier call.     *)
strtok(m, tok, str, delim) ==
  LET start == IF str # NullPtr THEN str ELSE tok
      end == strpbrk(m, start, delim)
  IN IF start = NullPtr THEN [m |-> m, tok |-> tok, ret |-> NullPtr]
     ELSE IF end = NullPtr THEN [m |-> m, tok |-> NullPtr, ret |-> start]
     ELSE [m |-> [m EXCEPT ![end] = Nul], tok |-> end + 1, ret |-> start]
-----------------------------------------------------------------------------
(* Numbers.  A digit is its value, so that "a" is 10; Minus, Plus and Space   *)
(* stand for themselves, and so does the x of a prefix.                       *)
Minus == 100
Plus  == 101
Space == 102
LetterX == 33

INT_MAX == 2 ^ (IntBits - 1) - 1
INT_MIN == - INT_MAX - 1
UINT_MODULUS == 2 ^ IntBits
Signed(v, bits) == LET u == v % 2 ^ bits IN IF u < 2 ^ (bits - 1) THEN u ELSE u - 2 ^ bits

RECURSIVE Digits(_, _)
Digits(value, base) ==
  IF value = 0 THEN <<>> ELSE Append(Digits(value \div base, base), value % base)

(* A plausible bug: 0 is left to the loop, which gives no digit for it.       *)
itoaNoZero(value, base) ==
  IF value < 0 /\ base = 10
    THEN <<Minus>> \o Digits(- value, base)
    ELSE Digits(value % UINT_MODULUS, base)

(* base is unsigned, so that the divisions are: in a base other than 10 a     *)
(* negative value is printed as what it is modulo 2 to the IntBits.           *)
itoa(value, base) ==
  IF value = 0 THEN <<0>>
  ELSE IF value < 0 /\ base = 10
    THEN <<Minus>> \o Digits(- value, base)
    ELSE Digits(value % UINT_MODULUS, base)

(* The first position at or after i that holds none of the characters.        *)
RECURSIVE Skip(_, _, _)
Skip(s, i, characters) ==
  IF i <= Len(s) /\ s[i] \in characters THEN Skip(s, i + 1, characters) ELSE i

SignAt(s, i) == IF i <= Len(s) /\ s[i] = Minus THEN -1 ELSE 1
AfterSign(s, i) == IF i <= Len(s) /\ s[i] \in {Minus, Plus} THEN i + 1 ELSE i

(* The number that the digits from i on give, and where they end.             *)
RECURSIVE Number(_, _, _, _)
Number(s, i, base, result) ==
  IF i <= Len(s) /\ s[i] < base
    THEN Number(s, i + 1, base, result * base + s[i])
    ELSE [value |-> result, end |-> i]

(* atoi, atol and atoll differ in the width of the result only, to which the  *)
(* processor cuts a number that is too large, as it does the number of        *)
(* INT_MIN before its sign.                                                   *)
atoi(s) ==
  LET i == Skip(s, 1, {Space})
      result == Signed(Number(s, AfterSign(s, i), 10, 0).value, IntBits)
  IN Signed(SignAt(s, i) * result, IntBits)

(* For numbers of the width of a long, which are not cut here.                *)
strtol(s, base) ==
  LET i == Skip(s, 1, {Space})
      j == AfterSign(s, i)
      zero == j <= Len(s) /\ s[j] = 0
      prefixed == zero /\ j < Len(s) /\ s[j + 1] = LetterX
      radix == IF base # 0 THEN base ELSE IF prefixed THEN 16 ELSE IF zero THEN 8 ELSE 10
      start == IF prefixed /\ radix = 16 THEN j + 2 ELSE IF base = 0 /\ zero THEN j + 1 ELSE j
      number == Number(s, start, radix, 0)
  IN [value |-> SignAt(s, i) * number.value, end |-> number.end]

(* Division of C, which truncates.                                            *)
Quot(a, b) ==
  LET Abs(n) == IF n < 0 THEN - n ELSE n
  IN IF (a < 0) = (b < 0) THEN Abs(a) \div Abs(b) ELSE - (Abs(a) \div Abs(b))

safe_add(a, b) ==
  IF (a > 0 /\ b > INT_MAX - a) \/ (a < 0 /\ b < INT_MIN - a)
    THEN [ok |-> FALSE] ELSE [ok |-> TRUE, result |-> a + b]

(* A plausible bug: the case of two negative numbers is left out.             *)
OverflowsUnlessNegative(a, b) ==
  \/ a > 0 /\ b > 0 /\ a > Quot(INT_MAX, b)
  \/ a > 0 /\ b <= 0 /\ b < Quot(INT_MIN, a)
  \/ a <= 0 /\ b > 0 /\ a < Quot(INT_MIN, b)

Overflows(a, b) ==
  \/ a > 0 /\ b > 0 /\ a > Quot(INT_MAX, b)
  \/ a > 0 /\ b <= 0 /\ b < Quot(INT_MIN, a)
  \/ a <= 0 /\ b > 0 /\ a < Quot(INT_MIN, b)
  \/ a < 0 /\ b <= 0 /\ b < Quot(INT_MAX, a)

safe_multiply(a, b) ==
  IF Overflows(a, b) THEN [ok |-> FALSE] ELSE [ok |-> TRUE, result |-> a * b]

reverse_bits(value) ==
  FoldLeft(LAMBDA r, i : (r * 2) + ((value \div 2 ^ i) % 2), 0, Upward(IntBits))

bits_needed(value) == IF value = 0 THEN 1 ELSE Len(Digits(value, 2))
(* Division of a number of twice the width of an int (math.c).  The shift is  *)
(* found with a divisor that loses its upper bits, and used with one that     *)
(* keeps them.  By 0 the processor traps.                                     *)
RECURSIVE Shift(_, _, _)
Shift(n, d, shift) ==
  IF (d * 2 ^ shift) % UINT_MODULUS <= n /\ shift < IntBits THEN Shift(n, d, shift + 1) ELSE shift

Divided(n, d) ==
  FoldLeft(LAMBDA a, i : IF a.r >= d * 2 ^ i THEN [q |-> a.q + 2 ^ i, r |-> a.r - d * 2 ^ i] ELSE a,
           [q |-> 0, r |-> n], Reverse(Upward(Shift(n, d, 0))))

udivdi3(n, d) == IF n < d THEN 0 ELSE Divided(n, d).q
umoddi3(n, d) == IF n < d THEN n ELSE Divided(n, d).r
-----------------------------------------------------------------------------
(* Sorted arrays: an array is a function from 0 .. num-1 to numbers, and the  *)
(* comparison function is that of the numbers.                                *)
RECURSIVE bsearchIn(_, _, _, _)
bsearchIn(a, key, base, num) ==
  LET pivot == base + (num \div 2)
  IN IF num = 0 THEN NullPtr
     ELSE IF key = a[pivot] THEN pivot
     ELSE IF key > a[pivot] THEN bsearchIn(a, key, pivot + 1, num - (num \div 2) - 1)
     ELSE bsearchIn(a, key, base, num \div 2)

Swapped(a, i, j) == [a EXCEPT ![i] = a[j], ![j] = a[i]]

RECURSIVE RunUp(_, _, _)
RunUp(a, left, pivot) == IF a[left] < a[pivot] THEN RunUp(a, left + 1, pivot) ELSE left

RECURSIVE RunDown(_, _, _)
RunDown(a, right, pivot) == IF a[right] > a[pivot] THEN RunDown(a, right - 1, pivot) ELSE right

(* pivot is a place in the array, not a value: the exchange may move another  *)
(* element there.                                                             *)
RECURSIVE Partition(_, _, _, _)
Partition(a, left, right, pivot) ==
  IF left > right THEN [a |-> a, left |-> left, right |-> right]
  ELSE LET l == RunUp(a, left, pivot)  r == RunDown(a, right, pivot)
       IN IF l <= r THEN Partition(Swapped(a, l, r), l + 1, r - 1, pivot)
                    ELSE Partition(a, l, r, pivot)

(* A plausible bug: the part above the pivot is left unsorted.                *)
RECURSIVE qsortLower(_, _, _)
qsortLower(a, first, num) ==
  LET last == first + num - 1
      p == Partition(a, first, last, first + (num \div 2))
  IN IF num < 2 THEN a
     ELSE IF first < p.right THEN qsortLower(p.a, first, p.right - first + 1) ELSE p.a

RECURSIVE qsort(_, _, _)
qsort(a, first, num) ==
  LET last == first + num - 1
      p == Partition(a, first, last, first + (num \div 2))
      lower == IF first < p.right THEN qsort(p.a, first, p.right - first + 1) ELSE p.a
  IN IF num < 2 THEN a
     ELSE IF p.left < last THEN qsort(lower, p.left, last - p.left + 1) ELSE lower
=============================================================================
