---------------------------- MODULE MCArithmetic ----------------------------
(* The pure algorithms of the kernel against reference definitions, for      *)
(* every input of a small range: the size classes of the heap, with the      *)
(* kernel's own subdivision and a largest block of 2 KiB, the descriptors of *)
(* an AHCI read, the terminal's scrolling, editing, character widths and     *)
(* pixel addresses, the C library and its formatted output, the scan of the  *)
(* PCI buses, and delays.                                                    *)
EXTENDS TlsfMapping, AhciPrdt, TermGrid, TermUnicode, FbLayout, Printing, Pci, Time

(* The question asked: the bytes a caller wants of the heap or the sectors it *)
(* wants of the disk, an editing sequence, a character or a framebuffer.      *)
VARIABLE request

(* Terminals of up to 3 by 4 cells, each with a character of its own, and     *)
(* with no more rows than columns: every cursor, also behind a full line, and *)
(* every scroll region.                                                       *)
Sizes == {s \in (1 .. 3) \X (1 .. 4) : s[1] <= s[2]}
Terminal(s, x, y, top, bottom) ==
  [g |-> [i \in 0 .. s[1] * s[2] - 1 |-> i], rows |-> s[1], cols |-> s[2], x |-> x, y |-> y,
   top |-> top, bottom |-> bottom, scroll |-> TRUE]

AskEdit ==
  \E s \in Sizes, k \in {"J", "K", "@", "P", "X", "M", "L"} :
    \E x \in 0 .. s[2], y \in 0 .. s[1] - 1, v \in 0 .. s[2] + 1, bottom \in 1 .. s[1] :
      \E top \in 0 .. bottom - 1 :
        request' = [kind |-> "edit", t |-> Terminal(s, x, y, top, bottom), k |-> k, v |-> v]

(* Both sides of every boundary in the tables, and of the lengths of an       *)
(* encoding; alone, and after the first bytes of another character.           *)
Edges == UNION {{r[1] - 1, r[1], r[2], r[2] + 1} : r \in Wide \cup {combining[i] : i \in DOMAIN combining}}
Characters == Edges \cup {Cp437[i] : i \in DOMAIN Cp437}
              \cup {\h80, \h9F, \hA0, \h7FF, \h800, \hFFFF, \h10000, \h10FFFF}
Interrupted == {<<>>, <<\hC3>>, <<\hE2, \h98>>, <<\hF0, \h9F, \h98>>}

AskCharacter ==
  \E c \in Characters, b \in Interrupted :
    request' = [kind |-> "character", ucs |-> c, before |-> b]

(* Framebuffers of up to 8 by 7 pixels with two pixels of padding, turned in  *)
(* every way; only the unturned picture is also cut to a limit.               *)
AskPicture ==
  \E w \in 4 .. 8, h \in 4 .. 7, r \in {0, 90, 180, 270}, m \in 0 .. 1, sc \in 1 .. 2,
     limit \in {5, 10} :
    /\ limit = 5 => r = 0
    /\ request' = [kind |-> "picture",
                   f |-> [width |-> w, height |-> h, pitch |-> w + 2, rotation |-> r, margin |-> m,
                          scale |-> sc, font_width |-> 2, font_height |-> 1],
                   limit |-> [width |-> limit, height |-> limit]]

AskScreen ==
  \E w \in {1, 640, 800, 1024, 1366, 1919, 1920, 1921, 2560, 3840, 5120},
     h \in {1, 480, 600, 768, 1080, 1199, 1200, 1201, 1440, 2160, 2880} :
    request' = [kind |-> "screen", width |-> w, height |-> h]

AskSize == \E n \in 0 .. block_size_max + ALIGN_SIZE : request' = [kind |-> "size", n |-> n]

(* A buffer of 7 bytes with a string in it, another string behind it, and a   *)
(* size or a count; a search in strings of two characters.                    *)
Strings(chars, n) == UNION {[1 .. k -> chars] : k \in 0 .. n}
Memory(s) == [i \in 0 .. Len(s) - 1 |-> s[i + 1]]
Buffer(s) == s \o <<Nul>> \o [k \in 1 .. 6 - Len(s) |-> 9]

AskCopy ==
  \E d \in Strings({1}, 3), s \in Strings({2, 3}, 3), n \in 0 .. 5 :
    request' = [kind |-> "copy", m |-> Memory(Buffer(d) \o s \o <<Nul>>), n |-> n]

AskMove ==
  \E dst \in 0 .. 4, src \in 0 .. 4, n \in 0 .. 3 :
    request' = [kind |-> "move", m |-> Memory(<<1, 2, 3, 4, 5, 6, 7>>), dst |-> dst, src |-> src, n |-> n]

AskSearch ==
  \E s \in Strings({1, 2}, 4), t \in Strings({1, 2}, 2) :
    request' = [kind |-> "search", m |-> Memory(s \o <<Nul>> \o t \o <<Nul>>), at |-> Len(s) + 1]

(* Every int of 6 bits, and every pair of them; arrays of different numbers.  *)
Ints == INT_MIN .. INT_MAX
AskNumbers == \E a \in Ints, b \in Ints : request' = [kind |-> "numbers", a |-> a, b |-> b]

AskDivision == \E d \in 1 .. UINT_MODULUS - 1 : request' = [kind |-> "division", d |-> d]

(* The letters d, u, x, o and p, and c and f.                                 *)
NumberLetters == {13, 30, LetterX, 24, 25}

(* A directive with every width, padding and length, between other text and a *)
(* directive for a small number, and a number at a limit of an int or a long, *)
(* a string or no pointer.                                                    *)
Lengths == {<<>>, <<21>>, <<21, 21>>, <<Upper(21)>>}
Limits == {0, 1, 9, 10, INT_MAX, INT_MAX + 1, UINT_MODULUS - 1, UINT_MODULUS,
           2 ^ (LongBits - 1) - 1, 2 ^ (LongBits - 1), 2 ^ LongBits - 1}
Words == Strings({Newline, 7}, 2) \cup {NoString}

AskPrint ==
  \E pad \in {Space, 0}, width \in {0, 1, 5}, length \in Lengths :
    \/ \E conv \in NumberLetters \cup {12, 15}, arg \in Limits :
         request' = [kind |-> "print", pad |-> pad, width |-> width, length |-> length,
                     conv |-> conv, arg |-> arg]
    \/ \E arg \in Words :
         request' = [kind |-> "print", pad |-> pad, width |-> width, length |-> length,
                     conv |-> 28, arg |-> arg]

AskArray ==
  \E n \in 0 .. 5 : \E p \in SetToSeqs({2 * i : i \in 1 .. n}) :
    request' = [kind |-> "array", a |-> Memory(p), n |-> n]

(* Machines with up to three PCI buses: one host bridge, or two, a device     *)
(* with two functions on each of two buses, and bridges, which never share a  *)
(* bus and lead away from the host.  And base address registers.              *)
Slots == {<<0, 1, 0>>, <<0, 1, 1>>, <<1, 0, 0>>, <<1, 0, 1>>, <<2, 1, 0>>}
Cards(multi) == [class : {"AHCI", "EHCI"}, secondary : {0}, multi : {multi}]
                \cup [class : {"bridge"}, secondary : {1, 2}, multi : {multi}]
Hosts == {<<0, 0, 0>> :> [class |-> "host", secondary |-> 0, multi |-> FALSE],
          [p \in {<<0, 0, 0>>, <<0, 0, 1>>} |-> [class |-> "host", secondary |-> p[3], multi |-> TRUE]]}

Tree(machine) ==
  \A p, q \in DOMAIN machine :
    machine[p].secondary # 0 =>
      /\ machine[p].secondary > p[1]
      /\ machine[p].secondary = machine[q].secondary => p = q

AskMachine ==
  \E multi \in BOOLEAN, hosts \in Hosts, used \in SUBSET Slots :
    \E cards \in [used -> Cards(multi)] :
      /\ Tree(hosts @@ cards)
      /\ request' = [kind |-> "machine", machine |-> hosts @@ cards]

AskBar ==
  \E k \in 4 .. BarBits - 1, type \in {0, 4, 8, 12} :
    \E a \in 0 .. 2 ^ (BarBits - k) - 1 :
      request' = [kind |-> "bar", bar |-> [size |-> 2 ^ k, value |-> (a * 2 ^ k) + type]]

(* Delays on a processor of 3 MHz or of 3.4 MHz, at any time up to the second *)
(* wrap of the clock, or on one whose speed is unknown.                       *)
AskDelay ==
  \E tsc \in 0 .. 6 * TimeModulus, step \in 1 .. 8, micros \in 0 .. TimeModulus - 4, khz \in {0, 3000, 3400} :
    request' = [kind |-> "delay", tsc |-> tsc, step |-> step, micros |-> micros, khz |-> khz,
                machine |-> [mode |-> "TSC", pit_is_legit |-> FALSE, cpu_has_tsc |-> TRUE,
                             clock |-> [hz |-> set_CPU_clock_speed(khz), booted |-> TRUE]]]

AskTimer ==
  \E micros \in {0, 1, 2, 24999, 25000, 25001, 49999, 50000, 50001, 75000, 99999} :
    request' = [kind |-> "timer", micros |-> micros,
                machine |-> [mode |-> "PIT", pit_is_legit |-> TRUE, cpu_has_tsc |-> TRUE,
                             clock |-> [hz |-> 0, booted |-> FALSE]]]

(* One question at a time, and back to the first.                             *)
First == [kind |-> "size", n |-> 0]
Init == request = First

Next ==
  \/ request = First /\ (AskSize \/ AskEdit \/ AskCharacter \/ AskPicture \/ AskScreen
                        \/ AskCopy \/ AskMove \/ AskSearch \/ AskNumbers \/ AskDivision \/ AskPrint \/ AskArray
                        \/ AskMachine \/ AskBar \/ AskDelay \/ AskTimer)
  \/ request # First /\ request' = First

Spec == Init /\ [][Next]_request
-----------------------------------------------------------------------------
adjust == adjust_request_size(request.n, ALIGN_SIZE)

(* A request is rounded to a block size that covers it, or refused when it *)
(* is empty or has no block size (tlsf.c:492-506); every block in a list   *)
(* the search may take it from is large enough, which is the assertion of  *)
(* block_locate_free (tlsf.c:776); and a list that holds a fitting block   *)
(* is passed over only when it may also hold one that is too small: the    *)
(* block sizes of a list are contiguous, so the largest size below the     *)
(* request is in it (tlsf.c:533-541).                                      *)
SearchFits ==
  request.kind = "size" =>
    /\ \/ adjust = 0 /\ (request.n = 0 \/ request.n > block_size_max - ALIGN_SIZE)
       \/ adjust \in BlockSizes /\ adjust >= request.n /\ adjust - request.n < block_size_min
    /\ adjust # 0 =>
         \A s \in BlockSizes :
           IF Before(mapping_insert(s), mapping_search(adjust))
             THEN s >= adjust => mapping_insert(s) = mapping_insert(adjust - ALIGN_SIZE)
             ELSE s >= adjust

(* The descriptors of sata_ahci_read_sector cover the caller's buffer       *)
(* without a gap, an overlap or a byte too many, and lie in the command     *)
(* tables of the port's memory (sata.c:149-181); so does the one of         *)
(* sata_ahci_read_sector_satapi for up to 2048 sectors (sata.c:540-543).    *)
BufferExactlyCovered ==
  request.kind = "size" =>
    /\ request.n >= 1 => Exact(request.n) /\ InTable(request.n)
    /\ request.n \in 1 .. 2048 => satapi_dbc(request.n) + 1 = request.n * 2048

(* Scrolling moves the rows of the scroll region by one, each character to   *)
(* the cell above or below it, and touches no other row: no character is     *)
(* overwritten before it is copied (fb.c:732-783).                           *)
ScrollsExactly ==
  request.kind = "edit" =>
    LET t == request.t
    IN /\ scroll(t).g = RowsUp(t, t.top, t.bottom, 1)
       /\ revscroll(t).g = RowsDown(t, t.top, t.bottom, 1)

(* An editing sequence leaves the text that console_codes(4) says, which      *)
(* flanterm.c:46-47 names as its standard, and the cursor where it was, for   *)
(* every cursor, count and scroll region: its loop of cursor moves and blanks *)
(* neither wraps nor scrolls (flanterm.c:656-672, 692-781).  Not so in the    *)
(* cells that Differs lists: the cursor's after K 1; behind the line end and  *)
(* in the last cell for X, K 0 and J 0 of a full line, and for an X past the  *)
(* end; below the region for J 0 and J 1; left of the cursor for a P past the *)
(* end; the rest of the line for @ 0; the region's rows for an M outside its  *)
(* first row; the cursor's row for an L below the region.  A character in     *)
(* insert mode, not behind the line end, moves the rest of the line by one    *)
(* (flanterm.c:1368-1375).                                                    *)
EditsExact ==
  request.kind = "edit" =>
    LET t == request.t  k == request.k  v == request.v
        after == Sequence(t, k, v)  wanted == Wanted(t, k, v)
    IN /\ \A x \in 0 .. t.cols - 1, y \in 0 .. t.rows - 1 :
            Differs(t, k, v, x, y) \/ after.g[x + y * t.cols] = wanted[x + y * t.cols]
       /\ <<GetX(after), after.y>> = <<GetX(t), t.y>>
       /\ t.x < t.cols => PutInserting(t, Blank).g = Wanted(t, "@", 1)

(* On a terminal with no more rows than columns, scrolling moves the rows of  *)
(* the region and no others, and editing leaves every cell as console_codes(4)*)
(* says, but for some cells where the code's loops miss: K 1                  *)
(* spares the cursor's cell; X, K 0 and J 0 of a full line miss the last cell *)
(* and blank the next line's first; X past the line end goes on in the next   *)
(* line; J 0 and J 1 stop at the end of the region; P past the line end       *)
(* blanks cells left of the cursor; @ 0 blanks the rest of the line; M starts *)
(* at the region's first row, not at the cursor's; L below the region blanks  *)
(* a row (flanterm.c:656-781, fb.c:732-783).                                  *)
TextEditedExactly == ScrollsExactly /\ EditsExact

(* A character takes the cells its width says: the binary search over the     *)
(* table of non-spacing characters finds exactly the characters in it, every  *)
(* character with a glyph is one cell wide, the bytes of a character give     *)
(* back that character, and a character broken off by another is dropped and  *)
(* does not disturb it (flanterm.c:974-1077, 1257-1298).                      *)
TakesItsWidth ==
  request.kind = "character" =>
    LET shown == Decoded(request.before \o Encoded(request.ucs))
    IN shown = IF \E i \in DOMAIN Cp437 : Cp437[i] = request.ucs
                 THEN <<unicode_to_cp437(request.ucs)>>
                 ELSE SubSeq(<<\hFE, 32>>, 1, ReferenceWidth(request.ucs))

(* A glyph is drawn on the pixels of its own cell, in the orientation that    *)
(* full_refresh gives the picture, and inside the framebuffer's lines, for    *)
(* every rotation, margin and scale, and where the picture is cut to the size *)
(* limit and centred (fb.c:475-702, 993-1013, 1110-1122).                     *)
PlotsItsCell ==
  request.kind = "picture" =>
    LET f == request.f  l == Layout(f, request.limit)
    IN \A x \in 0 .. l.cols - 1, y \in 0 .. l.rows - 1 :
         \A gx \in 0 .. l.glyph_width - 1, gy \in 0 .. l.glyph_height - 1 :
           LET p == plot_char(l, x, y, gx, gy)
               px == l.offset_x + x * l.glyph_width + gx
               py == l.offset_y + y * l.glyph_height + gy
           IN /\ px \in f.margin .. l.width - 1 - f.margin
              /\ py \in f.margin .. l.height - 1 - f.margin
              /\ p.pixel = full_refresh(l, px, py)
              /\ p.pixel \in 0 .. f.pitch * f.height - 1 /\ p.pixel % f.pitch < f.width
              /\ p.dot \in (0 .. f.font_width - 1) \X (0 .. f.font_height - 1)

(* The static pool holds the terminal's tables for the screens in use, and    *)
(* for those at the limits (fb.c:58-93, 1110-1120).  FbPoolSuffices proves it *)
(* for every screen.                                                          *)
PoolHoldsTables == request.kind = "screen" => PoolSuffices(request.width, request.height)

(* What the framebuffer's layout computes stays inside the framebuffer, and   *)
(* what its tables need inside the pool (fb.c:58-93, 475-702, 1110-1122).     *)
PictureFits == PlotsItsCell /\ PoolHoldsTables

Outside(m, after, first, n) == \A i \in DOMAIN m : i \notin first .. first + n - 1 => after[i] = m[i]
FirstChars(s, n) == IF n < Len(s) THEN SubSeq(s, 1, n) ELSE s

(* The tokens that strtok returns for a string, call after call.              *)
RECURSIVE Tokens(_, _, _, _)
Tokens(m, tok, str, delim) ==
  LET c == strtok(m, tok, str, delim)
  IN IF c.ret = NullPtr THEN <<>> ELSE <<Text(c.m, c.ret)>> \o Tokens(c.m, c.tok, NullPtr, delim)

(* memmove leaves the bytes it was given, whichever way the two areas overlap *)
(* (string.c:208-221); memset fills with the low byte of its value, and       *)
(* memset_pattern repeats a pattern that it does not overwrite                *)
(* (string.c:223-229, stdlib.c:78-89).  strlcpy, given a size other than 0,   *)
(* and strlcat, given a size that the string in the buffer does not exceed,   *)
(* change nothing beyond it, leave a string cut to it and return the length   *)
(* it would have had (string.c:75-116); strcat and strncat append             *)
(* (string.c:162-186).                                                        *)
CopiesExact ==
  LET m == request.m  n == request.n  s == Text(m, 0)  t == Text(m, 7)
      copy == strlcpy(m, 0, 7, n)  cat == strlcat(m, 0, 7, n)
  IN /\ request.kind = "move" =>
          memmove(m, request.dst, request.src, n) =
            [i \in DOMAIN m |-> IF i \in request.dst .. request.dst + n - 1
                                  THEN m[request.src + i - request.dst] ELSE m[i]]
     /\ request.kind = "move" =>
          memset(m, request.dst, 256 + 9, n) =
            [i \in DOMAIN m |-> IF i \in request.dst .. request.dst + n - 1 THEN 9 ELSE m[i]]
     /\ request.kind = "move" =>
          \A k \in 1 .. 2 :
            (request.src .. request.src + k - 1) \cap (request.dst .. request.dst + n - 1) = {} =>
              memset_pattern(m, request.dst, request.src, k, n) =
                [i \in DOMAIN m |-> IF i \in request.dst .. request.dst + n - 1
                                      THEN m[request.src + ((i - request.dst) % k)] ELSE m[i]]
     /\ request.kind = "copy" =>
          /\ n >= 1 => /\ Text(copy.m, 0) = FirstChars(t, n - 1) /\ copy.ret = Len(t)
                       /\ Outside(m, copy.m, 0, n)
          /\ n >= Len(s) => /\ Text(cat.m, 0) = IF n > Len(s) THEN FirstChars(s \o t, n - 1) ELSE s
                            /\ cat.ret = Len(s) + Len(t)
                            /\ Outside(m, cat.m, 0, n)
          /\ Text(strcat(m, 0, 7), 0) = s \o t
          /\ Text(strncat(m, 0, 7, n), 0) = s \o FirstChars(t, n)

(* strstr finds the first occurrence and only an occurrence                   *)
(* (string.c:240-259); strcmp and strncmp tell equal strings from different   *)
(* ones (string.c:44-72); strswap leaves none of the characters it replaces,  *)
(* and as many of the others (string.c:133-160); the calls of strtok return   *)
(* the fields between the delimiters, the empty ones too, which the C         *)
(* library's passes over, lose no character and end (string.c:275-290).       *)
SearchesExact ==
  request.kind = "search" =>
    LET m == request.m  s == Text(m, 0)  t == Text(m, request.at)
        occurs == {i \in 0 .. Len(s) - Len(t) : SubSeq(s, i + 1, i + Len(t)) = t}
        fields == Tokens(m, NullPtr, 0, request.at)
        delims == {t[i] : i \in DOMAIN t}
    IN /\ strstr(m, 0, request.at) =
            IF occurs = {} THEN NullPtr ELSE CHOOSE i \in occurs : \A j \in occurs : i <= j
       /\ (strcmp(m, 0, request.at) = 0) = (s = t)
       /\ \A n \in 0 .. 3 : (strncmp(m, 0, request.at, n) = 0) = (FirstChars(s, n) = FirstChars(t, n))
       /\ LET swapped == strswap(m, 0, 1, 2)
          IN /\ strlen(swapped, 0) = Len(s) /\ strcount(swapped, 0, 1) = 0
             /\ strcount(swapped, 0, 2) = strcount(m, 0, 1) + strcount(m, 0, 2)
       /\ FlattenSeq(fields) = SelectSeq(s, LAMBDA c : c \notin delims)
       /\ Len(fields) = 1 + Len(SelectSeq(s, LAMBDA c : c \in delims))

(* Strings are copied, joined, compared and searched as the C library         *)
(* promises, whatever their lengths and overlaps, with three premises: the    *)
(* size given to strlcpy is not 0, which it takes for no limit; the size      *)
(* given to strlcat is not below the length of the string in the buffer,      *)
(* which it then appends to in full; and strtok splits into all the fields,   *)
(* where the C library's skips the empty ones (string.c:44-290).              *)
StringsExact == CopiesExact /\ SearchesExact

(* A number printed by itoa reads back as the number, in base 10 for every    *)
(* int and in the other bases modulo the width of an int, with and without    *)
(* what strtol skips, and strtol stops behind its digits (stdlib.c:91-256);   *)
(* safe_add and safe_multiply refuse exactly the results that are no int      *)
(* (limits.c:9-40).                                                           *)
NumbersExact ==
  request.kind = "numbers" =>
    LET a == request.a  b == request.b
    IN /\ atoi(itoa(a, 10)) = a /\ strtol(itoa(a, 10), 0) = [value |-> a, end |-> Len(itoa(a, 10)) + 1]
       /\ \A base \in {2, 8, 16, 36} :
            strtol(<<Space, Minus>> \o itoa(a, base) \o <<Space>> \o itoa(b, base), base) =
              [value |-> - (a % UINT_MODULUS), end |-> Len(itoa(a, base)) + 3]
       /\ strtol(<<Plus, 0, LetterX>> \o itoa(a, 16), 0).value = a % UINT_MODULUS
       /\ safe_add(a, b) = IF a + b \in Ints THEN [ok |-> TRUE, result |-> a + b] ELSE [ok |-> FALSE]
       /\ safe_multiply(a, b) = IF a * b \in Ints THEN [ok |-> TRUE, result |-> a * b] ELSE [ok |-> FALSE]
       /\ a >= 0 => /\ reverse_bits(reverse_bits(a)) = a
                    /\ a < 2 ^ bits_needed(a) /\ (a > 0 => a >= 2 ^ (bits_needed(a) - 1))

(* The quotient and the remainder are right whenever the quotient has the     *)
(* width of an int, although the loop that looks for the shift compares with  *)
(* a divisor whose upper bits are lost (math.c:203-240).                      *)
DivisionExact ==
  request.kind = "division" =>
    \A n \in 0 .. request.d * UINT_MODULUS - 1 :
      /\ udivdi3(n, request.d) = n \div request.d
      /\ umoddi3(n, request.d) = n % request.d

(* qsort stays within its array, keeps its elements, and puts up to three of  *)
(* them in order; bsearch finds each element of a sorted array at its place   *)
(* and none that is not there (stdlib.c:279-333).                             *)
ArraysExact ==
  request.kind = "array" =>
    LET a == qsort(request.a, 0, request.n)
        sorted == [i \in 0 .. request.n - 1 |-> 2 * (i + 1)]
    IN /\ IF request.n <= 3 THEN a = sorted ELSE Range(a) = Range(sorted)
       /\ \A key \in 1 .. 2 * request.n + 1 :
            bsearchIn(sorted, key, 0, request.n) = IF key % 2 = 0 THEN (key \div 2) - 1 ELSE NullPtr

(* Numbers and arrays survive what the library does to them, at the limits of *)
(* an int and for every order of the elements (stdlib.c:91-333).              *)
ValuesExact == NumbersExact /\ DivisionExact /\ ArraysExact

(* What stands between the newline and the last two characters of a message   *)
(* is the field of its directive.                                             *)
Message(width) ==
  <<Newline, Percent>> \o (IF request.pad = 0 THEN <<0>> ELSE <<>>)
    \o (IF width = 0 THEN <<>> ELSE <<width>>)
    \o request.length \o <<request.conv, Space, Percent, 13>>
Field(text, from) == SubSeq(text, from, Len(text) - 2)
Framed(text, newline) ==
  /\ SubSeq(text, 1, Len(newline)) = newline
  /\ SubSeq(text, Len(text) - 1, Len(text)) = <<Space, 5>>

(* The field is the number, whatever the padding, and as wide as was asked.   *)
ShowsNumber(field, conv, value, width) ==
  /\ strtol(field, Base(IF conv = 25 THEN LetterX ELSE conv)) = [value |-> value, end |-> Len(field) + 1]
  /\ Len(field) >= width
  /\ Len(field) > width => field[1] # Space

(* The field is the number of parts of which there are FractionScale in 1.    *)
ShowsFraction(field, parts) ==
  \E i \in DOMAIN field :
    LET whole == Number(field, 1, 10, 0)  fraction == Number(field, i + 1, 10, 0)
    IN /\ field[i] = Dot /\ i > 1 /\ i < Len(field) /\ whole.end = i /\ fraction.end = Len(field) + 1
       /\ whole.value = parts \div FractionScale
       /\ fraction.value * FractionScale = (parts % FractionScale) * 10 ^ (Len(field) - i)

(* The numbers that printf and serial_printf can show: they take an int where *)
(* a long is meant, but for the serial line's x and p, and printf shows u     *)
(* with a sign.                                                               *)
OnTerminal(conv, value) ==
  CASE conv = 13 -> value \in Ints [] conv = 30 -> value <= INT_MAX [] OTHER -> value < UINT_MODULUS
OnSerial(conv, value) ==
  CASE conv = 13 -> value \in Ints [] conv = 30 -> value < UINT_MODULUS [] OTHER -> TRUE

(* The three formatters agree with the format: each directive takes its own   *)
(* argument and the text behind it is found (stdio.c:48-225, 250-402,         *)
(* serial.c:35-210).  And a field shows its argument, as wide as was asked:   *)
(*  - vsprintf and printk show every int, long, character and string.  They   *)
(*    do not know L and f, and the sign or the prefix of a number padded with *)
(*    zeros stands in their midst;                                            *)
(*  - printf shows characters, without their width, strings, and the numbers  *)
(*    of OnTerminal: a long only if it fits an int, and u only below INT_MAX. *)
(*    The prefix of x and p stands before the blanks of a width.  It shows f  *)
(*    of which the whole is an int, not negative, and the fraction, of one    *)
(*    digit here, has no 0 in front: that 0 would be missing;                 *)
(*  - serial_printf, which knows no width, o and f, and no null string, shows *)
(*    characters, strings and the numbers of OnSerial: d and u not as longs.  *)
(* Where both show a number without a width, the terminal and the serial line *)
(* show the same text, but for a 0 as x.                                      *)
PrintedExactly ==
  request.kind = "print" =>
    LET conv == request.conv  width == request.width  pad == request.pad  arg == request.arg
        args == <<arg, 5>>
        Value(bits) == IF conv = 13 THEN Signed(arg, bits) ELSE Unsigned(arg, bits)
        long == conv = 25 \/ request.length # <<>>
        bits == IF long THEN LongBits ELSE IntBits
        terminal == printf(Message(width), args)
        buffer == vsprintf(Message(width), args)
        serial == serial_printf(Message(0), args)
        number == conv \in NumberLetters
        whole == pad = 0 => Value(bits) >= 0
    IN /\ Framed(terminal, <<Newline>>)
       /\ conv = 28 => Field(terminal, 2) = Padded(StringOf(arg), width, pad)
       /\ conv = 12 => Field(terminal, 2) = <<arg>>
       /\ conv = 15 /\ arg \div FractionScale <= INT_MAX => ShowsFraction(Field(terminal, 2), arg)
       /\ number /\ whole /\ OnTerminal(conv, Value(bits))
            /\ (conv \in {LetterX, 25} /\ pad = Space => width <= 1) =>
              ShowsNumber(Field(terminal, 2), conv, Value(bits), width)
       /\ request.length # <<Upper(21)>> /\ conv # 15 =>
            /\ Framed(buffer, <<Newline>>) /\ Framed(printk(Message(width), args), <<Return, Newline>>)
            /\ conv = 28 => Field(buffer, 2) = Padded(StringOf(arg), width, pad)
            /\ conv = 12 => Field(buffer, 2) = Padded(<<arg>>, width, pad)
            /\ number /\ whole /\ (conv = 25 => pad = Space) =>
                 ShowsNumber(Field(buffer, 2), conv, Value(bits), width)
       /\ pad = Space /\ conv \notin {24, 15} /\ (conv = 28 => arg # NoString) =>
            /\ Framed(serial, <<Return, Newline>>)
            /\ conv = 28 => Field(serial, 3) = serial_write(arg)
            /\ conv = 12 => Field(serial, 3) = <<arg>>
            /\ number /\ OnSerial(conv, Value(bits)) => ShowsNumber(Field(serial, 3), conv, Value(bits), 0)
            /\ number /\ width = 0 /\ (conv # 25 => ~ long) /\ OnTerminal(conv, Value(bits))
                 /\ (conv = LetterX => arg % UINT_MODULUS # 0) =>
                   Field(serial, 3) = Field(terminal, 2)

(* The functions that the specification of the bus makes visible: those of a  *)
(* device that has a first one, and only that one unless its header says that *)
(* there are more; on the buses that lead to a host bridge.                   *)
Visible(machine) ==
  {p \in DOMAIN machine :
     /\ <<p[1], p[2], 0>> \in DOMAIN machine
     /\ p[3] = 0 \/ machine[<<p[1], p[2], 0>>].multi}
Reached(machine) ==
  LET R[b \in 0 .. 2] == b = 0 \/ \E p \in Visible(machine) : machine[p].secondary = b /\ R[p[1]]
  IN {p \in Visible(machine) : R[p[1]]}

(* The scan brings up every controller of the machine once, wherever bridges, *)
(* devices of several functions and second host bridges put it, provided the  *)
(* boot firmware numbered the buses (pci.c:83-187).  The size that is read    *)
(* from a memory register is that of its region, and the register keeps its   *)
(* address (pci.c:189-208).                                                   *)
PciScansOnce ==
  /\ request.kind = "machine" =>
       LET found == start_pci_enumeration(request.machine)
       IN /\ Range(found) = {p \in Reached(request.machine) : request.machine[p].class \in {"AHCI", "EHCI"}}
          /\ IsInjective(found)
  /\ request.kind = "bar" =>
       pci_get_bar_size(request.bar) = [size |-> request.bar.size, value |-> request.bar.value]

(* A delay that udelay reports as done lasted as long as was asked, in real   *)
(* time, up to what the code's rates lose (time.c:79-115, tsc.c:86-98,        *)
(* pit.c:64-88).  With the counter, less than a microsecond is missing, and   *)
(* less than one step is too much, on a processor of whole megahertz, also    *)
(* while the clock passes 2^32 microseconds; on another the part of a         *)
(* megahertz that the code drops is missing too, 12 percent at 3.4 MHz.       *)
(* udelay gives up only where the clock reads 0.  With the timer, no part of  *)
(* the delay is lost and twice a part fits the counter, but as the code takes *)
(* its 1.193 counts for one, up to a sixth of the time is missing.            *)
DelaysExact ==
  /\ request.kind = "delay" =>
       LET d == udelay(request.machine, request.tsc, request.step, request.micros)
           waited == 1000 * (d.tsc - request.tsc)
           rate == request.khz - (request.khz % 1000)
       IN /\ d.ret = 0 => /\ waited > (request.micros - 1) * rate
                          /\ waited <= request.micros * rate + 1000 * request.step
          /\ d.ret # 0 => get_time_us(request.machine.clock, d.tsc) = 0
  /\ request.kind = "timer" =>
       LET counts == udelay(request.machine, 0, 1, request.micros).counts
           total == FoldLeft(LAMBDA a, b : a + b, 0, counts)
           elapsed == (1000 * total) \div (PIT_FREQ \div 1000)
       IN /\ total = request.micros
          /\ elapsed <= request.micros /\ 6 * (elapsed + 1) >= 5 * request.micros
          /\ \A i \in DOMAIN counts : 2 * counts[i] \in 0 .. 65535
=============================================================================
