---------------------------- MODULE TermUnicode ----------------------------
(* How the terminal reads UTF-8 and how many cells a character takes: the    *)
(* decoder of flanterm_putchar, the glyph table unicode_to_cp437 and the     *)
(* width of a character without a glyph, mk_wcwidth.                         *)
EXTENDS Integers, Sequences
LOCAL INSTANCE SequencesExt

(* The characters with a glyph in the font, in the order of the glyphs 1 to   *)
(* 31 and 127 to 254.                                                         *)
Cp437 == <<
  \h263A, \h263B, \h2665, \h2666, \h2663, \h2660, \h2022, \h25D8, \h25CB, \h25D9, \h2642,
  \h2640, \h266A, \h266B, \h263C, \h25BA, \h25C4, \h2195, \h203C, \hB6, \hA7, \h25AC,
  \h21A8, \h2191, \h2193, \h2192, \h2190, \h221F, \h2194, \h25B2, \h25BC, \h2302, \hC7,
  \hFC, \hE9, \hE2, \hE4, \hE0, \hE5, \hE7, \hEA, \hEB, \hE8, \hEF,
  \hEE, \hEC, \hC4, \hC5, \hC9, \hE6, \hC6, \hF4, \hF6, \hF2, \hFB,
  \hF9, \hFF, \hD6, \hDC, \hA2, \hA3, \hA5, \h20A7, \h192, \hE1, \hED,
  \hF3, \hFA, \hF1, \hD1, \hAA, \hBA, \hBF, \h2310, \hAC, \hBD, \hBC,
  \hA1, \hAB, \hBB, \h2591, \h2592, \h2593, \h2502, \h2524, \h2561, \h2562, \h2556,
  \h2555, \h2563, \h2551, \h2557, \h255D, \h255C, \h255B, \h2510, \h2514, \h2534, \h252C,
  \h251C, \h2500, \h253C, \h255E, \h255F, \h255A, \h2554, \h2569, \h2566, \h2560, \h2550,
  \h256C, \h2567, \h2568, \h2564, \h2565, \h2559, \h2558, \h2552, \h2553, \h256B, \h256A,
  \h2518, \h250C, \h2588, \h2584, \h258C, \h2590, \h2580, \h3B1, \hDF, \h393, \h3C0,
  \h3A3, \h3C3, \hB5, \h3C4, \h3A6, \h398, \h3A9, \h3B4, \h221E, \h3C6, \h3B5,
  \h2229, \h2261, \hB1, \h2265, \h2264, \h2320, \h2321, \hF7, \h2248, \hB0, \h2219,
  \hB7, \h221A, \h207F, \hB2, \h25A0 >>

unicode_to_cp437(ucs) ==
  IF \E i \in DOMAIN Cp437 : Cp437[i] = ucs
    THEN LET i == CHOOSE i \in DOMAIN Cp437 : Cp437[i] = ucs IN IF i <= 31 THEN i ELSE i + 95
    ELSE -1

(* The first and last of each range of characters that take no cell.          *)
combining == <<
  <<\h300, \h36F>>, <<\h483, \h486>>, <<\h488, \h489>>, <<\h591, \h5BD>>, <<\h5BF, \h5BF>>,
  <<\h5C1, \h5C2>>, <<\h5C4, \h5C5>>, <<\h5C7, \h5C7>>, <<\h600, \h603>>, <<\h610, \h615>>,
  <<\h64B, \h65E>>, <<\h670, \h670>>, <<\h6D6, \h6E4>>, <<\h6E7, \h6E8>>, <<\h6EA, \h6ED>>,
  <<\h70F, \h70F>>, <<\h711, \h711>>, <<\h730, \h74A>>, <<\h7A6, \h7B0>>, <<\h7EB, \h7F3>>,
  <<\h901, \h902>>, <<\h93C, \h93C>>, <<\h941, \h948>>, <<\h94D, \h94D>>, <<\h951, \h954>>,
  <<\h962, \h963>>, <<\h981, \h981>>, <<\h9BC, \h9BC>>, <<\h9C1, \h9C4>>, <<\h9CD, \h9CD>>,
  <<\h9E2, \h9E3>>, <<\hA01, \hA02>>, <<\hA3C, \hA3C>>, <<\hA41, \hA42>>, <<\hA47, \hA48>>,
  <<\hA4B, \hA4D>>, <<\hA70, \hA71>>, <<\hA81, \hA82>>, <<\hABC, \hABC>>, <<\hAC1, \hAC5>>,
  <<\hAC7, \hAC8>>, <<\hACD, \hACD>>, <<\hAE2, \hAE3>>, <<\hB01, \hB01>>, <<\hB3C, \hB3C>>,
  <<\hB3F, \hB3F>>, <<\hB41, \hB43>>, <<\hB4D, \hB4D>>, <<\hB56, \hB56>>, <<\hB82, \hB82>>,
  <<\hBC0, \hBC0>>, <<\hBCD, \hBCD>>, <<\hC3E, \hC40>>, <<\hC46, \hC48>>, <<\hC4A, \hC4D>>,
  <<\hC55, \hC56>>, <<\hCBC, \hCBC>>, <<\hCBF, \hCBF>>, <<\hCC6, \hCC6>>, <<\hCCC, \hCCD>>,
  <<\hCE2, \hCE3>>, <<\hD41, \hD43>>, <<\hD4D, \hD4D>>, <<\hDCA, \hDCA>>, <<\hDD2, \hDD4>>,
  <<\hDD6, \hDD6>>, <<\hE31, \hE31>>, <<\hE34, \hE3A>>, <<\hE47, \hE4E>>, <<\hEB1, \hEB1>>,
  <<\hEB4, \hEB9>>, <<\hEBB, \hEBC>>, <<\hEC8, \hECD>>, <<\hF18, \hF19>>, <<\hF35, \hF35>>,
  <<\hF37, \hF37>>, <<\hF39, \hF39>>, <<\hF71, \hF7E>>, <<\hF80, \hF84>>, <<\hF86, \hF87>>,
  <<\hF90, \hF97>>, <<\hF99, \hFBC>>, <<\hFC6, \hFC6>>, <<\h102D, \h1030>>, <<\h1032, \h1032>>,
  <<\h1036, \h1037>>, <<\h1039, \h1039>>, <<\h1058, \h1059>>, <<\h1160, \h11FF>>, <<\h135F, \h135F>>,
  <<\h1712, \h1714>>, <<\h1732, \h1734>>, <<\h1752, \h1753>>, <<\h1772, \h1773>>, <<\h17B4, \h17B5>>,
  <<\h17B7, \h17BD>>, <<\h17C6, \h17C6>>, <<\h17C9, \h17D3>>, <<\h17DD, \h17DD>>, <<\h180B, \h180D>>,
  <<\h18A9, \h18A9>>, <<\h1920, \h1922>>, <<\h1927, \h1928>>, <<\h1932, \h1932>>, <<\h1939, \h193B>>,
  <<\h1A17, \h1A18>>, <<\h1B00, \h1B03>>, <<\h1B34, \h1B34>>, <<\h1B36, \h1B3A>>, <<\h1B3C, \h1B3C>>,
  <<\h1B42, \h1B42>>, <<\h1B6B, \h1B73>>, <<\h1DC0, \h1DCA>>, <<\h1DFE, \h1DFF>>, <<\h200B, \h200F>>,
  <<\h202A, \h202E>>, <<\h2060, \h2063>>, <<\h206A, \h206F>>, <<\h20D0, \h20EF>>, <<\h302A, \h302F>>,
  <<\h3099, \h309A>>, <<\hA806, \hA806>>, <<\hA80B, \hA80B>>, <<\hA825, \hA826>>, <<\hFB1E, \hFB1E>>,
  <<\hFE00, \hFE0F>>, <<\hFE20, \hFE23>>, <<\hFEFF, \hFEFF>>, <<\hFFF9, \hFFFB>>, <<\h10A01, \h10A03>>,
  <<\h10A05, \h10A06>>, <<\h10A0C, \h10A0F>>, <<\h10A38, \h10A3A>>, <<\h10A3F, \h10A3F>>, <<\h1D167, \h1D169>>,
  <<\h1D173, \h1D182>>, <<\h1D185, \h1D18B>>, <<\h1D1AA, \h1D1AD>>, <<\h1D242, \h1D244>>, <<\hE0001, \hE0001>>,
  <<\hE0020, \hE007F>>, <<\hE0100, \hE01EF>> >>

(* A search that stops when one interval is left.                             *)
HalveStopsEarly(ucs, table, s) ==
  IF s.max = s.min THEN s
  ELSE LET mid == (s.min + s.max) \div 2
       IN IF s.found \/ s.max < s.min THEN s
          ELSE IF ucs > table[mid + 1][2] THEN [s EXCEPT !.min = mid + 1]
          ELSE IF ucs < table[mid + 1][1] THEN [s EXCEPT !.max = mid - 1]
          ELSE [s EXCEPT !.found = TRUE]

(* The search of bisearch over table[min] .. table[max], a half at a time:    *)
(* log2 of the table's length steps, here 10 at most.                         *)
Halve(ucs, table, s) ==
  LET mid == (s.min + s.max) \div 2
  IN IF s.found \/ s.max < s.min THEN s
     ELSE IF ucs > table[mid + 1][2] THEN [s EXCEPT !.min = mid + 1]
     ELSE IF ucs < table[mid + 1][1] THEN [s EXCEPT !.max = mid - 1]
     ELSE [s EXCEPT !.found = TRUE]

bisearch(ucs, table, max) ==
  /\ table[1][1] <= ucs /\ ucs <= table[max + 1][2]
  /\ FoldLeft(LAMBDA s, i : Halve(ucs, table, s),
              [min |-> 0, max |-> max, found |-> FALSE], [i \in 1 .. 10 |-> i]).found

(* The characters two cells wide.                                             *)
Wide == {<<\h1100, \h115F>>, <<\h2329, \h232A>>, <<\h2E80, \h303E>>, <<\h3040, \hA4CF>>,
         <<\hAC00, \hD7A3>>, <<\hF900, \hFAFF>>, <<\hFE10, \hFE19>>, <<\hFE30, \hFE6F>>,
         <<\hFF00, \hFF60>>, <<\hFFE0, \hFFE6>>, <<\h20000, \h2FFFD>>, <<\h30000, \h3FFFD>>}
Within(ucs, ranges) == \E r \in ranges : r[1] <= ucs /\ ucs <= r[2]

mk_wcwidth(ucs) ==
  IF ucs = 0 THEN 0
  ELSE IF ucs < 32 \/ (ucs >= \h7F /\ ucs < \hA0) THEN 1
  ELSE IF bisearch(ucs, combining, Len(combining) - 1) THEN 0
  ELSE IF Within(ucs, Wide) THEN 2 ELSE 1

(* A glyph, or 0xfe followed by blanks for the width of the character.        *)
Cells(ucs) ==
  LET cc == unicode_to_cp437(ucs)
  IN IF cc # -1 THEN <<cc>>
     ELSE SubSeq(<<\hFE, 32>>, 1, mk_wcwidth(ucs))

(* One byte of text outside an escape sequence; control bytes print nothing    *)
(* here, their effect is in Flanterm.  A byte that does not continue a         *)
(* character starts a new one.                                                 *)
Lead(d, c) ==
  IF c \in \hC0 .. \hDF THEN [d EXCEPT !.remaining = 1, !.code_point = (c % 32) * 64]
  ELSE IF c \in \hE0 .. \hEF THEN [d EXCEPT !.remaining = 2, !.code_point = (c % 16) * 64 * 64]
  ELSE IF c \in \hF0 .. \hF7 THEN [d EXCEPT !.remaining = 3, !.code_point = (c % 8) * 64 * 64 * 64]
  ELSE [d EXCEPT !.cells = @ \o IF c \in \h20 .. \h7E THEN <<c>>
                                ELSE IF c >= \h80 THEN <<\hFE>> ELSE <<>>]

Continue(d, c) ==
  LET left == d.remaining - 1
      point == d.code_point + (c % 64) * 64 ^ left
  IN [remaining |-> left, code_point |-> point,
      cells |-> IF left = 0 THEN d.cells \o Cells(point) ELSE d.cells]

(* A decoder that drops the byte it did not expect.                           *)
PutDropping(d, c) ==
  IF d.remaining = 0 THEN Lead(d, c)
  ELSE IF c \div 64 # 2 THEN [d EXCEPT !.remaining = 0] ELSE Continue(d, c)

Put(d, c) ==
  IF d.remaining # 0 /\ c \div 64 = 2 THEN Continue(d, c)
  ELSE Lead([d EXCEPT !.remaining = 0], c)

Decoded(bytes) ==
  FoldLeft(LAMBDA d, c : Put(d, c), [remaining |-> 0, code_point |-> 0, cells |-> <<>>], bytes).cells
-----------------------------------------------------------------------------
(* The UTF-8 encoding of a character.                                         *)
Encoded(ucs) ==
  IF ucs < \h80 THEN <<ucs>>
  ELSE IF ucs < \h800 THEN <<\hC0 + (ucs \div 64), \h80 + (ucs % 64)>>
  ELSE IF ucs < \h10000
    THEN <<\hE0 + (ucs \div 4096), \h80 + ((ucs \div 64) % 64), \h80 + (ucs % 64)>>
  ELSE <<\hF0 + (ucs \div 262144), \h80 + ((ucs \div 4096) % 64), \h80 + ((ucs \div 64) % 64),
         \h80 + (ucs % 64)>>

(* The cells a character should take, by looking at every range.              *)
ReferenceWidth(ucs) ==
  IF Within(ucs, {combining[i] : i \in DOMAIN combining}) THEN 0
  ELSE IF Within(ucs, Wide) THEN 2 ELSE 1
=============================================================================
