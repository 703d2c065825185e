---------------------------- MODULE ShellProofs ----------------------------
(***************************************************************************)
(* The shell's line, for a buffer of any size, any alphabet and commands,  *)
(* and any sequence of characters typed.                                   *)
(***************************************************************************)
EXTENDS Shell, SequenceTheorems, WellFoundedInduction, TLAPS

IInv == LineTypeOK /\ ScreenShowsLine

-----------------------------------------------------------------------------
(* What Min returns.                                                       *)
LEMMA NatHasLeast ==
  ASSUME NEW S \in SUBSET Nat, S # {}
  PROVE  \E m \in S : \A y \in S : m <= y
  <1> DEFINE R == OpToRel(<, Nat)
  <1>1. IsWellFoundedOn(R, Nat)
    BY NatLessThanWellFounded
  <1>2. \A a, b \in Nat : a < b => <<a, b>> \in R
    BY DEF OpToRel
  <1> HIDE DEF R
  <1>3. PICK m \in S : \A y \in S : ~ (<<y, m>> \in R)
    BY ZenonT(60), <1>1, WFMin
  <1>4. ASSUME NEW y \in S PROVE m <= y
    <2>1. ~ (y < m)
      BY ZenonT(60), <1>2, <1>3
    <2>2. m \in Nat /\ y \in Nat
      OBVIOUS
    <2>3. QED
      BY <2>1, <2>2
  <1>5. QED
    BY <1>4

LEMMA MinOfNats ==
  ASSUME NEW S \in SUBSET Nat, S # {}
  PROVE  Min(S) \in S /\ \A y \in S : Min(S) <= y
  BY ZenonT(60), NatHasLeast DEF Min

LEMMA MinIs ==
  ASSUME NEW S \in SUBSET Nat, NEW m \in S, \A y \in S : m <= y
  PROVE  Min(S) = m
  <1>1. Min(S) \in S /\ \A y \in S : Min(S) <= y
    BY MinOfNats
  <1>2. Min(S) <= m /\ m <= Min(S) /\ Min(S) \in Nat /\ m \in Nat
    BY ZenonT(60), <1>1
  <1>3. QED
    BY <1>2

-----------------------------------------------------------------------------
(* The line.                                                               *)
LEMMA InitIInv == ShellConstants /\ ShellInit => IInv
  BY EmptySeq DEF ShellConstants, ShellInit, IInv, LineTypeOK, ScreenShowsLine, Index

LEMMA EnterKeeps ==
  ASSUME ShellConstants, IInv, Enter
  PROVE  IInv'
  <1>1. NUL \in Printable \cup {NUL}
    OBVIOUS
  <1>2. [buffer EXCEPT ![pos] = NUL] \in [Index -> Printable \cup {NUL}]
    BY DEF IInv, LineTypeOK
  <1>3. buffer' \in [Index -> Printable \cup {NUL}]
    BY ZenonT(60), <1>2 DEF Enter, execute
  <1>4. halted' \in BOOLEAN
    BY ZenonT(60) DEF Enter, execute, IInv, LineTypeOK
  <1>5. pos' = 0 /\ shown' = <<>>
    BY DEF Enter
  <1>6. 0 \in Index
    BY DEF Index, ShellConstants
  <1>7. QED
    BY <1>3, <1>4, <1>5, <1>6, EmptySeq DEF IInv, LineTypeOK, ScreenShowsLine

LEMMA EraseKeeps ==
  ASSUME ShellConstants, IInv, Erase
  PROVE  IInv'
  <1>1. CASE pos > 0
    <2>1. pos' = pos - 1 /\ shown' = SubSeq(shown, 1, Len(shown) - 1)
      BY <1>1 DEF Erase
    <2>2. Len(shown) = pos /\ pos \in Nat /\ shown \in Seq(Printable)
      BY DEF IInv, LineTypeOK, ScreenShowsLine, Index
    <2>3. \A i \in 1 .. Len(shown) - 1 : shown[i] \in Printable
      BY <2>2, ElementOfSeq
    <2>4. /\ shown' \in Seq(Printable) /\ Len(shown') = pos'
          /\ \A i \in 1 .. pos' : shown'[i] = shown[i]
      BY <1>1, <2>1, <2>2, <2>3, SubSeqProperties
    <2>5. pos' \in Index
      BY <1>1, <2>1 DEF IInv, LineTypeOK, Index, ShellConstants
    <2>6. \A i \in 1 .. pos' : shown'[i] = buffer'[i - 1]
      BY <2>1, <2>2, <2>4 DEF IInv, ScreenShowsLine, Erase
    <2>7. QED
      BY <2>4, <2>5, <2>6 DEF Erase, IInv, LineTypeOK, ScreenShowsLine
  <1>2. CASE ~ pos > 0
    BY <1>2 DEF Erase, IInv, LineTypeOK, ScreenShowsLine
  <1>3. QED
    BY <1>1, <1>2

LEMMA AcceptKeeps ==
  ASSUME ShellConstants, IInv, NEW c \in Printable, Accept(c)
  PROVE  IInv'
  <1>1. CASE Fits
    <2>1. /\ pos' = pos + 1 /\ shown' = Append(shown, c)
          /\ buffer' = [buffer EXCEPT ![pos] = c]
      BY <1>1 DEF Accept
    <2>2. /\ pos \in Index /\ pos + 1 \in Index /\ pos \in Nat
          /\ Len(shown) = pos /\ shown \in Seq(Printable)
      BY <1>1 DEF Fits, IInv, LineTypeOK, ScreenShowsLine, Index, ShellConstants
    <2>3. /\ shown' \in Seq(Printable) /\ Len(shown') = pos'
          /\ \A i \in 1 .. pos : shown'[i] = shown[i]
          /\ shown'[pos + 1] = c
      BY <2>1, <2>2, AppendProperties
    <2>4. /\ buffer' \in [Index -> Printable \cup {NUL}]
          /\ buffer'[pos] = c
          /\ \A j \in Index : j # pos => buffer'[j] = buffer[j]
      BY <2>1, <2>2 DEF IInv, LineTypeOK
    <2>5. ASSUME NEW i \in 1 .. pos' PROVE shown'[i] = buffer'[i - 1]
      <3>1. CASE i = pos + 1
        BY <2>2, <2>3, <2>4, <3>1
      <3>2. CASE i \in 1 .. pos
        <4>1. i - 1 \in Index /\ i - 1 # pos
          BY <2>2, <3>2 DEF Index, ShellConstants
        <4>2. QED
          BY <2>3, <2>4, <3>2, <4>1 DEF IInv, ScreenShowsLine
      <3>3. QED
        BY <2>1, <2>2, <3>1, <3>2
    <2>6. QED
      BY SMTT(60), <2>1, <2>2, <2>3, <2>4, <2>5 DEF Accept, IInv, LineTypeOK, ScreenShowsLine
  <1>2. CASE ~ Fits
    BY <1>2 DEF Accept, IInv, LineTypeOK, ScreenShowsLine
  <1>3. QED
    BY <1>1, <1>2

LEMMA StepIInv ==
  ASSUME ShellConstants, IInv, [ShellNext]_shell_vars
  PROVE  IInv'
  <1>1. CASE UNCHANGED shell_vars
    BY <1>1 DEF shell_vars, IInv, LineTypeOK, ScreenShowsLine
  <1>2. CASE ShellNext
    BY <1>1, <1>2, EnterKeeps, EraseKeeps, AcceptKeeps DEF ShellNext, shell_main, Ignore
  <1>3. QED
    BY <1>1, <1>2

(* For every buffer size, alphabet, set of commands, initial contents of    *)
(* buffer[] and sequence of characters that getc returns: the line on the   *)
(* screen is the line in the buffer (shell.c:212-227).                      *)
THEOREM ShellScreenShowsLine ==
  ASSUME ShellConstants
  PROVE  ShellSpec => []ScreenShowsLine
  <1>1. ShellInit => IInv
    BY InitIInv
  <1>2. IInv /\ [ShellNext]_shell_vars => IInv'
    BY StepIInv
  <1>3. IInv => ScreenShowsLine
    BY DEF IInv
  <1>4. QED
    BY <1>1, <1>2, <1>3, PTL DEF ShellSpec

-----------------------------------------------------------------------------
(* What execute makes of a buffer that holds the line s.                   *)
Holds(b, s) ==
  /\ b \in [Index -> Printable \cup {NUL}]
  /\ s \in Seq(Printable) /\ Len(s) \in Index
  /\ b[Len(s)] = NUL
  /\ \A j \in 0 .. Len(s) - 1 : b[j] = s[j + 1] /\ b[j] \in Printable

LEMMA SkipSpacesStops ==
  ASSUME ShellConstants, NEW b, NEW s, Holds(b, s), NEW i \in 0 .. Len(s)
  PROVE  /\ SkipSpaces(b, i) \in i .. Len(s)
         /\ b[SkipSpaces(b, i)] # SPACE
         /\ \A j \in i .. SkipSpaces(b, i) - 1 : b[j] = SPACE
  <1> DEFINE S == {j \in Index : j >= i /\ b[j] # SPACE}
             n == Len(s)
             m == Min(S)
  <1>1. n \in Nat /\ n \in Index /\ Index \subseteq Nat /\ i \in 0 .. n
    BY DEF Holds, Index, ShellConstants
  <1>2. NUL # SPACE /\ b[n] = NUL
    BY DEF ShellConstants, Holds
  <1> HIDE DEF n
  <1>3. S \in SUBSET Nat
    BY ZenonT(60), <1>1
  <1>4. n \in S
    BY <1>1, <1>2
  <1> HIDE DEF S
  <1>5. m \in S /\ m <= n /\ \A y \in S : m <= y
    BY <1>3, <1>4, MinOfNats
  <1>6. SkipSpaces(b, i) = m
    BY DEF SkipSpaces, S
  <1> HIDE DEF m
  <1>7. m \in Index /\ m >= i /\ b[m] # SPACE
    BY <1>5 DEF S
  <1>8. ASSUME NEW j \in i .. m - 1 PROVE b[j] = SPACE
    <2>1. j \in Nat /\ m \in Nat /\ ~ (m <= j) /\ j \in Index /\ j >= i
      BY <1>1, <1>7 DEF Index, ShellConstants
    <2>2. j \notin S
      BY <1>5, <2>1
    <2>3. QED
      BY <2>1, <2>2 DEF S
  <1>9. m \in i .. n
    BY <1>1, <1>5, <1>7
  <1>10. QED
    BY <1>6, <1>7, <1>8, <1>9 DEF n

LEMMA WordEndStops ==
  ASSUME ShellConstants, NEW b, NEW s, Holds(b, s), NEW i \in 0 .. Len(s)
  PROVE  /\ WordEnd(b, i) \in i .. Len(s)
         /\ b[WordEnd(b, i)] \in {SPACE, NUL}
         /\ \A j \in i .. WordEnd(b, i) - 1 : b[j] \notin {SPACE, NUL}
  <1> DEFINE S == {j \in Index : j >= i /\ b[j] \in {SPACE, NUL}}
             n == Len(s)
             m == Min(S)
  <1>1. n \in Nat /\ n \in Index /\ Index \subseteq Nat /\ i \in 0 .. n
    BY DEF Holds, Index, ShellConstants
  <1>2. NUL # SPACE /\ b[n] = NUL
    BY DEF ShellConstants, Holds
  <1> HIDE DEF n
  <1>3. S \in SUBSET Nat
    BY ZenonT(60), <1>1
  <1>4. n \in S
    BY <1>1, <1>2
  <1> HIDE DEF S
  <1>5. m \in S /\ m <= n /\ \A y \in S : m <= y
    BY <1>3, <1>4, MinOfNats
  <1>6. WordEnd(b, i) = m
    BY DEF WordEnd, S
  <1> HIDE DEF m
  <1>7. m \in Index /\ m >= i /\ b[m] \in {SPACE, NUL}
    BY <1>5 DEF S
  <1>8. ASSUME NEW j \in i .. m - 1 PROVE b[j] \notin {SPACE, NUL}
    <2>1. j \in Nat /\ m \in Nat /\ ~ (m <= j) /\ j \in Index /\ j >= i
      BY <1>1, <1>7 DEF Index, ShellConstants
    <2>2. j \notin S
      BY <1>5, <2>1
    <2>3. QED
      BY <2>1, <2>2 DEF S
  <1>9. m \in i .. n
    BY <1>1, <1>5, <1>7
  <1>10. QED
    BY <1>6, <1>7, <1>8, <1>9 DEF n

LEMMA StringIs ==
  ASSUME ShellConstants, NEW b, NEW i \in Index, NEW e \in Index, i <= e,
         b[e] = NUL, \A j \in i .. e - 1 : b[j] # NUL
  PROVE  String(b, i) = [k \in 1 .. e - i |-> b[i + k - 1]]
  <1> DEFINE S == {j \in Index : j >= i /\ b[j] = NUL}
  <1>1. S \in SUBSET Nat /\ e \in S
    BY DEF Index, ShellConstants
  <1>2. \A y \in S : e <= y
    BY <1>1 DEF Index, ShellConstants
  <1>3. StringEnd(b, i) = e
    BY <1>1, <1>2, MinIs DEF StringEnd
  <1>4. QED
    BY <1>3 DEF String

LEMMA TrimIs ==
  ASSUME NEW t \in Seq(Printable), NEW k \in 1 .. Len(t) + 1,
         \A i \in 1 .. k - 1 : t[i] = SPACE,
         k <= Len(t) => t[k] # SPACE
  PROVE  Trim(t) = SubSeq(t, k, Len(t))
  <1> DEFINE S == {i \in 1 .. Len(t) : t[i] # SPACE} \cup {Len(t) + 1}
  <1>1. Len(t) \in Nat
    BY LenProperties
  <1>2. S \in SUBSET Nat /\ k \in S /\ \A y \in S : k <= y
    BY <1>1
  <1>3. Min(S) = k
    BY <1>2, MinIs
  <1>4. QED
    BY ZenonT(60), <1>3 DEF Trim

(* Sequences, one of them written as a function, with the same elements.   *)
LEMMA SameSequence ==
  ASSUME NEW t \in Seq(Printable), NEW f, NEW n \in Nat, Len(t) = n,
         DOMAIN f = 1 .. n, f = [k \in 1 .. n |-> f[k]], \A k \in 1 .. n : f[k] = t[k]
  PROVE  f = t
  BY LenProperties

LEMMA ExecuteMeans ==
  ASSUME ShellConstants, NEW b, NEW s, Holds(b, s), execute(b)
  PROVE  ran' = Meaning(s)
  <1> DEFINE n == Len(s)
             word == SkipSpaces(b, 0)
             end == WordEnd(b, word)
             cut == [b EXCEPT ![end] = NUL]
             args == IF b[end] = NUL THEN end ELSE SkipSpaces(b, end + 1)
             line == Trim(s)
             blanks == {i \in 1 .. Len(line) : line[i] = SPACE}
             sel == IF blanks # {} THEN Min(blanks) ELSE 0
             done == Does(get_command(String(cut, word)), String(cut, word), String(cut, args))
             first == IF sel = 0 THEN line ELSE SubSeq(line, 1, sel - 1)
             rest == IF sel = 0 THEN <<>> ELSE Trim(SubSeq(line, sel, Len(line)))
  <1>1. ran' = IF b[word] = NUL THEN [command |-> "NONE", args |-> <<>>] ELSE done
    BY DEF execute
  <1>2. Meaning(s) = IF line = <<>> THEN [command |-> "NONE", args |-> <<>>]
                                    ELSE Does(get_command(first), first, rest)
    BY DEF Meaning
  <1>3. /\ word \in 0 .. n /\ b[word] # SPACE
        /\ \A j \in 0 .. word - 1 : b[j] = SPACE
    <2>1. 0 \in 0 .. Len(s)
      BY DEF Holds, Index, ShellConstants
    <2>2. QED
      BY <2>1, SkipSpacesStops
  <1>4. /\ end \in word .. n /\ b[end] \in {SPACE, NUL}
        /\ \A j \in word .. end - 1 : b[j] \notin {SPACE, NUL}
    BY <1>3, WordEndStops
  <1>5. /\ n \in Nat /\ n \in Index /\ 0 .. n \subseteq Index /\ DOMAIN b = Index
        /\ b[n] = NUL /\ s \in Seq(Printable) /\ Len(s) = n
        /\ \A j \in 0 .. n - 1 : b[j] = s[j + 1] /\ b[j] \in Printable /\ b[j] # NUL
    BY DEF Holds, Index, ShellConstants
  <1>6. args = IF b[end] = NUL THEN end ELSE SkipSpaces(b, end + 1)
    OBVIOUS
  <1>7. end < n => /\ SkipSpaces(b, end + 1) \in end + 1 .. n /\ b[SkipSpaces(b, end + 1)] # SPACE
                   /\ \A j \in end + 1 .. SkipSpaces(b, end + 1) - 1 : b[j] = SPACE
    <2>1. end < n => end + 1 \in 0 .. n
      BY <1>3, <1>4, <1>5
    <2>2. QED
      BY <2>1, SkipSpacesStops
  <1> HIDE DEF n, word, end, args
  <1>8. line = SubSeq(s, word + 1, n)
    <2>1. word + 1 \in 1 .. Len(s) + 1
      BY <1>3, <1>5
    <2>2. ASSUME NEW i \in 1 .. word PROVE s[i] = SPACE
      <3>1. i - 1 \in 0 .. word - 1 /\ i - 1 \in 0 .. n - 1 /\ (i - 1) + 1 = i
        BY <1>3, <1>5
      <3>2. QED
        BY ZenonT(60), <1>3, <1>5, <3>1
    <2>3. word + 1 <= n => s[word + 1] # SPACE
      BY <1>3, <1>5
    <2> DEFINE k == word + 1
    <2>4. /\ k \in 1 .. Len(s) + 1 /\ \A i \in 1 .. k - 1 : s[i] = SPACE
          /\ k <= Len(s) => s[k] # SPACE
      BY <1>3, <1>5, <2>1, <2>2, <2>3
    <2> HIDE DEF k
    <2>5. line = SubSeq(s, k, Len(s))
      BY ZenonT(60), <1>5, <2>4, TrimIs
    <2>6. QED
      BY <1>5, <2>5 DEF k
  <1>9. /\ line \in Seq(Printable) /\ Len(line) = n - word
        /\ \A k \in 1 .. n - word : line[k] = b[word + k - 1]
    <2>1. \A i \in word + 1 .. n : s[i] \in Printable
      BY <1>3, <1>5, ElementOfSeq
    <2>2. /\ line \in Seq(Printable) /\ Len(line) = IF word + 1 <= n THEN n - (word + 1) + 1 ELSE 0
          /\ \A k \in 1 .. n - (word + 1) + 1 : line[k] = s[word + 1 + k - 1]
      BY SMTT(60), <1>3, <1>5, <1>8, <2>1, SubSeqProperties
    <2>3. \A k \in 1 .. n - word : s[word + 1 + k - 1] = b[word + k - 1]
      BY <1>3, <1>5
    <2>4. QED
      BY <1>3, <1>5, <2>2, <2>3

  <1> HIDE DEF line, sel, first, rest, cut
  <1>10. CASE b[word] = NUL
    <2>1. word = n
      BY <1>3, <1>5, <1>10
    <2>2. line = <<>>
      BY <1>5, <1>9, <2>1, EmptySeq
    <2>3. QED
      BY <1>1, <1>2, <1>10, <2>2
  <1>11. sel = IF blanks # {} THEN Min(blanks) ELSE 0
    BY DEF sel
  <1>12. CASE b[word] # NUL
    <2>1. word < n /\ word < end /\ word \in Nat /\ end \in Nat /\ end <= n
      BY <1>3, <1>4, <1>5, <1>12
    <2>2. line # <<>>
      BY <1>5, <1>9, <2>1, EmptySeq
    <2>3. /\ DOMAIN cut = Index /\ cut[end] = NUL
          /\ \A j \in Index : j # end => cut[j] = b[j]
      BY <1>5, <2>1 DEF cut
    <2>4. String(cut, word) = [k \in 1 .. end - word |-> cut[word + k - 1]]
      <3>1. word \in Index /\ end \in Index /\ word <= end
        BY <1>5, <2>1
      <3>2. ASSUME NEW j \in word .. end - 1 PROVE cut[j] # NUL
        <4>1. j \in Index /\ j # end
          BY <1>5, <2>1
        <4>2. QED
          BY <1>4, <2>3, <4>1
      <3>3. QED
        BY SMTT(60), <2>3, <3>1, <3>2, StringIs
    <2>5. ASSUME end = n
          PROVE  String(cut, word) = first /\ String(cut, args) = rest
      <3>1. sel = 0
        <4>1. ASSUME NEW i \in 1 .. Len(line) PROVE line[i] # SPACE
          <5>1. word + i - 1 \in word .. end - 1 /\ line[i] = b[word + i - 1]
            BY <1>9, <2>1, <2>5
          <5>2. QED
            BY <1>4, <5>1
        <4>2. blanks = {}
          BY <4>1
        <4>3. QED
          BY <1>11, <4>2
      <3>2. first = line /\ rest = <<>>
        BY <3>1 DEF first, rest
      <3>3. ASSUME NEW k \in 1 .. end - word PROVE cut[word + k - 1] = line[k]
        <4>1. word + k - 1 \in 0 .. n /\ word + k - 1 # end
          BY <2>1, <2>5
        <4>2. QED
          BY <1>5, <1>9, <2>3, <2>5, <4>1
      <3>4. String(cut, word) = line
        <4> DEFINE f == String(cut, word)
        <4>1. /\ f = [k \in 1 .. end - word |-> f[k]] /\ DOMAIN f = 1 .. end - word
              /\ \A k \in 1 .. end - word : f[k] = line[k]
          BY <2>4, <3>3
        <4>2. end - word \in Nat /\ Len(line) = end - word
          BY <1>9, <2>1, <2>5
        <4> HIDE DEF f
        <4>3. f = line
          BY SMTT(60), <1>9, <4>1, <4>2, SameSequence
        <4>4. QED
          BY <4>3 DEF f
      <3>5. args = end
        BY <1>5, <1>6, <2>5
      <3>6. String(cut, end) = [k \in 1 .. end - end |-> cut[end + k - 1]]
        <4>1. end \in Index /\ end <= end /\ \A j \in end .. end - 1 : cut[j] # NUL
          BY <1>5, <2>1, <2>5
        <4>2. QED
          BY <2>3, <4>1, StringIs
      <3>7. String(cut, end) = <<>>
        <4>1. 1 .. end - end = {}
          BY <2>1
        <4>2. QED
          BY <3>6, <4>1
      <3>8. QED
        BY SMTT(60), <3>2, <3>4, <3>5, <3>7
    <2>6. ASSUME end < n
          PROVE  String(cut, word) = first /\ String(cut, args) = rest
      <3> DEFINE m == end - word + 1
                 a == SkipSpaces(b, end + 1)
                 t == SubSeq(line, m, n - word)
                 q == a - end + 1
      <3>1. b[end] = SPACE
        BY SMTT(60), <1>4, <1>5, <2>1, <2>6
      <3>2. /\ a \in end + 1 .. n /\ b[a] # SPACE /\ \A j \in end + 1 .. a - 1 : b[j] = SPACE
            /\ args = a
        <4>1. NUL # SPACE
          BY DEF ShellConstants
        <4>2. QED
          BY SMTT(60), <1>6, <1>7, <2>6, <3>1, <4>1
      <3> HIDE DEF a
      <3>3. sel = m /\ m \in 2 .. n - word
        <4>1. m \in 2 .. n - word /\ Len(line) = n - word /\ word + m - 1 = end
          BY SMTT(60), <1>5, <1>9, <2>1, <2>6
        <4>2. m \in blanks
          BY SMTT(60), <1>9, <3>1, <4>1
        <4>3. ASSUME NEW y \in blanks PROVE m <= y
          <5>1. y \in 1 .. n - word /\ b[word + y - 1] = SPACE
            BY <1>9, <4>1
          <5>2. word + y - 1 \notin word .. end - 1
            BY <1>4, <5>1
          <5>3. QED
            BY SMTT(60), <1>5, <2>1, <5>1, <5>2
        <4>4. blanks \in SUBSET Nat
          BY <1>9
        <4> HIDE DEF m, blanks
        <4>5. Min(blanks) = m
          BY SMTT(60), <4>2, <4>3, <4>4, MinIs
        <4>6. QED
          BY SMTT(60), <1>11, <4>1, <4>2, <4>5
      <3>4. first = SubSeq(line, 1, m - 1) /\ rest = Trim(t)
        BY <1>9, <3>3 DEF first, rest
      <3>5. String(cut, word) = first
        <4>1. \A i \in 1 .. m - 1 : line[i] \in Printable
          BY SMTT(60), <1>9, <2>1, <3>3, ElementOfSeq
        <4>2. /\ first \in Seq(Printable) /\ Len(first) = end - word
              /\ \A k \in 1 .. end - word : first[k] = line[k]
          <5> DEFINE h == m - 1
          <5>1. /\ h = end - word /\ 1 <= h /\ h \in Int /\ 1 \in Int /\ h - 1 + 1 = h
                /\ \A k \in 1 .. h : 1 + k - 1 = k
            BY <2>1
          <5>2. first = SubSeq(line, 1, h) /\ \A i \in 1 .. h : line[i] \in Printable
            BY <3>4, <4>1
          <5> HIDE DEF h
          <5>3. /\ first \in Seq(Printable) /\ Len(first) = h
                /\ \A k \in 1 .. h : first[k] = line[1 + k - 1]
            BY <5>1, <5>2, SubSeqProperties
          <5>4. QED
            BY <5>1, <5>3
        <4>3. ASSUME NEW k \in 1 .. end - word PROVE cut[word + k - 1] = first[k]
          <5>1. word + k - 1 \in 0 .. n /\ word + k - 1 # end /\ k \in 1 .. n - word
            BY SMTT(60), <1>5, <2>1
          <5>2. QED
            BY SMTT(60), <1>5, <1>9, <2>3, <4>2, <5>1
        <4> DEFINE f == String(cut, word)
        <4>4. /\ f = [k \in 1 .. end - word |-> f[k]] /\ DOMAIN f = 1 .. end - word
              /\ \A k \in 1 .. end - word : f[k] = first[k]
          BY <2>4, <4>3
        <4>5. end - word \in Nat
          BY <2>1
        <4> HIDE DEF f
        <4>6. f = first
          BY SMTT(60), <4>2, <4>4, <4>5, SameSequence
        <4>7. QED
          BY <4>6 DEF f
      <3>6. /\ t \in Seq(Printable) /\ Len(t) = n - end
            /\ \A k \in 1 .. n - end : t[k] = b[end + k - 1]
        <4> DEFINE h == n - word
        <4>1. \A i \in m .. h : line[i] \in Printable
          BY SMTT(60), <1>5, <1>9, <2>1, <3>3, ElementOfSeq
        <4>2. m \in Int /\ h \in Int /\ m <= h /\ h - m + 1 = n - end
          BY SMTT(60), <1>5, <2>1, <2>6
        <4>3. t = SubSeq(line, m, h)
          OBVIOUS
        <4>4. \A k \in 1 .. n - end : line[m + k - 1] = b[end + k - 1]
          <5>1. ASSUME NEW k \in 1 .. n - end
                PROVE  m + k - 1 \in 1 .. n - word /\ word + (m + k - 1) - 1 = end + k - 1
            BY SMTT(60), <1>5, <2>1, <2>6
          <5>2. QED
            BY <1>9, <5>1
        <4> HIDE DEF m, h, t
        <4>5. /\ t \in Seq(Printable) /\ Len(t) = h - m + 1
              /\ \A k \in 1 .. h - m + 1 : t[k] = line[m + k - 1]
          BY SMTT(60), <4>1, <4>2, <4>3, SubSeqProperties
        <4>6. QED
          BY SMTT(60), <4>2, <4>4, <4>5
      <3> HIDE DEF t
      <3>7. rest = SubSeq(t, q, n - end) /\ q \in 2 .. n - end + 1
        <4>1. q \in 2 .. n - end + 1
          BY SMTT(60), <1>5, <2>1, <2>6, <3>2
        <4>2. ASSUME NEW i \in 1 .. q - 1 PROVE t[i] = SPACE
          <5>1. i \in 1 .. n - end /\ (i = 1 => end + i - 1 = end)
                /\ (i # 1 => end + i - 1 \in end + 1 .. a - 1)
            BY SMTT(60), <1>5, <2>1, <2>6, <3>2
          <5>2. QED
            BY SMTT(60), <3>1, <3>2, <3>6, <5>1
        <4>3. q <= n - end => t[q] # SPACE
          <5>1. end + q - 1 = a /\ (q <= n - end => q \in 1 .. n - end)
            BY SMTT(60), <1>5, <2>1, <3>2, <4>1
          <5>2. QED
            BY SMTT(60), <3>2, <3>6, <5>1
        <4>4. /\ q \in 1 .. Len(t) + 1
              /\ q <= Len(t) => t[q] # SPACE
          BY SMTT(60), <1>5, <2>1, <3>6, <4>1, <4>3
        <4> HIDE DEF q
        <4>5. Trim(t) = SubSeq(t, q, Len(t))
          BY ZenonT(60), <3>6, <4>2, <4>4, TrimIs
        <4>6. QED
          BY SMTT(60), <3>4, <3>6, <4>1, <4>5
      <3>8. /\ rest \in Seq(Printable) /\ Len(rest) = n - a
            /\ \A k \in 1 .. n - a : rest[k] = b[a + k - 1]
        <4> DEFINE h == n - end
        <4>1. \A i \in q .. h : t[i] \in Printable
          BY SMTT(60), <1>5, <2>1, <3>6, <3>7, ElementOfSeq
        <4>2. /\ q \in Int /\ h \in Int /\ h - q + 1 = n - a
              /\ (IF q <= h THEN h - q + 1 ELSE 0) = n - a
          <5>1. a \in Int /\ end \in Int /\ n \in Int /\ end < a /\ a <= n
            BY <1>5, <2>1, <3>2
          <5>2. QED
            BY ONLY <5>1
        <4>3. rest = SubSeq(t, q, h)
          BY <3>7
        <4>4. \A k \in 1 .. n - a : t[q + k - 1] = b[a + k - 1]
          <5>1. ASSUME NEW k \in 1 .. n - a
                PROVE  q + k - 1 \in 1 .. n - end /\ end + (q + k - 1) - 1 = a + k - 1
            <6>1. a \in Int /\ end \in Int /\ n \in Int /\ end < a /\ a <= n
              BY SMTT(60), <1>5, <2>1, <3>2
            <6>2. QED
              BY <6>1
          <5>2. QED
            BY <3>6, <5>1
        <4> HIDE DEF q, h
        <4>5. /\ rest \in Seq(Printable) /\ Len(rest) = IF q <= h THEN h - q + 1 ELSE 0
              /\ \A k \in 1 .. h - q + 1 : rest[k] = t[q + k - 1]
          BY SMTT(60), <4>1, <4>2, <4>3, SubSeqProperties
        <4>6. QED
          BY <4>2, <4>4, <4>5
      <3>9. String(cut, a) = rest
        <4>1. /\ a \in Index /\ n \in Index /\ a <= n /\ a \in Nat /\ end < a /\ end \in Nat /\ n \in Nat
          BY SMTT(60), <1>5, <2>1, <3>2
        <4>2. ASSUME NEW j \in a .. n PROVE cut[j] = b[j]
          <5>1. j \in 0 .. n /\ j # end
            BY <4>1
          <5>2. QED
            BY <1>5, <2>3, <5>1
        <4>3. cut[n] = NUL /\ \A j \in a .. n - 1 : cut[j] # NUL
          BY SMTT(60), <1>5, <4>1, <4>2
        <4>4. String(cut, a) = [k \in 1 .. n - a |-> cut[a + k - 1]]
          BY SMTT(60), <4>1, <4>3, StringIs
        <4>5. ASSUME NEW k \in 1 .. n - a PROVE cut[a + k - 1] = rest[k]
          <5>1. a + k - 1 \in a .. n
            BY <4>1
          <5>2. QED
            BY <3>8, <4>2, <5>1
        <4> DEFINE f == String(cut, a)
        <4>6. /\ f = [k \in 1 .. n - a |-> f[k]] /\ DOMAIN f = 1 .. n - a
              /\ \A k \in 1 .. n - a : f[k] = rest[k]
          BY <4>4, <4>5
        <4>7. n - a \in Nat
          BY <4>1
        <4> HIDE DEF f
        <4>8. f = rest
          BY SMTT(60), <3>8, <4>6, <4>7, SameSequence
        <4>9. QED
          BY <4>8 DEF f
      <3>10. QED
        BY SMTT(60), <3>2, <3>5, <3>9
    <2>7. String(cut, word) = first /\ String(cut, args) = rest
      BY <1>5, <2>1, <2>5, <2>6
    <2>8. QED
      BY SMTT(60), <1>1, <1>2, <1>12, <2>2, <2>7
  <1>13. QED
    BY <1>10, <1>12

-----------------------------------------------------------------------------
(* For every buffer size, alphabet, set of commands, initial contents of    *)
(* buffer[] and sequence of characters typed before: Enter runs the first   *)
(* word on the screen with what follows the blanks after it, whatever       *)
(* earlier lines have left behind in the buffer (shell.c:229-231, 127-145). *)
THEOREM ShellRunsWhatIsShown ==
  ASSUME ShellConstants
  PROVE  ShellSpec => RunsWhatIsShown
  <1>1. ShellInit => IInv
    BY InitIInv
  <1>2. IInv /\ [ShellNext]_shell_vars => IInv'
    BY StepIInv
  <1>3. IInv /\ [ShellNext]_shell_vars => [Enter => ran' = Meaning(shown)]_shell_vars
    <2> SUFFICES ASSUME IInv, Enter
                 PROVE  ran' = Meaning(shown)
      OBVIOUS
    <2> DEFINE b == [buffer EXCEPT ![pos] = NUL]
    <2>1. /\ pos \in Index /\ pos \in Nat /\ Len(shown) = pos /\ shown \in Seq(Printable)
          /\ buffer \in [Index -> Printable \cup {NUL}]
          /\ \A i \in 1 .. pos : shown[i] = buffer[i - 1]
      BY DEF IInv, LineTypeOK, ScreenShowsLine, Index, ShellConstants
    <2>2. b \in [Index -> Printable \cup {NUL}] /\ b[pos] = NUL
      BY <2>1
    <2>3. ASSUME NEW j \in 0 .. pos - 1 PROVE b[j] = shown[j + 1] /\ b[j] \in Printable
      <3>1. j \in Index /\ j # pos /\ j + 1 \in 1 .. pos /\ (j + 1) - 1 = j
        BY <2>1 DEF Index, ShellConstants
      <3>2. b[j] = buffer[j]
        BY <2>1, <3>1
      <3>3. shown[j + 1] \in Printable
        BY <2>1, <3>1, ElementOfSeq
      <3>4. QED
        BY SMTT(60), <2>1, <3>1, <3>2, <3>3
    <2>4. execute(b)
      BY DEF Enter
    <2> HIDE DEF b
    <2>5. Holds(b, shown)
      BY <2>1, <2>2, <2>3 DEF Holds
    <2>6. QED
      BY <2>4, <2>5, ExecuteMeans
  <1>4. QED
    BY <1>1, <1>2, <1>3, PTL DEF ShellSpec, RunsWhatIsShown
=============================================================================
