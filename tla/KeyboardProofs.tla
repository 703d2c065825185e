--------------------------- MODULE KeyboardProofs ---------------------------
(***************************************************************************)
(* getc returns no character that was not pressed, for every keyboard      *)
(* layout, every set of keys, every queue length and every interleaving of *)
(* the interrupts with getc's scan.                                        *)
(***************************************************************************)
EXTENDS Keyboard, SequenceTheorems, TLAPS

(* The bytes the keyboard sends.                                           *)
CodeByte(k, make, again) ==
  [byte |-> "code", code |-> k.code, make |-> make, again |-> again, prefixed |-> k.prefix]

Sent ==
  {[byte |-> "E0"]} \cup {CodeByte(k, m, a) : k \in Keys, m \in BOOLEAN, a \in BOOLEAN}

(* Whether the byte at i comes after a prefix; before the first byte it is  *)
(* the handler's static variable that tells.                                *)
AfterPrefix(ext, q, i) == IF i = 1 THEN ext ELSE q[i - 1].byte = "E0"

Framed(ext, q) ==
  \A i \in 1 .. Len(q) : q[i].byte = "code" /\ ~ AfterPrefix(ext, q, i) => ~ q[i].prefixed

(* What getc would return next is fresh.                                   *)
NextIsFresh == \A c \in chars \ key_was_pressed : Returned(c) => c \in fresh

IInv ==
  /\ user \in Users
  /\ out \in Seq(Sent)
  /\ Framed(extended, out)
  /\ NextIsFresh

-----------------------------------------------------------------------------
LEMMA SentBytes ==
  ASSUME NEW b \in Sent
  PROVE  \/ b = [byte |-> "E0"]
         \/ \E k \in Keys, m \in BOOLEAN, a \in BOOLEAN : b = CodeByte(k, m, a)
  BY DEF Sent

(* The handler takes the first byte and leaves the rest framed.            *)
LEMMA RestFramed ==
  ASSUME NEW ext, NEW ext2, NEW q \in Seq(Sent), q # <<>>, Framed(ext, q),
         ext2 => q[1].byte = "E0", q[1].byte = "E0" => ext2
  PROVE  Tail(q) \in Seq(Sent) /\ Framed(ext2, Tail(q))
  <1>1. /\ Tail(q) \in Seq(Sent) /\ Len(Tail(q)) = Len(q) - 1 /\ Len(q) \in Nat
        /\ \A i \in 1 .. Len(Tail(q)) : Tail(q)[i] = q[i + 1]
    BY HeadTailProperties, LenProperties
  <1>2. ASSUME NEW i \in 1 .. Len(Tail(q)), Tail(q)[i].byte = "code",
               ~ AfterPrefix(ext2, Tail(q), i)
        PROVE  ~ Tail(q)[i].prefixed
    <2>1. i + 1 \in 1 .. Len(q) /\ i + 1 # 1 /\ (i + 1) - 1 = i /\ q[i + 1].byte = "code"
      BY <1>1, <1>2
    <2>2. CASE i = 1
      <3>1. ~ (q[1].byte = "E0")
        BY <1>2, <2>2 DEF AfterPrefix
      <3>2. ~ AfterPrefix(ext, q, i + 1)
        BY SMTT(60), <2>1, <2>2, <3>1 DEF AfterPrefix
      <3>3. QED
        BY <1>1, <2>1, <3>2 DEF Framed
    <2>3. CASE i # 1
      <3>1. i - 1 \in 1 .. Len(Tail(q)) /\ (i - 1) + 1 = i
        BY <1>1, <2>3
      <3>2. ~ (q[i].byte = "E0")
        BY <1>1, <1>2, <2>3, <3>1 DEF AfterPrefix
      <3>3. ~ AfterPrefix(ext, q, i + 1)
        BY <2>1, <3>2 DEF AfterPrefix
      <3>4. QED
        BY <1>1, <2>1, <3>3 DEF Framed
    <2>4. QED
      BY <2>2, <2>3
  <1>3. QED
    BY <1>1, <1>2 DEF Framed

(* A key's bytes after others.                                             *)
LEMMA BytesFramed ==
  ASSUME NEW ext, NEW q \in Seq(Sent), Framed(ext, q),
         NEW k \in Keys, NEW m \in BOOLEAN, NEW a \in BOOLEAN
  PROVE  q \o Bytes(k, m, a) \in Seq(Sent) /\ Framed(ext, q \o Bytes(k, m, a))
  <1> DEFINE n == Len(q)
             e == [byte |-> "E0"]
             c == CodeByte(k, m, a)
             t == q \o Bytes(k, m, a)
  <1>1. e \in Sent /\ c \in Sent /\ n \in Nat
    BY LenProperties DEF Sent
  <1>2. e.byte = "E0" /\ c.byte = "code" /\ c.prefixed = k.prefix
    BY DEF CodeByte
  <1>3. CASE k.prefix
    <2>1. Bytes(k, m, a) = <<e>> \o <<c>>
      BY <1>3 DEF Bytes, CodeByte
    <2> HIDE DEF e, c
    <2> DEFINE u == <<e>> \o <<c>>
    <2>2. u \in Seq(Sent) /\ Len(u) = 2 /\ u[1] = e /\ u[2] = c
      <3>1. /\ <<e>> \in Seq(Sent) /\ Len(<<e>>) = 1 /\ <<e>>[1] = e
            /\ <<c>> \in Seq(Sent) /\ Len(<<c>>) = 1 /\ <<c>>[1] = c
        BY <1>1
      <3>2. QED
        BY <3>1, ConcatProperties
    <2>3. /\ t \in Seq(Sent) /\ Len(t) = n + 2
          /\ \A i \in 1 .. n : t[i] = q[i]
          /\ t[n + 1] = e /\ t[n + 2] = c
      <3> HIDE DEF u
      <3>1. t = q \o u
        BY <2>1 DEF u
      <3> HIDE DEF t
      <3>2. u \in Seq(Sent)
        BY <2>2
      <3>3. /\ q \o u \in Seq(Sent) /\ Len(q \o u) = Len(q) + Len(u)
            /\ \A i \in 1 .. Len(q) + Len(u) :
                 (q \o u)[i] = IF i <= Len(q) THEN q[i] ELSE u[i - Len(q)]
        BY ONLY <3>2, q \in Seq(Sent), ConcatProperties, Zenon
      <3>4. /\ t \in Seq(Sent) /\ Len(t) = Len(q) + Len(u)
            /\ \A i \in 1 .. Len(q) + Len(u) : t[i] = IF i <= Len(q) THEN q[i] ELSE u[i - Len(q)]
        BY ONLY <3>1, <3>3, Zenon
      <3>5. QED
        BY <1>1, <2>2, <3>4
    <2> HIDE DEF t
    <2>4. ASSUME NEW i \in 1 .. Len(t), t[i].byte = "code", ~ AfterPrefix(ext, t, i)
          PROVE  ~ t[i].prefixed
      <3>1. CASE i \in 1 .. n
        <4>1. AfterPrefix(ext, t, i) <=> AfterPrefix(ext, q, i)
          <5>1. i # 1 => i - 1 \in 1 .. n
            BY <1>1, <3>1
          <5>2. QED
            BY <2>3, <5>1 DEF AfterPrefix
        <4>2. QED
          BY <2>3, <2>4, <3>1, <4>1 DEF Framed
      <3>2. CASE i = n + 1
        BY <1>2, <2>3, <2>4, <3>2
      <3>3. CASE i = n + 2
        <4>1. AfterPrefix(ext, t, i)
          <5>1. i # 1 /\ i - 1 = n + 1
            BY <1>1, <3>3
          <5>2. QED
            BY <1>2, <2>3, <5>1 DEF AfterPrefix
        <4>2. QED
          BY <2>4, <4>1
      <3>4. QED
        BY <1>1, <2>3, <3>1, <3>2, <3>3
    <2>5. Framed(ext, t)
      BY <2>4 DEF Framed
    <2>6. QED
      BY <2>3, <2>5 DEF t
  <1>4. CASE ~ k.prefix
    <2>1. Bytes(k, m, a) = <<>> \o <<c>>
      BY <1>4 DEF Bytes, CodeByte
    <2> HIDE DEF e, c
    <2>2. Bytes(k, m, a) = <<c>>
      BY <2>1
    <2>3. /\ t \in Seq(Sent) /\ Len(t) = n + 1
          /\ \A i \in 1 .. n : t[i] = q[i]
          /\ t[n + 1] = c
      BY <1>1, <2>2, ConcatProperties, LenProperties
    <2> HIDE DEF t
    <2>4. ASSUME NEW i \in 1 .. Len(t), t[i].byte = "code", ~ AfterPrefix(ext, t, i)
          PROVE  ~ t[i].prefixed
      <3>1. CASE i \in 1 .. n
        <4>1. AfterPrefix(ext, t, i) <=> AfterPrefix(ext, q, i)
          <5>1. i # 1 => i - 1 \in 1 .. n
            BY <1>1, <3>1
          <5>2. QED
            BY <2>3, <5>1 DEF AfterPrefix
        <4>2. QED
          BY <2>3, <2>4, <3>1, <4>1 DEF Framed
      <3>2. CASE i = n + 1
        BY <1>2, <1>4, <2>3, <3>2
      <3>3. QED
        BY SMTT(60), <1>1, <2>3, <3>1, <3>2
    <2>5. Framed(ext, t)
      BY <2>4 DEF Framed
    <2>6. QED
      BY <2>3, <2>5 DEF t
  <1>5. QED
    BY <1>3, <1>4

-----------------------------------------------------------------------------
LEMMA InitIInv == Init => IInv
  BY EmptySeq DEF Init, IInv, Framed, NextIsFresh

LEMMA SendKeeps ==
  ASSUME IInv, NEW k \in user.keys, Press(k) \/ Repeat(k) \/ Release(k)
  PROVE  IInv'
  <1>1. k \in Keys /\ user \in Users /\ out \in Seq(Sent) /\ Framed(extended, out)
    BY DEF IInv, Keys
  <1>2. PICK m \in BOOLEAN, a \in BOOLEAN : Send(Bytes(k, m, a))
    BY ZenonT(60) DEF Press, Repeat, Release
  <1>3. out' = out \o Bytes(k, m, a) /\ UNCHANGED <<extended, chars, key_was_pressed, user, fresh>>
    BY <1>2 DEF Send, handlerVars, getcVars
  <1>4. out' \in Seq(Sent) /\ Framed(extended, out')
    BY <1>1, <1>3, BytesFramed
  <1>5. QED
    BY <1>3, <1>4 DEF IInv, NextIsFresh

LEMMA HandlerKeeps ==
  ASSUME IInv, keyboard_handler
  PROVE  IInv'
  <1> DEFINE b == Head(out)
  <1>1. /\ out # <<>> /\ out \in Seq(Sent) /\ b = out[1] /\ b \in Sent /\ out' = Tail(out)
        /\ Framed(extended, out) /\ user \in Users /\ UNCHANGED <<user, key_was_pressed>>
        /\ fresh' = fresh \cup Pressed(b, mods')
    BY HeadTailProperties DEF IInv, keyboard_handler, getcVars
  <1>2. HandlePrefix(b) \/ HandleExtended(b) \/ HandlePlain(b)
    BY DEF keyboard_handler
  <1> HIDE DEF b
  <1>3. (extended' => b.byte = "E0") /\ (b.byte = "E0" => extended')
    BY <1>2 DEF HandlePrefix, HandleExtended, HandlePlain
  <1>4. out' \in Seq(Sent) /\ Framed(extended', out')
    BY <1>1, <1>3, RestFramed
  <1>5. CASE ~ HandlePlain(b)
    <2>1. chars' = chars
      BY <1>2, <1>5 DEF HandlePrefix, HandleExtended
    <2>2. QED
      BY <1>1, <1>4, <2>1 DEF IInv, NextIsFresh
  <1>6. CASE HandlePlain(b)
    <2> DEFINE c == CharOf(b.code, mods')
    <2>1. b.byte = "code" /\ ~ extended /\ chars' = BIT_SET(chars, {c}, b.make)
      BY <1>6 DEF HandlePlain
    <2>2. ~ b.prefixed
      <3>1. 1 \in 1 .. Len(out)
        BY <1>1, EmptySeq
      <3>2. QED
        BY <1>1, <2>1, <3>1 DEF Framed, AfterPrefix
    <2> HIDE DEF c
    <2>3. b.make /\ Returned(c) /\ c \notin chars => c \in fresh'
      BY <1>1, <2>1, <2>2 DEF Pressed, c
    <2>4. ASSUME NEW d \in chars' \ key_was_pressed', Returned(d) PROVE d \in fresh'
      <3>1. CASE d \in chars
        BY <1>1, <2>4, <3>1 DEF IInv, NextIsFresh
      <3>2. CASE d \notin chars
        <4>1. b.make /\ d = c
          BY <2>1, <3>2 DEF BIT_SET
        <4>2. QED
          BY SMTT(60), <2>3, <2>4, <3>2, <4>1
      <3>3. QED
        BY <3>1, <3>2
    <2>5. QED
      BY <1>1, <1>4, <2>4 DEF IInv, NextIsFresh
  <1>7. QED
    BY <1>5, <1>6

LEMMA GetcKeeps ==
  ASSUME IInv, getc
  PROVE  IInv'
  <1> DEFINE c == ScanOrder[user][key]
  <1>1. FindPressed(c) \/ FindReleased(c) \/ FindNothing(c)
    BY DEF getc
  <1>2. UNCHANGED <<chars, extended, user, out>>
    BY DEF getc, handlerVars
  <1> HIDE DEF c
  <1>3. NextIsFresh'
    BY <1>1, <1>2 DEF FindPressed, FindReleased, FindNothing, IInv, NextIsFresh
  <1>4. QED
    BY <1>2, <1>3 DEF IInv

LEMMA StepIInv ==
  ASSUME IInv, [Next]_vars
  PROVE  IInv'
  <1>1. CASE CallAgain \/ UNCHANGED vars
    BY <1>1 DEF CallAgain, vars, handlerVars, IInv, NextIsFresh
  <1>2. QED
    BY SMTT(60), <1>1, SendKeeps, HandlerKeeps, GetcKeeps DEF Next

(* For every layout, set of keys, typist and queue length, and wherever     *)
(* the interrupts fall between the steps of getc's scan: getc returns a     *)
(* character only if a key that stands for it was pressed since it returned *)
(* it last (keyboard.c:359-375, with the handler of keyboard.c:212-276).    *)
THEOREM KeyboardNoPhantomChar == Spec => NoPhantomChar
  <1>1. IInv /\ [Next]_vars => IInv'
    BY StepIInv
  <1>2. IInv /\ [Next]_vars => [got' \in {got, NONE} \/ got' \in fresh]_vars
    <2> SUFFICES ASSUME IInv, Next
                 PROVE  got' \in {got, NONE} \/ got' \in fresh
      OBVIOUS
    <2>1. CASE \E k \in user.keys : Press(k) \/ Repeat(k) \/ Release(k)
      BY ZenonT(60), <2>1 DEF Press, Repeat, Release, Send, getcVars
    <2>2. CASE keyboard_handler
      BY <2>2 DEF keyboard_handler, getcVars
    <2>3. CASE getc
      <3> DEFINE c == ScanOrder[user][key]
      <3>1. FindPressed(c) \/ FindReleased(c) \/ FindNothing(c)
        BY <2>3 DEF getc
      <3> HIDE DEF c
      <3>2. QED
        BY <3>1 DEF FindPressed, FindReleased, FindNothing, IInv, NextIsFresh
    <2>4. CASE CallAgain
      BY <2>4 DEF CallAgain
    <2>5. QED
      BY SMTT(60), <2>1, <2>2, <2>3, <2>4 DEF Next
  <1>3. QED
    BY <1>1, <1>2, InitIInv, PTL DEF Spec, NoPhantomChar
=============================================================================
