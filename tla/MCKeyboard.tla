----------------------------- MODULE MCKeyboard -----------------------------
(* Instance of Keyboard for TLC: keys of the US layout, pressed by           *)
(* someone faster than getc scans, or slower, or slower and with shift.      *)
EXTENDS Keyboard, TLC

Plain(code) == [prefix |-> FALSE, code |-> code]

Escape == Plain(1)
Five   == Plain(6)
Enter  == Plain(28)
LetterA == Plain(30)
LShift == Plain(42)
CapsLock == Plain(58)
Up     == [prefix |-> TRUE, code |-> 72]

MCLayout ==
  (0 :> (1 :> 1 @@ 6 :> 53 @@ 28 :> 10 @@ 30 :> 97 @@ 42 :> 0 @@ 58 :> 0 @@ 72 :> 152)) @@
  (1 :> (1 :> 1 @@ 6 :> 37 @@ 28 :> 10 @@ 30 :> 65 @@ 42 :> 0 @@ 58 :> 0 @@ 72 :> 152))

Racing == [keys |-> {LetterA, LShift, CapsLock}, prompt |-> FALSE]
Typing == [keys |-> {Escape, LetterA, Five, Enter, Up}, prompt |-> TRUE]
Shifting == [keys |-> {LetterA, LShift}, prompt |-> TRUE]

MCUsers == {Racing, Typing}
MCShiftUsers == {Shifting}
=============================================================================
