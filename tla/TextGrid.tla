------------------------------ MODULE TextGrid ------------------------------
(* What the drawing functions of the terminal promise their caller: a grid  *)
(* of characters that hold what was last written to them.  The caller sees  *)
(* the last write as well, so that a write without effect is no stutter.    *)
CONSTANTS Cells, Written

VARIABLES text, wrote

Init ==
  /\ \E blank \in Written : text = [i \in Cells |-> blank]
  /\ wrote = <<>>

Write(i, ch) ==
  /\ text' = [text EXCEPT ![i] = ch]
  /\ wrote' = <<i, ch>>

Next == \E i \in Cells, ch \in Written : Write(i, ch)

Spec == Init /\ [][Next]_<<text, wrote>>
=============================================================================
