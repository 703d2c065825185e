------------------------------- MODULE MCVmm -------------------------------
(***************************************************************************)
(* Three pages that share no, some or all of their tables, below the boot  *)
(* loader's own; frames that run out.                                      *)
(***************************************************************************)
EXTENDS Vmm, TLC

MCVirts == {<<0, 0, 0, 0>>, <<0, 0, 0, 1>>, <<0, 1, 0, 0>>}

Table(f, user) == [Empty EXCEPT !.present = TRUE, !.frame = f, !.user = user]

MCBootTables ==
  (100 :> [i \in {0, 1} |-> IF i = 0 THEN Table(101, TRUE) ELSE Empty]) @@
  (101 :> [i \in {0, 1} |-> IF i = 1 THEN Table(102, FALSE) ELSE Empty]) @@
  (102 :> [i \in {0, 1} |-> Empty])

MCDirty == Table(50, TRUE)

MCMapFlags == {[user |-> FALSE, pcd |-> TRUE], [user |-> FALSE, pcd |-> FALSE]}

(* The properties say nothing after alloc_table has gone on without a      *)
(* frame, and "failed" never becomes false again: such states are checked  *)
(* and not explored further.                                               *)
BeforeFailure == ~ failed
=============================================================================
