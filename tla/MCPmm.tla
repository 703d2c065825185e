------------------------------- MODULE MCPmm -------------------------------
(***************************************************************************)
(* A small memory map: an entry that starts and ends off a page boundary,  *)
(* one that is not usable, one shorter than a page and one that begins     *)
(* where the one before it ends.                                           *)
(***************************************************************************)
EXTENDS Pmm

MCMemMap ==
  << [base |-> 3,  length |-> 10, usable |-> TRUE],
     [base |-> 13, length |-> 9,  usable |-> FALSE],
     [base |-> 22, length |-> 3,  usable |-> TRUE],
     [base |-> 32, length |-> 8,  usable |-> TRUE],
     [base |-> 40, length |-> 5,  usable |-> TRUE] >>

(* What owners leave behind: zeroes (alloc_table's memset), and words that *)
(* look like a node of the list.                                           *)
MCPageContents ==
  { [base |-> 0, next |-> 0], [base |-> 8, next |-> 108] }
=============================================================================
