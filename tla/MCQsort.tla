------------------------------- MODULE MCQsort -------------------------------
(* A caller of qsort: every array of up to four small numbers, sorted once.   *)
EXTENDS Klibc

VARIABLES array, called

Arrays == UNION {[0 .. n - 1 -> 1 .. 4] : n \in 0 .. 4}

Init == array \in Arrays /\ called = FALSE

Sort == /\ ~ called
        /\ array' = qsort(array, 0, Cardinality(DOMAIN array))
        /\ called' = TRUE

(* The caller is done.                                                        *)
Done == called /\ UNCHANGED <<array, called>>

Spec == Init /\ [][Sort \/ Done]_<<array, called>>

(* After the call the array is in order: "Quick sort array in place."         *)
(* (A-Documentation/API-ABI/API-Info:267, stdlib.c:303-333).                  *)
QsortSorts ==
  called => \A i, j \in DOMAIN array : i < j => array[i] <= array[j]
=============================================================================
