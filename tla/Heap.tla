-------------------------------- MODULE Heap --------------------------------
(***************************************************************************)
(* What malloc, realloc and free (src/klibc/stdlib.c) promise their        *)
(* callers: every live allocation has all the bytes that were asked for,   *)
(* inside a pool, aligned, and shared with no other allocation.  A request *)
(* that fails changes nothing.                                             *)
(***************************************************************************)
EXTENDS Integers

CONSTANTS
  Pools,   \* the memory given to the heap: a sequence of [mem, bytes]
  Align,   \* the alignment of every pointer
  Sizes    \* the numbers of bytes callers ask for

VARIABLES
  pools,   \* the pools the heap may use
  live     \* the bytes asked for, by live pointer

Within(i) == Pools[i].mem .. Pools[i].mem + Pools[i].bytes

(* Room for n bytes at p, aligned, beside the other allocations.           *)
Room(p, n, others) ==
  /\ p % Align = 0
  /\ \E i \in pools : p \in Within(i) /\ p + n \in Within(i)
  /\ \A q \in others : p + n <= q \/ q + live[q] <= p

Init ==
  /\ pools = {}
  /\ live = [p \in {} |-> 0]

AddPool(i) ==
  /\ pools' = pools \cup {i}
  /\ UNCHANGED live

RemovePool(i) ==
  /\ \A p \in DOMAIN live : p \notin Within(i)
  /\ pools' = pools \ {i}
  /\ UNCHANGED live

(* A fresh allocation of n bytes, or one that moves from old.              *)
Allocate(n, old) ==
  \E p \in DOMAIN live' :
    /\ DOMAIN live' = (DOMAIN live \ old) \cup {p}
    /\ live'[p] = n
    /\ \A q \in DOMAIN live \ old : live'[q] = live[q]
    /\ Room(p, n, DOMAIN live \ old)

Malloc(n) ==
  /\ Allocate(n, {})
  /\ UNCHANGED pools

Realloc(p, n) ==
  /\ Allocate(n, {p})
  /\ UNCHANGED pools

Free(p) ==
  /\ live' = [q \in DOMAIN live \ {p} |-> live[q]]
  /\ UNCHANGED pools

Next ==
  \/ \E i \in DOMAIN Pools : AddPool(i) \/ RemovePool(i)
  \/ \E n \in Sizes : Malloc(n)
  \/ \E p \in DOMAIN live : Free(p) \/ \E n \in Sizes : Realloc(p, n)

Spec == Init /\ [][Next]_<<pools, live>>
=============================================================================
