--------------------------- MODULE FrameAllocator ---------------------------
(***************************************************************************)
(* What the physical memory manager (src/mm/pmm.c) promises its callers,   *)
(* without the list threaded through the free pages: a pool of page frames *)
(* that boot donates once, from which palloc takes any free frame, and to  *)
(* which pfree returns a frame its caller owns.  The answer 0 means that   *)
(* no frame is free, and nothing else.                                     *)
(***************************************************************************)
EXTENDS Naturals

CONSTANT Frames  \* the physical addresses of the usable page frames

VARIABLES
  free,    \* the frames palloc can hand out
  held,    \* the frames callers own
  answer   \* what the last palloc returned

avars == <<free, held, answer>>

Init ==
  /\ free = {}
  /\ held = {}
  /\ answer = 0

(* Boot hands over a usable frame, once.                                   *)
Donate(f) ==
  /\ f \notin free \cup held
  /\ free' = free \cup {f}
  /\ UNCHANGED <<held, answer>>

Alloc ==
  \/ /\ free = {}
     /\ answer' = 0
     /\ UNCHANGED <<free, held>>
  \/ \E f \in free :
       /\ free' = free \ {f}
       /\ held' = held \cup {f}
       /\ answer' = f

Release(f) ==
  /\ f \in held
  /\ held' = held \ {f}
  /\ free' = free \cup {f}
  /\ UNCHANGED answer

Next ==
  \/ \E f \in Frames : Donate(f) \/ Release(f)
  \/ Alloc

Spec == Init /\ [][Next]_avars
=============================================================================
