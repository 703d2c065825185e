------------------------------- MODULE MCEhci -------------------------------
(* Two reads of a mass-storage device, and one search for it, with the pages *)
(* the driver holds at most and one that is free or the rest of the kernel's. *)
EXTENDS Ehci, TLC

CONSTANTS p1, p2, p3, p4
Frames == Permutations(Pages)
=============================================================================
