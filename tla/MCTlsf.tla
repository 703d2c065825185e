------------------------------- MODULE MCTlsf -------------------------------
(***************************************************************************)
(* A heap of a few words, with four size classes in each of four ranges:   *)
(* two pools, the second right behind the first, that come and go.         *)
(***************************************************************************)
EXTENDS Tlsf

MCPools == << [mem |-> 40, bytes |-> 168], [mem |-> 208, bytes |-> 64] >>
MCCallocArgs == {<<2, 12>>}
=============================================================================
