------------------------------- MODULE MCAhci -------------------------------
(* Instances of Ahci for TLC.                                              *)
EXTENDS Ahci

MCBlocks == {300, 301}
=============================================================================
