-------------------------- MODULE MCDCCPacketQueue --------------------------
(* Instances of the ring buffer for TLC: three cells, so that the cursors   *)
(* wrap round at every fill level.                                          *)
EXTENDS DCCPacketQueue
=============================================================================
