----------------------------- MODULE MCSimpleDCC -----------------------------
(* An instance of SimpleDCC for TLC.                                         *)
EXTENDS SimpleDCC
=============================================================================
