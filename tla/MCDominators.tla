--------------------------- MODULE MCDominators ---------------------------
(* Dominators on every producible graph of MCN blocks. *)
EXTENDS Dominators

MCN == 4
=============================================================================
