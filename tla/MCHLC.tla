------------------------------- MODULE MCHLC -------------------------------
(* A small instance of HLC for TLC. *)
EXTENDS HLC, TLC

NodeSymmetry == Permutations(Node)
=============================================================================
