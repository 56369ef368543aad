--------------------------- MODULE MCSearchHandoff ---------------------------
(* Instances of SearchHandoff small enough for TLC. *)
EXTENDS SearchHandoff, TLC

Symmetry == Permutations(Requests) \cup Permutations(Slots)
=============================================================================
