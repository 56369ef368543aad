------------------------------ MODULE MCAdIndex ------------------------------
(* Instances of AdIndex: every file of a few lines. *)
EXTENDS AdIndex, SequencesExt

\* Keywords of both nodes, on both sides of the sign bit, one inactive line.
MCFiles ==
  BoundedSeq({[keyword |-> k, status |-> 1] : k \in {0, 1, 2, 6, 7}}
               \cup {[keyword |-> 2, status |-> 0]}, 4)
=============================================================================
