----------------------------- MODULE MCFaqIndex -----------------------------
(* FaqIndex on small instances. *)
EXTENDS FaqIndex, TLC

Symmetry == Permutations(Entries) \cup Permutations(Jobs)
=============================================================================
