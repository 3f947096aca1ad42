----------------------------- MODULE MCSessions -----------------------------
(* Sessions on small instances. *)
EXTENDS Sessions, TLC

Symmetry == Permutations(Requests) \cup Permutations(Passwords)
=============================================================================
