----------------------------- MODULE MCInvites ------------------------------
(* Invites on small instances. *)
EXTENDS Invites, TLC

Symmetry == Permutations(Requests)
=============================================================================
