-------------------------- MODULE MCSettingsCache ---------------------------
(* SettingsCache on a small instance. *)
EXTENDS SettingsCache, TLC

Symmetry == Permutations(Readers) \cup Permutations(Processes)
=============================================================================
