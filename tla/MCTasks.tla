------------------------------ MODULE MCTasks -------------------------------
(* Tasks on small instances. *)
EXTENDS Tasks, TLC

Symmetry == Permutations(Requests) \cup Permutations(Staff) \cup Permutations(TaskIds)
            \cup Permutations(EntryIds)
=============================================================================
