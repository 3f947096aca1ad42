-------------------------- MODULE MCClientRecords ---------------------------
(***************************************************************************)
(* What is kept of a client - documents, manager and profile - on small    *)
(* instances.  The components share no variable: a behaviour is one of the *)
(* component in focus, and the others stay as they start.                  *)
(***************************************************************************)
EXTENDS Documents, Assignments, Profile, TLC

CONSTANT MaxNotedChanges   \* bound: how many audit entries there are as a note begins

VARIABLE focus

mcVars == <<focus, documentsVars, assignmentsVars, profileVars>>

\* As editors leave it optional, and with the columns off and the rest required.
MCForms ==
  {[k \in Keys |-> "optional"],
   [k \in Keys |-> IF k \in ExtraKeys THEN "required" ELSE "inactive"]}

Symmetry == Permutations(Requests) \cup Permutations(Managers) \cup Permutations(Clients)
            \cup Permutations(ExtraKeys) \cup Permutations(DocTypes)

NotesBeginEarly ==
  \A r \in Requests :
    work[r] = None /\ work'[r] # None /\ work'[r].kind = "note"
      => Cardinality(Recorded) <= MaxNotedChanges

MCInit ==
  /\ focus \in {"documents", "assignments", "profile"}
  /\ DocumentsInit
  /\ AssignmentsInit
  /\ ProfileInit

MCNext ==
  /\ UNCHANGED focus
  /\ \/ /\ focus = "documents"
        /\ DocumentsNext
        /\ UNCHANGED <<assignmentsVars, profileVars>>
     \/ /\ focus = "assignments"
        /\ AssignmentsNext /\ NotesBeginEarly
        /\ UNCHANGED <<documentsVars, profileVars>>
     \/ /\ focus = "profile"
        /\ ProfileNext
        /\ UNCHANGED <<documentsVars, assignmentsVars>>

MCSpec == MCInit /\ [][MCNext]_mcVars

\* The variables of each component keep their shape.
TypesOK ==
  /\ focus = "documents" => DocumentsTypeOK
  /\ focus = "assignments" => AssignmentsTypeOK
  /\ focus = "profile" => ProfileTypeOK
=============================================================================
