------------------------------ MODULE Handlers ------------------------------
(***************************************************************************)
(* What the request handlers of the back office share: slots that requests *)
(* run in, and what SQLAlchemy writes of a row that a handler loaded.      *)
(***************************************************************************)

CONSTANTS
  Requests,   \* slots: how many requests overlap
  None        \* SQL NULL, an idle slot, nothing chosen

\* An attribute is in the UPDATE only if its value is not the one loaded; what
\* was committed meanwhile is then overwritten, and otherwise left alone.
Written(column, loaded, new) == IF new # loaded THEN new ELSE column
=============================================================================
