------------------------------- MODULE Profile ------------------------------
(***************************************************************************)
(* One client's profile: a form whose fields are rows, and the values it   *)
(* asks for, which live in columns of clients or, for every other key, in  *)
(* the one JSON column clients.extra.  app/services/profile_service.py     *)
(* with app/api/v1/portal/profile.py, and update_client of                 *)
(* app/api/v1/admin/clients.py, which writes the same columns unchecked.   *)
(***************************************************************************)
EXTENDS Handlers

CONSTANTS
  ClientColumns,   \* keys whose value is a column of clients
  ExtraKeys,       \* keys whose value is in clients.extra
  Values,          \* what a field may hold
  ProfileForms     \* what editors may have made of the form when it is loaded:
                   \* functions from Keys to Field

Keys == ClientColumns \cup ExtraKeys

Field == {"inactive", "optional", "required"}

ASSUME ProfileAssumption ==
  /\ ClientColumns \cap ExtraKeys = {}
  /\ None \notin Values
  /\ ProfileForms \subseteq [Keys -> Field]

VARIABLES
  profile,     \* profile[k]: the committed value, None for NULL or an absent key
  saves,       \* saves[r]: the save in slot r, or None
  answered,    \* answered[k]: what the last save that names k stored
  overlapped   \* keys that a save wrote, or kept, although another had changed
               \* them since it looked
               \* (answered and overlapped are history variables)

profileVars == <<profile, saves, answered, overlapped>>

-----------------------------------------------------------------------------
Held == Values \cup {None}

\* loaded: the row.  given: the values to store, by key.  json: clients.extra
\* as the save is going to write it.
Save == [loaded: [Keys -> Held], given: UNION {[K -> Held] : K \in SUBSET Keys},
         json: [ExtraKeys -> Held]]

ProfileInit ==
  /\ profile = [k \in Keys |-> None]
  /\ saves = [r \in Requests |-> None]
  /\ answered = [k \in Keys |-> None]
  /\ overlapped = {}

-----------------------------------------------------------------------------
BeginSave(r, given, json) ==
  /\ saves' = [saves EXCEPT ![r] = [loaded |-> profile, given |-> given, json |-> json]]
  /\ UNCHANGED <<profile, answered, overlapped>>

\* The loaded JSON, with what was submitted put in or, if blank, taken out.
Edited(given) == [k \in ExtraKeys |-> IF k \in DOMAIN given THEN given[k] ELSE profile[k]]

\* update_values, from the portal.  Keys the live form does not define are
\* ignored; a required field that comes blank refuses all of them.
BeginProfileUpdate(r, submitted) ==
  /\ saves[r] = None
  /\ \E form \in ProfileForms :
       LET given == [k \in {x \in DOMAIN submitted : form[x] # "inactive"} |-> submitted[k]] IN
         /\ \A k \in DOMAIN given : form[k] = "required" => given[k] # None
         /\ BeginSave(r, given, Edited(given))

\* update_client: columns as they come; extra, if it comes, as a whole.
BeginClientUpdate(r, submitted) ==
  /\ saves[r] = None
  /\ ExtraKeys \subseteq DOMAIN submitted \/ ExtraKeys \cap DOMAIN submitted = {}
  /\ BeginSave(r, submitted, Edited(submitted))

\* Deviation: every column of the form is written.
StoreWholeRow(h, key) ==
  IF key \in ClientColumns
  THEN IF key \in DOMAIN h.given THEN h.given[key] ELSE h.loaded[key]
  ELSE h.json[key]

\* Each column is written if it changed, and the JSON if any of it did.
Store(h, key) ==
  IF key \in ClientColumns
  THEN IF key \in DOMAIN h.given THEN Written(profile[key], h.loaded[key], h.given[key])
                                 ELSE profile[key]
  ELSE IF h.json # [k \in ExtraKeys |-> h.loaded[k]] THEN h.json[key] ELSE profile[key]

CommitSave(r) ==
  /\ saves[r] # None
  /\ LET h == saves[r]
         given == DOMAIN h.given IN
       /\ profile' = [k \in Keys |-> Store(h, k)]
       /\ overlapped' = overlapped \cup
            {k \in ExtraKeys \cup given : profile[k] # h.loaded[k]}
       /\ answered' = [k \in Keys |->
            IF k \in overlapped' THEN None
            ELSE IF k \in given THEN h.given[k] ELSE answered[k]]
  /\ saves' = [saves EXCEPT ![r] = None]

AbortSave(r) ==
  /\ saves[r] # None
  /\ saves' = [saves EXCEPT ![r] = None]
  /\ UNCHANGED <<profile, answered, overlapped>>

ProfileNext ==
  \E r \in Requests :
    \/ \E K \in SUBSET Keys : \E submitted \in [K -> Held] :
         BeginProfileUpdate(r, submitted) \/ BeginClientUpdate(r, submitted)
    \/ CommitSave(r)
    \/ AbortSave(r)

ProfileSpec == ProfileInit /\ [][ProfileNext]_profileVars

-----------------------------------------------------------------------------
(***************************************************************************)
(* Properties                                                              *)
(***************************************************************************)

\* The variables keep their shape, and the JSON of a save agrees with what it
\* was given.
ProfileTypeOK ==
  /\ profile \in [Keys -> Held]
  /\ answered \in [Keys -> Held]
  /\ overlapped \subseteq Keys
  /\ \A r \in Requests : saves[r] # None =>
       /\ saves[r] \in Save
       /\ \A k \in DOMAIN saves[r].given \cap ExtraKeys : saves[r].json[k] = saves[r].given[k]

\* "anything SmartAWARE later adds lands in extra": a value stays what the last
\* save that names it made it, whichever other fields the client or staff save
\* meanwhile - unless saves overlapped on the JSON column, or on that very
\* field.  A save leaves columns it does not name alone even then.
ValuesKept == \A k \in Keys \ overlapped : profile[k] = answered[k]

-----------------------------------------------------------------------------
\* The inductive invariant behind ValuesKept: the JSON a save is going to write
\* is the one it loaded, but for the keys it was given.
SavesEdited ==
  /\ DOMAIN saves = Requests
  /\ \A r \in Requests : saves[r] # None =>
       \A k \in ExtraKeys \ DOMAIN saves[r].given : saves[r].json[k] = saves[r].loaded[k]

ProfileInvariant == ProfileTypeOK /\ SavesEdited /\ ValuesKept
=============================================================================
