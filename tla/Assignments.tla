---------------------------- MODULE Assignments -----------------------------
(***************************************************************************)
(* Which manager looks after which client, and what follows from it: the   *)
(* handlers of app/api/v1/admin/clients.py and app/api/v1/admin/notes.py   *)
(* with app/services/client_service.py.                                    *)
(*                                                                         *)
(* assign_manager flushes: its UPDATE takes the row's lock at once and     *)
(* keeps it until the commit.  set_manager_clients calls it for one client *)
(* after another, in the order of a set, so two of them may hold a row     *)
(* each and wait for the other's.  Both write what they had loaded before. *)
(***************************************************************************)
EXTENDS Handlers, Permissions, Naturals, Sequences, FiniteSets

CONSTANTS
  Notes,        \* the notes there may be
  MaxChanges    \* bound on the audit entries

ASSUME AssignmentsAssumption ==
  /\ MaxChanges \in Nat
  /\ None \notin Users

VARIABLES
  manager,      \* manager[c]: clients.assigned_manager_id
  log,          \* log[c]: its client.manager_assigned audit entries
  notes,        \* notes[n]: the client a committed note is about, or None
  work,         \* work[r]: the request in slot r, or None
  clobbered     \* clients of whom two overlapping requests wrote the manager
                \* (a history variable, as is an assignment's disturbed)

assignmentsVars == <<manager, log, notes, work, clobbered>>

-----------------------------------------------------------------------------
Entry == [old: Managers \cup {None}, new: Managers \cup {None}]

\* from, to: the values this request loaded and is going to write, by client.
\* adds, drops: the clients still to be written, the former first.  done: those
\* whose row it has written, and locked.  list: the manager whose list is saved,
\* with the clients wanted, or None when one client is assigned.
Assignment ==
  [kind: {"assign"}, pc: {"current", "write"}, list: Managers \cup {None},
   wanted: SUBSET Clients, from: [Clients -> Managers \cup {None}], to: Managers \cup {None},
   adds: SUBSET Clients, drops: SUBSET Clients, done: SUBSET Clients, disturbed: BOOLEAN]

\* A note being created (it was not there), changed or deleted (it will not be).
Noting == [kind: {"note"}, note: Notes, client: Clients, old: Clients \cup {None},
           new: Clients \cup {None}, by: Users]

Doing(r, kind) == work[r] # None /\ work[r].kind = kind

FreeWork(r) == work' = [work EXCEPT ![r] = None]

StartWork(r, request) ==
  /\ work' = [work EXCEPT ![r] = request]
  /\ UNCHANGED <<manager, log, notes, clobbered>>

\* accept_invite creates a client without a manager.
AssignmentsInit ==
  /\ manager = [c \in Clients |-> None]
  /\ log = [c \in Clients |-> <<>>]
  /\ notes = [n \in Notes |-> None]
  /\ work = [r \in Requests |-> None]
  /\ clobbered = {}

-----------------------------------------------------------------------------
Loaded(clients) == [c \in Clients |-> IF c \in clients THEN manager[c] ELSE None]

(* One client: POST /clients/{id}/manager. *)

BeginAssign(r, client, to) ==
  /\ work[r] = None
  /\ \E admin \in Users : RequireAdmin(admin)
  /\ to \in Assignable \cup {None}
  /\ manager[client] # to          \* "That manager is already assigned to this client."
  /\ StartWork(r, [kind |-> "assign", pc |-> "write", list |-> None, wanted |-> {},
               from |-> Loaded({client}), to |-> to, adds |-> {client}, drops |-> {},
               done |-> {}, disturbed |-> FALSE])

(* A manager's list: PUT /staff/{id}/clients. *)

\* The first of its two queries: the wanted clients.
BeginList(r, to, wanted) ==
  /\ work[r] = None
  /\ \E admin \in Users : RequireAdmin(admin)
  /\ to \in Assignable
  /\ StartWork(r, [kind |-> "assign", pc |-> "current", list |-> to, wanted |-> wanted,
               from |-> Loaded(wanted), to |-> to, adds |-> {}, drops |-> {}, done |-> {},
               disturbed |-> FALSE])

\* The request with what it is going to write.  Objects of its first query keep
\* what they had loaded; only those not wanted are read afresh.
ToWrite(h, adds, drops) ==
  [h EXCEPT !.pc = "write", !.adds = adds, !.drops = drops,
            !.from = [c \in Clients |-> IF c \in adds THEN h.from[c]
                                      ELSE IF c \in drops THEN h.to ELSE None]]

\* Deviation: what is held but not wanted stays.
DifferencesOnlyAdd(h, held) == ToWrite(h, h.wanted \ held, {})

\* The second: the clients held now.
Differences(h, held) == ToWrite(h, h.wanted \ held, held \ h.wanted)

ReadCurrent(r) ==
  /\ Doing(r, "assign") /\ work[r].pc = "current"
  /\ LET h == Differences(work[r], {c \in Clients : manager[c] = work[r].list}) IN
       \* A wanted client taken off this manager between the queries is refused,
       \* and the whole request with it: "already assigned".
       IF \E c \in h.adds : h.from[c] = h.to
       THEN FreeWork(r)
       ELSE work' = [work EXCEPT ![r] = h]
  /\ UNCHANGED <<manager, log, notes, clobbered>>

-----------------------------------------------------------------------------
\* The row a request is going to write next, additions before removals.
Upcoming(r) ==
  IF ~ (Doing(r, "assign") /\ work[r].pc = "write") THEN {}
  ELSE IF work[r].adds # {} THEN work[r].adds ELSE work[r].drops

LockedBy(r) == IF Doing(r, "assign") THEN work[r].done ELSE {}

\* The flush of one assign_manager: waits while another request has the row.
WriteRow(r, client) ==
  /\ client \in Upcoming(r)
  /\ \A other \in Requests \ {r} : client \notin LockedBy(other)
  /\ work' = [work EXCEPT ![r].adds = @ \ {client}, ![r].drops = @ \ {client},
                          ![r].done = @ \cup {client}]
  /\ UNCHANGED <<manager, log, notes, clobbered>>

\* What the request has written of a client: drops clear the manager.
Assigned(h, client) ==
  IF h.list # None /\ client \notin h.wanted THEN None ELSE h.to

Finished(r) == Doing(r, "assign") /\ work[r].pc = "write" /\ Upcoming(r) = {}

\* Deviation: a client that leaves a list is not recorded.
EntriesOfAdditions(h) ==
  [c \in Clients |-> IF c \in h.done /\ Assigned(h, c) # None
                       THEN Append(log[c], [old |-> h.from[c], new |-> Assigned(h, c)])
                       ELSE log[c]]

Entries(h) ==
  [c \in Clients |-> IF c \in h.done
                       THEN Append(log[c], [old |-> h.from[c], new |-> Assigned(h, c)])
                       ELSE log[c]]

Recorded == {p \in Clients \X (1 .. MaxChanges) : p[2] \in DOMAIN log[p[1]]}

CommitAssign(r) ==
  /\ Finished(r)
  /\ LET h == work[r] IN
       /\ Cardinality(Recorded) + Cardinality(h.done) <= MaxChanges
       /\ manager' = [c \in Clients |-> IF c \in h.done THEN Assigned(h, c) ELSE manager[c]]
       /\ log' = Entries(h)
       /\ clobbered' = clobbered \cup {c \in h.done : manager[c] # h.from[c]}
       /\ work' = [q \in Requests |->
                     IF q = r THEN None
                     ELSE IF Doing(q, "assign") /\ h.done # {}
                          THEN [work[q] EXCEPT !.disturbed = TRUE]
                          ELSE work[q]]
  /\ UNCHANGED notes

\* PostgreSQL ends a cycle of waits by failing one of the requests in it.
Waits(r, other) == Upcoming(r) \cap LockedBy(other) # {}

DeadlockVictim(r) ==
  /\ \E other \in Requests \ {r} : Waits(r, other) /\ Waits(other, r)
  /\ FreeWork(r)
  /\ UNCHANGED <<manager, log, notes, clobbered>>

-----------------------------------------------------------------------------
(* Reading and writing about clients, within the scope resolved as the        *)
(* request starts.  Reading is no step; these say who is shown what.          *)

ScopeOf(user) == ResolveClientScope(user, manager)

\* list_clients, client_filters, manager_clients, list_notes.
Listing(user) ==
  IF HasPermission(user, "CLIENT_VIEW", FALSE) THEN Apply(ScopeOf(user), Clients) ELSE {}

\* What _load opens: get_client, client_audit, client_onboarding.
Opening(user) ==
  {c \in Clients : HasPermission(user, "CLIENT_VIEW", FALSE) /\ Allows(ScopeOf(user), c)}

\* Of whom this user may be sent mail.
Mailed(user) ==
  {c \in Clients : \E e \in DOMAIN EventAudience : user \in ResolveRecipients(e, c, manager)}

\* create_note, under an id of its own, update_note and delete_note.
BeginNote(r, user, note, client, new) ==
  LET old == notes[note] IN
    /\ work[r] = None
    /\ HasPermission(user, "NOTE_MANAGE", FALSE)
    /\ Allows(ScopeOf(user), client)
    /\ old # None => old = client
    /\ old = None =>
         /\ new = client
         /\ \A q \in Requests : ~ (Doing(q, "note") /\ work[q].note = note)
    /\ StartWork(r, [kind |-> "note", note |-> note, client |-> client, old |-> old, new |-> new,
                 by |-> user])

\* Changing or deleting a note that has been deleted meanwhile fails.
CommitNote(r) ==
  /\ Doing(r, "note")
  /\ work[r].old # None => notes[work[r].note] # None
  /\ notes' = [notes EXCEPT ![work[r].note] = work[r].new]
  /\ FreeWork(r)
  /\ UNCHANGED <<manager, log, clobbered>>

AbortWork(r) ==
  /\ work[r] # None
  /\ FreeWork(r)
  /\ UNCHANGED <<manager, log, notes, clobbered>>

AssignmentsNext ==
  \E r \in Requests :
    \/ \E c \in Clients, m \in Managers \cup {None} : BeginAssign(r, c, m)
    \/ \E m \in Managers, w \in SUBSET Clients : BeginList(r, m, w)
    \/ ReadCurrent(r)
    \/ \E c \in Clients : WriteRow(r, c)
    \/ CommitAssign(r)
    \/ DeadlockVictim(r)
    \/ \E u \in Users, n \in Notes, c \in Clients : \E new \in {c, None} :
         BeginNote(r, u, n, c, new)
    \/ CommitNote(r)
    \/ AbortWork(r)

AssignmentsSpec == AssignmentsInit /\ [][AssignmentsNext]_assignmentsVars

-----------------------------------------------------------------------------
(***************************************************************************)
(* Properties                                                              *)
(***************************************************************************)

\* The variables keep their shape, and no two requests hold one row.
AssignmentsTypeOK ==
  /\ manager \in [Clients -> Managers \cup {None}]
  /\ log \in [Clients -> Seq(Entry)]
  /\ notes \in [Notes -> Clients \cup {None}]
  /\ work \in [Requests -> Assignment \cup Noting \cup {None}]
  /\ clobbered \subseteq Clients
  /\ \A q, r \in Requests : q # r => LockedBy(q) \cap LockedBy(r) = {}

\* Entries that follow one another, from nobody to this holder.
Follow(entries, holder) ==
  LET held == <<None>> \o [i \in DOMAIN entries |-> entries[i].new] IN
    /\ \A i \in DOMAIN entries : entries[i].old = held[i]
    /\ holder = held[Len(held)]

\* "a client taken from another manager records who lost it": the audit entries
\* of a client follow one another, from nobody to the manager there is - unless
\* two overlapping requests wrote that client's manager.
ManagerTraced == \A c \in Clients \ clobbered : Follow(log[c], manager[c])

\* Whoever is named as new manager in a client's entries.
Named(client) == {log[client][i].new : i \in DOMAIN log[client]}

\* "Reassignment changes who can see this client's data, so Section 9 lists it
\* among the actions worth auditing": every manager who is listed a client, may
\* open it, is written to about it or is writing of it is named in its audit
\* entries, however requests overlap; and what is listed is what may be opened.
AccessTraced ==
  ManagerClientScope = "assigned" =>
    /\ \A u \in Managers :
         /\ Listing(u) = Opening(u)
         /\ \A c \in Listing(u) \cup Mailed(u) : u \in Named(c)
    /\ \A r \in Requests :
         Doing(r, "note") /\ work[r].by \in Managers => work[r].by \in Named(work[r].client)

\* "The full set of clients a manager should be looking after": as its request
\* commits the manager has those and no others - unless another assignment was
\* committed after the request had looked.
ListAsSaved ==
  [][\A r \in Requests :
       (work[r] # None /\ CommitAssign(r)) =>
         work[r].list = None \/ work[r].disturbed
           \/ {c \in Clients : manager'[c] = work[r].list} = work[r].wanted
    ]_assignmentsVars

-----------------------------------------------------------------------------
(***************************************************************************)
(* The inductive invariant behind the properties.                          *)
(***************************************************************************)

\* Whoever manages a client was recorded when that was decided, and so was
\* whoever is writing a note about it.
ManagerNamed == \A c \in Clients : manager[c] # None => manager[c] \in Named(c)

NotingNamed ==
  ManagerClientScope = "assigned" =>
    \A r \in Requests :
      Doing(r, "note") /\ work[r].by \in Managers => work[r].by \in Named(work[r].client)

HeldBy(m) == {c \in Clients : manager[c] = m}

\* What a list has written and what it has still to write are the differences
\* between the clients wanted and those held, while nobody else has committed.
ListOnTrack(h) ==
  h.list # None =>
    /\ h.to = h.list
    /\ h.pc = "current" => h.done = {}
    /\ h.pc = "write" /\ ~ h.disturbed =>
         /\ h.adds \cup (h.done \cap h.wanted) = h.wanted \ HeldBy(h.list)
         /\ h.drops \cup (h.done \ h.wanted) = HeldBy(h.list) \ h.wanted

ListsOnTrack == \A r \in Requests : Doing(r, "assign") => ListOnTrack(work[r])

AssignmentsInvariant ==
  AssignmentsTypeOK /\ ManagerTraced /\ ManagerNamed /\ NotingNamed /\ ListsOnTrack
=============================================================================
