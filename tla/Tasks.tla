------------------------------- MODULE Tasks --------------------------------
(***************************************************************************)
(* A client's tasks, and the client's status that permits work on them:    *)
(* app/services/task_service.py with the handlers of                       *)
(* app/api/v1/admin/tasks.py, and set_status of                            *)
(* app/services/client_service.py.  Clients do not interact, so this is    *)
(* one client's account.                                                   *)
(*                                                                         *)
(* As in Invoices, a handler is a Begin... step, which loads the task and  *)
(* the client and applies the guards, and a Commit... step, which writes   *)
(* the attributes that changed over whatever the row holds by then.        *)
(***************************************************************************)
EXTENDS Naturals, FiniteSets

CONSTANTS
  Requests,    \* handler slots: how many requests overlap
  TaskIds,     \* primary keys
  Staff,       \* managers and administrators
  None,        \* SQL NULL, and an idle request slot
  EntryIds     \* primary keys of audit_logs: bounds completions and reopenings

ASSUME ConstantsAssumption == None \notin Staff

\* The mails under way are counted.
ASSUME FiniteRequests == IsFiniteSet(Requests)

VARIABLES
  client,      \* the client's status
  rows,        \* rows[t]: the committed row of task t
  inflight,    \* inflight[r]: the handler running in slot r, or None
  audit,       \* audit[t]: the completions and reopenings of t that are logged
  mails,       \* mails[t]: how often the client was told t is complete
  conflicted,  \* tasks some handler committed over a changed status or
               \* completion (history variable)
  late         \* slots whose handler checked the client before it was put on
               \* hold or deactivated (history variable)

vars == <<client, rows, inflight, audit, mails, conflicted, late>>

-----------------------------------------------------------------------------
ClientStatus == {"active", "hold", "deactive"}

\* TaskStatus.
OpenStatus == {"pending", "in_progress", "cancelled"}
TaskStatus == OpenStatus \cup {"completed"}

\* completed_by stands for the three columns of a completion (note, time and
\* person), which are always written together.
Row == [status: TaskStatus \cup {"absent"},
        completed_by: Staff \cup {None},
        archived: BOOLEAN]

NewRow(status) ==
  [status |-> status, completed_by |-> None, archived |-> FALSE]

Exists(t) == rows[t].status # "absent"

\* The ids are random, and created_at is the start of the transaction: which of
\* two entries was committed first a log does not tell, and it is a set here.
AuditEntry == [id: EntryIds, action: {"completed", "reopened"}, by: Staff]

\* "dispatch" is a completion that is committed and whose mail is not sent.
Handler ==
  [op: {"create"}, status: TaskStatus]
    \cup [op: {"update"}, task: TaskIds, snap: Row, status: OpenStatus]
    \cup [op: {"complete", "reopen"}, task: TaskIds, snap: Row, by: Staff]
    \cup [op: {"archive", "restore"}, task: TaskIds]
    \cup [op: {"dispatch"}, task: TaskIds]
    \cup [op: {"set_status"}, status: ClientStatus]

\* The operations that call assert_work_permitted.
Work == {"create", "update", "complete"}

Running(r, op) == inflight[r] # None /\ inflight[r].op = op

Written(column, loaded, new) == IF new # loaded THEN new ELSE column

-----------------------------------------------------------------------------
Init ==
  /\ client = "active"
  /\ rows = [t \in TaskIds |-> NewRow("absent")]
  /\ inflight = [r \in Requests |-> None]
  /\ audit = [t \in TaskIds |-> {}]
  /\ mails = [t \in TaskIds |-> 0]
  /\ conflicted = {}
  /\ late = {}

Start(r, handler) ==
  /\ inflight[r] = None
  /\ inflight' = [inflight EXCEPT ![r] = handler]
  /\ UNCHANGED <<client, rows, audit, mails, conflicted, late>>

\* assert_work_permitted.
WorkPermitted == client = "active"

\* The payload's status may be any, completed included.
BeginCreate(r) ==
  /\ WorkPermitted
  /\ \E status \in TaskStatus : Start(r, [op |-> "create", status |-> status])

\* Deviation: a completed task need not be reopened first.
BeginUpdateLocked(r, t) ==
  /\ Exists(t)
  /\ WorkPermitted
  /\ \E status \in OpenStatus :
       Start(r, [op |-> "update", task |-> t, snap |-> rows[t], status |-> status])

\* A status that is not part of the payload is the one loaded; completed is
\* refused, and so is a task that is complete.
BeginUpdate(r, t) ==
  /\ Exists(t)
  /\ rows[t].completed_by = None
  /\ WorkPermitted
  /\ \E status \in OpenStatus :
       Start(r, [op |-> "update", task |-> t, snap |-> rows[t], status |-> status])

\* Deviation: complete() without assert_work_permitted.
BeginCompleteOnHold(r, t) ==
  /\ Exists(t)
  /\ rows[t].completed_by = None
  /\ \E by \in Staff :
       Start(r, [op |-> "complete", task |-> t, snap |-> rows[t], by |-> by])

\* Deviation: complete() without its check for a completed task.
BeginCompleteAgain(r, t) ==
  /\ Exists(t)
  /\ WorkPermitted
  /\ \E by \in Staff :
       Start(r, [op |-> "complete", task |-> t, snap |-> rows[t], by |-> by])

BeginComplete(r, t) ==
  /\ Exists(t)
  /\ rows[t].completed_by = None
  /\ WorkPermitted
  /\ \E by \in Staff :
       Start(r, [op |-> "complete", task |-> t, snap |-> rows[t], by |-> by])

\* Reopening asks nothing about the client.
BeginReopen(r, t) ==
  /\ Exists(t)
  /\ rows[t].completed_by # None
  /\ \E by \in Staff :
       Start(r, [op |-> "reopen", task |-> t, snap |-> rows[t], by |-> by])

BeginArchive(r, t) ==
  /\ Exists(t)
  /\ ~ rows[t].archived
  /\ Start(r, [op |-> "archive", task |-> t])

BeginRestore(r, t) ==
  /\ Exists(t)
  /\ rows[t].archived
  /\ Start(r, [op |-> "restore", task |-> t])

BeginSetStatus(r) ==
  \E status \in ClientStatus \ {client} :
    Start(r, [op |-> "set_status", status |-> status])

-----------------------------------------------------------------------------
\* The handler of slot r overwrites a task that is not as it was loaded.
Overwrites(h) ==
  \/ rows[h.task].status # h.snap.status
  \/ rows[h.task].completed_by # h.snap.completed_by

\* The transaction of slot r commits with row as its task's new row.
Commit(r, row) ==
  LET h == inflight[r] IN
    /\ rows' = [rows EXCEPT ![h.task] = row]
    /\ conflicted' = IF Overwrites(h) THEN conflicted \cup {h.task} ELSE conflicted
    /\ late' = late \ {r}
    /\ UNCHANGED client

UnusedIds == EntryIds \ {e.id : e \in UNION {audit[t] : t \in TaskIds}}

Record(r, action) ==
  LET h == inflight[r] IN
    \E id \in UnusedIds :
      audit' = [audit EXCEPT ![h.task] =
                  @ \cup {[id |-> id, action |-> action, by |-> h.by]}]

Free(r) == inflight' = [inflight EXCEPT ![r] = None]

CommitCreate(r) ==
  /\ Running(r, "create")
  /\ \E t \in TaskIds :
       /\ ~ Exists(t)
       /\ rows' = [rows EXCEPT ![t] = NewRow(inflight[r].status)]
  /\ Free(r)
  /\ late' = late \ {r}
  /\ UNCHANGED <<client, audit, mails, conflicted>>

CommitUpdate(r) ==
  /\ Running(r, "update")
  /\ LET h == inflight[r] IN
       Commit(r, [rows[h.task] EXCEPT !.status = Written(@, h.snap.status, h.status)])
  /\ Free(r)
  /\ UNCHANGED <<audit, mails>>

\* Deviation: the mail goes out, and then the commit, which may fail.
CommitCompleteMailFirst(r) ==
  /\ Running(r, "complete")
  /\ LET h == inflight[r] IN
       \/ /\ mails[h.task] <= Cardinality(audit[h.task])
          /\ mails' = [mails EXCEPT ![h.task] = @ + 1]
          /\ UNCHANGED <<client, rows, inflight, audit, conflicted, late>>
       \/ /\ Commit(r, [rows[h.task] EXCEPT
                          !.status = Written(@, h.snap.status, "completed"),
                          !.completed_by = h.by])
          /\ Record(r, "completed")
          /\ Free(r)
          /\ UNCHANGED mails

\* The completion and its audit entry commit together; the mail was rendered
\* before the commit and is sent after it.
CommitComplete(r) ==
  /\ Running(r, "complete")
  /\ LET h == inflight[r] IN
       /\ Commit(r, [rows[h.task] EXCEPT
                       !.status = Written(@, h.snap.status, "completed"),
                       !.completed_by = h.by])
       /\ inflight' = [inflight EXCEPT ![r] = [op |-> "dispatch", task |-> h.task]]
  /\ Record(r, "completed")
  /\ UNCHANGED mails

\* dispatch never raises: whatever becomes of the mail, the request is over.
Dispatch(r) ==
  /\ Running(r, "dispatch")
  /\ mails' = [mails EXCEPT ![inflight[r].task] = @ + 1]
  /\ Free(r)
  /\ UNCHANGED <<client, rows, audit, conflicted, late>>

\* Deviation: the completion is cleared and not audited.
CommitReopenSilent(r) ==
  /\ Running(r, "reopen")
  /\ LET h == inflight[r] IN
       Commit(r, [rows[h.task] EXCEPT
                    !.status = Written(@, h.snap.status, "in_progress"),
                    !.completed_by = None])
  /\ Free(r)
  /\ UNCHANGED <<audit, mails>>

CommitReopen(r) ==
  /\ Running(r, "reopen")
  /\ LET h == inflight[r] IN
       Commit(r, [rows[h.task] EXCEPT
                    !.status = Written(@, h.snap.status, "in_progress"),
                    !.completed_by = None])
  /\ Record(r, "reopened")
  /\ Free(r)
  /\ UNCHANGED mails

CommitArchive(r) ==
  /\ Running(r, "archive") \/ Running(r, "restore")
  /\ LET h == inflight[r] IN
       rows' = [rows EXCEPT ![h.task].archived = (h.op = "archive")]
  /\ Free(r)
  /\ late' = late \ {r}
  /\ UNCHANGED <<client, audit, mails, conflicted>>

\* client_service.set_status; the end of the user's sessions is not modelled
\* here.
CommitSetStatus(r) ==
  /\ Running(r, "set_status")
  /\ client' = inflight[r].status
  /\ late' = IF client' = "active" THEN late
             ELSE late \cup {q \in Requests : \E op \in Work : Running(q, op)}
  /\ Free(r)
  /\ UNCHANGED <<rows, audit, mails, conflicted>>

\* The request fails before its commit and is rolled back, or its process dies
\* before the mail is sent.
Abort(r) ==
  /\ inflight[r] # None
  /\ Free(r)
  /\ late' = late \ {r}
  /\ UNCHANGED <<client, rows, audit, mails, conflicted>>

Next ==
  \E r \in Requests :
    \/ BeginCreate(r)
    \/ BeginSetStatus(r)
    \/ \E t \in TaskIds :
         \/ BeginUpdate(r, t)
         \/ BeginComplete(r, t)
         \/ BeginReopen(r, t)
         \/ BeginArchive(r, t)
         \/ BeginRestore(r, t)
    \/ CommitCreate(r)
    \/ CommitUpdate(r)
    \/ CommitComplete(r)
    \/ Dispatch(r)
    \/ CommitReopen(r)
    \/ CommitArchive(r)
    \/ CommitSetStatus(r)
    \/ Abort(r)

Spec == Init /\ [][Next]_vars

-----------------------------------------------------------------------------
(***************************************************************************)
(* Properties                                                              *)
(***************************************************************************)

Completions(t) == {e \in audit[t] : e.action = "completed"}
Reopenings(t) == {e \in audit[t] : e.action = "reopened"}

\* The variables keep their shape; only work that was permitted can be late.
TypeOK ==
  /\ client \in ClientStatus
  /\ rows \in [TaskIds -> Row]
  /\ inflight \in [Requests -> Handler \cup {None}]
  /\ audit \in [TaskIds -> SUBSET AuditEntry]
  /\ mails \in [TaskIds -> Nat]
  /\ conflicted \subseteq TaskIds
  /\ late \subseteq {r \in Requests : \E op \in Work : Running(r, op)}

\* A task that carries a completion reads as completed, until it is reopened -
\* unless two handlers wrote it at once: "This task is complete. Reopen it
\* before making changes."
CompletedIsLocked ==
  \A t \in TaskIds \ conflicted :
    rows[t].completed_by # None => rows[t].status = "completed"

\* Whoever a task names as having completed it has an entry, and a completion that
\* is gone was reopened by somebody, whatever raced: "The audit entry preserves
\* what happened."
CompletionTraced ==
  \A t \in TaskIds :
    IF rows[t].completed_by # None
      THEN \E e \in Completions(t) : e.by = rows[t].completed_by
      ELSE Completions(t) # {} => Reopenings(t) # {}

\* A task is completed once between two reopenings: "Completing twice is
\* refused", unless two handlers wrote it at once.
CompletedOnce ==
  \A t \in TaskIds \ conflicted :
    Cardinality(Completions(t)) =
      Cardinality(Reopenings(t)) + IF rows[t].completed_by # None THEN 1 ELSE 0

\* No mail announces a completion that was not committed: "Sent after the
\* response so a mail failure cannot undo a completion".
MailFollowsCompletion ==
  \A t \in TaskIds : mails[t] <= Cardinality(Completions(t))

\* Task t is created or marked complete by this step.
WorkRecorded(t) ==
  \/ ~ Exists(t) /\ Exists(t)'
  \/ rows'[t].completed_by \notin {None, rows[t].completed_by}

\* "While an account is on Hold ... no new tasks, none marked complete": only a
\* request that had checked the client before can still record work.
HoldStopsWork ==
  [][client # "active" =>
       \A t \in TaskIds : WorkRecorded(t) =>
         \E r \in late : inflight'[r] # inflight[r]]_vars

-----------------------------------------------------------------------------
(***************************************************************************)
(* The inductive invariant behind the properties: what the guards left     *)
(* true of each handler's snapshot, and which work is late.                *)
(***************************************************************************)
HandlersGuarded ==
  \A r \in Requests : inflight[r] # None =>
    /\ inflight[r].op \notin {"create", "set_status"} => Exists(inflight[r].task)
    /\ inflight[r].op \in {"update", "complete"} => inflight[r].snap.completed_by = None
    /\ inflight[r].op = "reopen" => inflight[r].snap.completed_by # None

AbsentUntouched ==
  \A t \in TaskIds : ~ Exists(t) =>
    audit[t] = {} /\ rows[t].completed_by = None /\ t \notin conflicted

\* While the client is not active all work under way is late.
LateKnown ==
  client # "active" =>
    \A r \in Requests, op \in Work : Running(r, op) => r \in late

\* A mail that is still to be sent has its audit entry too.
Dispatching(t) ==
  {r \in Requests : Running(r, "dispatch") /\ inflight[r].task = t}

MailsAccounted ==
  \A t \in TaskIds :
    mails[t] + Cardinality(Dispatching(t)) <= Cardinality(Completions(t))

LogsFinite == \A t \in TaskIds : IsFiniteSet(audit[t])

IInv == TypeOK /\ LogsFinite /\ HandlersGuarded /\ AbsentUntouched /\ LateKnown
               /\ CompletedIsLocked /\ CompletionTraced /\ CompletedOnce

MailIInv == IInv /\ MailsAccounted
=============================================================================
