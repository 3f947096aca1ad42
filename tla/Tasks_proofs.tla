---------------------------- MODULE Tasks_proofs ----------------------------
(***************************************************************************)
(* Proofs about Tasks, for every number of requests, tasks and staff: IInv *)
(* is inductive, and the safety properties of the module follow from it.   *)
(***************************************************************************)
EXTENDS Tasks, FiniteSetTheorems, TLAPS

\* What CompletionTraced and CompletedOnce ask of one row and its log.
Completed(log) == {e \in log : e.action = "completed"}
Reopened(log) == {e \in log : e.action = "reopened"}

Traced(row, log) ==
  IF row.completed_by # None
    THEN \E e \in Completed(log) : e.by = row.completed_by
    ELSE Completed(log) # {} => Reopened(log) # {}

Balanced(row, log) ==
  Cardinality(Completed(log)) =
    Cardinality(Reopened(log)) + IF row.completed_by # None THEN 1 ELSE 0

LEMMA PerTask ==
  /\ CompletionTraced <=> \A t \in TaskIds : Traced(rows[t], audit[t])
  /\ CompletedOnce <=> \A t \in TaskIds \ conflicted : Balanced(rows[t], audit[t])
  BY DEF CompletionTraced, CompletedOnce, Traced, Balanced, Completed, Reopened,
         Completions, Reopenings

LEMMA InitIInv == Init => IInv
<1> SUFFICES ASSUME Init PROVE IInv
  OBVIOUS
<1>1. /\ rows = [t \in TaskIds |-> NewRow("absent")] /\ audit = [t \in TaskIds |-> {}]
      /\ \A status : NewRow(status).completed_by = None
  BY DEF Init, NewRow
<1>2. TypeOK /\ HandlersGuarded /\ AbsentUntouched /\ LateKnown /\ CompletedIsLocked
  BY ConstantsAssumption
  DEF Init, TypeOK, HandlersGuarded, AbsentUntouched, LateKnown, CompletedIsLocked,
      Running, Exists, NewRow, Row, TaskStatus, OpenStatus, ClientStatus
<1>3. LogsFinite
  BY <1>1, FS_EmptySet DEF LogsFinite
<1>4. Completed({}) = {} /\ Reopened({}) = {}
  BY DEF Completed, Reopened
<1>5. CompletionTraced
  BY <1>1, <1>4, PerTask DEF Traced
<1>6. CompletedOnce
  BY <1>1, <1>4, FS_EmptySet, PerTask DEF Balanced
<1> QED
  BY <1>2, <1>3, <1>5, <1>6 DEF IInv

-----------------------------------------------------------------------------
\* A handler that starts.
LEMMA StartPreserves ==
  ASSUME IInv, NEW r \in Requests, NEW h \in Handler, Start(r, h),
         h.op \notin {"create", "set_status"} => Exists(h.task),
         h.op \in {"update", "complete"} => h.snap.completed_by = None,
         h.op = "reopen" => h.snap.completed_by # None,
         h.op \in Work => client = "active"
  PROVE  IInv'
<1> USE DEF IInv
<1>1. /\ rows' = rows /\ client' = client /\ audit' = audit /\ mails' = mails
      /\ conflicted' = conflicted /\ late' = late
  BY DEF Start
<1>2. /\ inflight' \in [Requests -> Handler \cup {None}] /\ inflight'[r] = h
      /\ \A q \in Requests \ {r} : inflight'[q] = inflight[q]
      /\ inflight[r] = None
  BY DEF Start, TypeOK
<1>3. TypeOK'
  BY <1>1, <1>2 DEF TypeOK, Running
<1>4. HandlersGuarded'
  BY <1>1, <1>2 DEF HandlersGuarded, Exists
<1>5. LateKnown'
  BY <1>1, <1>2 DEF LateKnown, Running
<1>6. AbsentUntouched' /\ LogsFinite' /\ CompletedIsLocked'
  BY <1>1 DEF AbsentUntouched, LogsFinite, CompletedIsLocked, Exists
<1>7. CompletionTraced' /\ CompletedOnce'
  BY <1>1 DEF CompletionTraced, CompletedOnce, Completions, Reopenings
<1> QED
  BY <1>3, <1>4, <1>5, <1>6, <1>7

\* A handler that commits: slot r is freed, or has a mail left to send, and is
\* late no more; no task disappears and the client's status stays.
LEMMA FreePreserves ==
  ASSUME IInv, NEW r \in Requests,
         NEW h \in [op: {"dispatch"}, task: TaskIds] \cup {None},
         inflight' = [inflight EXCEPT ![r] = h],
         late' = late \ {r}, client' = client,
         \A t \in TaskIds : Exists(t) => rows'[t].status # "absent",
         h # None => Exists(h.task)
  PROVE  /\ inflight' \in [Requests -> Handler \cup {None}]
         /\ late' \subseteq {q \in Requests : \E op \in Work : Running(q, op)'}
         /\ HandlersGuarded'
         /\ LateKnown'
<1> USE DEF IInv
<1>1. h \in Handler \cup {None} /\ (h # None => h.op = "dispatch" /\ h.task \in TaskIds)
  BY DEF Handler
<1>2. /\ inflight' \in [Requests -> Handler \cup {None}] /\ inflight'[r] = h
      /\ \A q \in Requests \ {r} : inflight'[q] = inflight[q]
  BY <1>1 DEF TypeOK
<1>3. late' \subseteq {q \in Requests : \E op \in Work : Running(q, op)'}
  BY <1>2 DEF TypeOK, Running
<1>4. HandlersGuarded'
  <2> SUFFICES ASSUME NEW q \in Requests, inflight'[q] # None
               PROVE  /\ inflight'[q].op \notin {"create", "set_status"} =>
                           rows'[inflight'[q].task].status # "absent"
                      /\ inflight'[q].op \in {"update", "complete"} =>
                           inflight'[q].snap.completed_by = None
                      /\ inflight'[q].op = "reopen" =>
                           inflight'[q].snap.completed_by # None
    BY DEF HandlersGuarded, Exists
  <2>1. CASE q = r
    BY <2>1, <1>1, <1>2
  <2>2. CASE q # r
    <3>1. inflight'[q] = inflight[q] /\ inflight[q] \in Handler
      BY <2>2, <1>2 DEF TypeOK
    <3>2. inflight[q].op \notin {"create", "set_status"} => inflight[q].task \in TaskIds
      BY <3>1 DEF Handler
    <3> QED
      BY <3>1, <3>2 DEF HandlersGuarded
  <2> QED
    BY <2>1, <2>2
<1>5. LateKnown'
  BY <1>1, <1>2 DEF LateKnown, Running, Work
<1> QED
  BY <1>2, <1>3, <1>4, <1>5

\* What a handler loaded, by operation.
LEMMA HandlerShape ==
  ASSUME IInv, NEW r \in Requests, NEW op, Running(r, op)
  PROVE  /\ op = "create" => inflight[r].status \in TaskStatus
         /\ op = "update" => inflight[r].status \in OpenStatus
         /\ op \in {"complete", "reopen"} => inflight[r].by \in Staff
         /\ op \in {"update", "complete", "reopen"} =>
              inflight[r].snap \in Row
         /\ op \in {"update", "complete", "reopen", "archive", "restore", "dispatch"} =>
              inflight[r].task \in TaskIds /\ Exists(inflight[r].task)
         /\ op = "set_status" => inflight[r].status \in ClientStatus
         /\ op \in {"update", "complete"} => inflight[r].snap.completed_by = None
         /\ op = "reopen" => inflight[r].snap.completed_by # None
<1>1. inflight[r] \in Handler /\ inflight[r].op = op
  BY DEF IInv, TypeOK, Running
<1> QED
  BY <1>1 DEF IInv, HandlersGuarded, Handler, Running
-----------------------------------------------------------------------------
\* A handler that writes one task's row, and perhaps its log, and is done.
LEMMA RowPreserves ==
  ASSUME IInv, NEW r \in Requests,
         NEW h \in [op: {"dispatch"}, task: TaskIds] \cup {None},
         inflight' = [inflight EXCEPT ![r] = h], h # None => Exists(h.task),
         late' = late \ {r}, client' = client, mails' \in [TaskIds -> Nat],
         NEW t \in TaskIds, Exists(t),
         NEW row \in Row, rows' = [rows EXCEPT ![t] = row], row.status # "absent",
         NEW log \in SUBSET AuditEntry, IsFiniteSet(log),
         audit' = [audit EXCEPT ![t] = log],
         conflicted \subseteq conflicted', conflicted' \subseteq conflicted \cup {t},
         t \notin conflicted' /\ row.completed_by # None => row.status = "completed",
         Traced(row, log), t \notin conflicted' => Balanced(row, log)
  PROVE  IInv'
<1> USE DEF IInv
<1>1. /\ rows' \in [TaskIds -> Row] /\ rows'[t] = row
      /\ \A u \in TaskIds \ {t} : rows'[u] = rows[u]
  BY DEF TypeOK
<1>2. /\ audit' \in [TaskIds -> SUBSET AuditEntry] /\ audit'[t] = log
      /\ \A u \in TaskIds \ {t} : audit'[u] = audit[u]
  BY DEF TypeOK
<1>3. /\ inflight' \in [Requests -> Handler \cup {None}]
      /\ late' \subseteq {q \in Requests : \E op \in Work : Running(q, op)'}
      /\ HandlersGuarded' /\ LateKnown'
  <2>1. \A u \in TaskIds : Exists(u) => rows'[u].status # "absent"
    BY <1>1 DEF Exists
  <2> QED
    BY <2>1, FreePreserves
<1>4. TypeOK'
  BY <1>1, <1>2, <1>3 DEF TypeOK
<1>5. AbsentUntouched'
  BY <1>1, <1>2 DEF AbsentUntouched, Exists
<1>6. CompletedIsLocked'
  BY <1>1 DEF CompletedIsLocked
<1>7. LogsFinite'
  BY <1>2 DEF LogsFinite
<1>8. CompletionTraced'
  <2> SUFFICES ASSUME NEW u \in TaskIds PROVE Traced(rows'[u], audit'[u])
    BY DEF Traced, Completed, Reopened, CompletionTraced, Completions, Reopenings
  <2>1. CASE u = t
    BY <2>1, <1>1, <1>2
  <2>2. CASE u # t
    BY <2>2, <1>1, <1>2, PerTask
  <2> QED
    BY <2>1, <2>2
<1>9. CompletedOnce'
  <2> SUFFICES ASSUME NEW u \in TaskIds \ conflicted' PROVE Balanced(rows'[u], audit'[u])
    BY DEF Balanced, Completed, Reopened, CompletedOnce, Completions, Reopenings
  <2>1. CASE u = t
    BY <2>1, <1>1, <1>2
  <2>2. CASE u # t
    BY <2>2, <1>1, <1>2, PerTask
  <2> QED
    BY <2>1, <2>2
<1> QED
  BY <1>3, <1>4, <1>5, <1>6, <1>7, <1>8, <1>9

LEMMA CommitUpdatePreserves ==
  ASSUME IInv, NEW r \in Requests, CommitUpdate(r)
  PROVE  IInv'
<1> USE DEF IInv
<1> DEFINE h == inflight[r]
           t == h.task
           row == [rows[t] EXCEPT !.status = Written(@, h.snap.status, h.status)]
<1>1. /\ t \in TaskIds /\ Exists(t) /\ h.status \in OpenStatus
      /\ h.snap \in Row /\ h.snap.completed_by = None
  BY HandlerShape DEF CommitUpdate
<1>2. rows[t] \in Row /\ audit[t] \in SUBSET AuditEntry /\ IsFiniteSet(audit[t])
  BY <1>1 DEF TypeOK, LogsFinite
<1>3. /\ row \in Row /\ row.completed_by = rows[t].completed_by
      /\ row.status \in {h.status, rows[t].status}
  BY <1>1, <1>2 DEF Row, Written, TaskStatus
<1>4. row.status # "absent"
  BY <1>1, <1>3 DEF Exists, OpenStatus
<1>5. /\ Commit(r, row) /\ Free(r) /\ audit' = audit /\ mails' = mails
  BY DEF CommitUpdate
<1> HIDE DEF row
<1>6. audit' = [audit EXCEPT ![t] = audit[t]]
  BY <1>5 DEF TypeOK
<1>7. /\ rows' = [rows EXCEPT ![t] = row] /\ late' = late \ {r} /\ client' = client
      /\ conflicted' = IF Overwrites(h) THEN conflicted \cup {t} ELSE conflicted
      /\ inflight' = [inflight EXCEPT ![r] = None]
  BY <1>5 DEF Commit, Free
<1>8. t \notin conflicted' => row.completed_by = None
  BY <1>1, <1>3, <1>7 DEF Overwrites
<1>9. Traced(row, audit[t])
  BY <1>1, <1>3, PerTask DEF Traced
<1>10. t \notin conflicted' => Balanced(row, audit[t])
  BY <1>1, <1>3, <1>7, PerTask DEF Balanced
<1>11. mails' \in [TaskIds -> Nat] /\ conflicted \subseteq conflicted'
       /\ conflicted' \subseteq conflicted \cup {t}
  BY <1>5, <1>7 DEF TypeOK
<1> HIDE DEF t, h
<1> QED
  BY <1>1, <1>2, <1>3, <1>4, <1>6, <1>7, <1>8, <1>9, <1>10, <1>11, RowPreserves

\* A log that gets an entry: what it holds then, and how much of it.
LEMMA LogExtended ==
  ASSUME NEW log, log \in SUBSET AuditEntry, IsFiniteSet(log),
         NEW e, e \in AuditEntry, e \notin log
  PROVE  /\ log \cup {e} \in SUBSET AuditEntry /\ IsFiniteSet(log \cup {e})
         /\ Cardinality(Completed(log)) \in Nat /\ Cardinality(Reopened(log)) \in Nat
         /\ Cardinality(Completed(log) \cup {e}) = Cardinality(Completed(log)) + 1
         /\ Cardinality(Reopened(log) \cup {e}) = Cardinality(Reopened(log)) + 1
<1>1. /\ Completed(log) \in SUBSET log /\ Reopened(log) \in SUBSET log
      /\ e \notin Completed(log) /\ e \notin Reopened(log)
  BY DEF Completed, Reopened
<1>2. /\ IsFiniteSet(Completed(log)) /\ Cardinality(Completed(log)) \in Nat
      /\ IsFiniteSet(Reopened(log)) /\ Cardinality(Reopened(log)) \in Nat
  BY <1>1, FS_Subset, FS_CardinalityType
<1>3. /\ Cardinality(Completed(log) \cup {e}) = Cardinality(Completed(log)) + 1
      /\ Cardinality(Reopened(log) \cup {e}) = Cardinality(Reopened(log)) + 1
  BY <1>1, <1>2, FS_AddElement
<1>4. log \cup {e} \in SUBSET AuditEntry /\ IsFiniteSet(log \cup {e})
  BY FS_AddElement
<1> QED
  BY <1>2, <1>3, <1>4

\* The entry that Record adds is new to the log.
LEMMA EntryAdded ==
  ASSUME IInv, NEW r \in Requests, NEW action \in {"completed", "reopened"},
         inflight[r].task \in TaskIds, inflight[r].by \in Staff, Record(r, action)
  PROVE  \E e \in AuditEntry :
           /\ e.action = action /\ e.by = inflight[r].by
           /\ e \notin audit[inflight[r].task]
           /\ audit' = [audit EXCEPT ![inflight[r].task] =
                          audit[inflight[r].task] \cup {e}]
<1>1. PICK id \in UnusedIds :
        audit' = [audit EXCEPT ![inflight[r].task] =
                    @ \cup {[id |-> id, action |-> action, by |-> inflight[r].by]}]
  BY DEF Record
<1> DEFINE e == [id |-> id, action |-> action, by |-> inflight[r].by]
<1>2. e \in AuditEntry /\ e.action = action /\ e.by = inflight[r].by /\ e.id = id
  BY DEF AuditEntry, UnusedIds
<1> HIDE DEF e
<1>3. e \notin audit[inflight[r].task]
  BY <1>2 DEF UnusedIds
<1>4. audit' = [audit EXCEPT ![inflight[r].task] = audit[inflight[r].task] \cup {e}]
  BY <1>1 DEF e, IInv, TypeOK
<1> QED
  BY <1>2, <1>3, <1>4

LEMMA CommitCompletePreserves ==
  ASSUME IInv, NEW r \in Requests, CommitComplete(r)
  PROVE  IInv'
<1> USE DEF IInv
<1> DEFINE h == inflight[r]
           t == h.task
           row == [rows[t] EXCEPT !.status = Written(@, h.snap.status, "completed"),
                                  !.completed_by = h.by]
           d == [op |-> "dispatch", task |-> t]
<1>1. /\ t \in TaskIds /\ Exists(t) /\ h.by \in Staff
      /\ h.snap \in Row /\ h.snap.completed_by = None
  BY HandlerShape DEF CommitComplete
<1>2. rows[t] \in Row /\ audit[t] \in SUBSET AuditEntry /\ IsFiniteSet(audit[t])
  BY <1>1 DEF TypeOK, LogsFinite
<1>3. /\ row \in Row /\ row.completed_by = h.by /\ row.status # "absent"
      /\ h.snap.status = rows[t].status => row.status = "completed"
  BY <1>1, <1>2 DEF Row, Written, TaskStatus, Exists
<1>4. /\ Commit(r, row) /\ Record(r, "completed") /\ mails' = mails
      /\ inflight' = [inflight EXCEPT ![r] = d]
  BY DEF CommitComplete
<1>5. d \in [op: {"dispatch"}, task: TaskIds] \cup {None} /\ d.task = t
  BY <1>1
<1>6. PICK e \in AuditEntry :
        /\ e.action = "completed" /\ e.by = h.by /\ e \notin audit[t]
        /\ audit' = [audit EXCEPT ![t] = audit[t] \cup {e}]
  BY <1>1, <1>4, EntryAdded
<1> DEFINE log == audit[t] \cup {e}
<1>7. /\ log \in SUBSET AuditEntry /\ IsFiniteSet(log)
      /\ Completed(log) = Completed(audit[t]) \cup {e}
      /\ Reopened(log) = Reopened(audit[t])
      /\ Cardinality(Completed(log)) = Cardinality(Completed(audit[t])) + 1
      /\ Cardinality(Reopened(audit[t])) \in Nat
  <2>1. Completed(log) = Completed(audit[t]) \cup {e} /\ Reopened(log) = Reopened(audit[t])
    BY <1>6 DEF Completed, Reopened
  <2> QED
    BY <1>2, <1>6, <2>1, LogExtended
<1>8. /\ rows' = [rows EXCEPT ![t] = row] /\ late' = late \ {r} /\ client' = client
      /\ conflicted' = IF Overwrites(h) THEN conflicted \cup {t} ELSE conflicted
      /\ audit' = [audit EXCEPT ![t] = log]
  BY <1>4, <1>6 DEF Commit
<1> HIDE DEF row, log
<1>9. t \notin conflicted' =>
        /\ t \notin conflicted
        /\ rows[t].status = h.snap.status /\ rows[t].completed_by = None
  BY <1>1, <1>8 DEF Overwrites
<1>10. row.completed_by # None
  BY <1>1, <1>3, ConstantsAssumption
<1>11. Traced(row, log)
  BY <1>3, <1>6, <1>7, <1>10 DEF Traced
<1>12. t \notin conflicted' => Balanced(row, log)
  <2> SUFFICES ASSUME t \notin conflicted' PROVE Balanced(row, log)
    OBVIOUS
  <2>1. Cardinality(Completed(audit[t])) = Cardinality(Reopened(audit[t])) + 0
    BY <1>1, <1>9, PerTask DEF Balanced
  <2> QED
    BY <1>7, <1>10, <2>1 DEF Balanced
<1>13. mails' \in [TaskIds -> Nat] /\ conflicted \subseteq conflicted'
       /\ conflicted' \subseteq conflicted \cup {t}
  BY <1>4, <1>8 DEF TypeOK
<1> HIDE DEF d, t, h
<1> QED
  BY <1>1, <1>3, <1>4, <1>5, <1>7, <1>8, <1>9, <1>11, <1>12, <1>13, RowPreserves

LEMMA CommitReopenPreserves ==
  ASSUME IInv, NEW r \in Requests, CommitReopen(r)
  PROVE  IInv'
<1> USE DEF IInv
<1> DEFINE h == inflight[r]
           t == h.task
           row == [rows[t] EXCEPT !.status = Written(@, h.snap.status, "in_progress"),
                                  !.completed_by = None]
<1>1. /\ t \in TaskIds /\ Exists(t) /\ h.by \in Staff
      /\ h.snap \in Row /\ h.snap.completed_by # None
  BY HandlerShape DEF CommitReopen
<1>2. rows[t] \in Row /\ audit[t] \in SUBSET AuditEntry /\ IsFiniteSet(audit[t])
  BY <1>1 DEF TypeOK, LogsFinite
<1>3. /\ row \in Row /\ row.completed_by = None /\ row.status # "absent"
  BY <1>1, <1>2 DEF Row, Written, TaskStatus, OpenStatus, Exists
<1>4. /\ Commit(r, row) /\ Record(r, "reopened") /\ Free(r) /\ mails' = mails
  BY DEF CommitReopen
<1>5. PICK e \in AuditEntry :
        /\ e.action = "reopened" /\ e.by = h.by /\ e \notin audit[t]
        /\ audit' = [audit EXCEPT ![t] = audit[t] \cup {e}]
  BY <1>1, <1>4, EntryAdded
<1> DEFINE log == audit[t] \cup {e}
<1>6. /\ log \in SUBSET AuditEntry /\ IsFiniteSet(log)
      /\ Completed(log) = Completed(audit[t])
      /\ Reopened(log) = Reopened(audit[t]) \cup {e}
      /\ Cardinality(Reopened(log)) = Cardinality(Reopened(audit[t])) + 1
      /\ Cardinality(Reopened(audit[t])) \in Nat
  <2>1. Completed(log) = Completed(audit[t]) /\ Reopened(log) = Reopened(audit[t]) \cup {e}
    BY <1>5 DEF Completed, Reopened
  <2> QED
    BY <1>2, <1>5, <2>1, LogExtended
<1>7. /\ rows' = [rows EXCEPT ![t] = row] /\ late' = late \ {r} /\ client' = client
      /\ conflicted' = IF Overwrites(h) THEN conflicted \cup {t} ELSE conflicted
      /\ audit' = [audit EXCEPT ![t] = log]
      /\ inflight' = [inflight EXCEPT ![r] = None]
  BY <1>4, <1>5 DEF Commit, Free
<1> HIDE DEF row, log
<1>8. Traced(row, log)
  BY <1>3, <1>6 DEF Traced
<1>9. t \notin conflicted' => Balanced(row, log)
  <2> SUFFICES ASSUME t \notin conflicted' PROVE Balanced(row, log)
    OBVIOUS
  <2>1. t \notin conflicted /\ rows[t].completed_by # None
    BY <1>1, <1>7 DEF Overwrites
  <2>2. Cardinality(Completed(audit[t])) = Cardinality(Reopened(audit[t])) + 1
    BY <1>1, <2>1, PerTask DEF Balanced
  <2> QED
    BY <1>3, <1>6, <2>2 DEF Balanced
<1>10. mails' \in [TaskIds -> Nat] /\ conflicted \subseteq conflicted'
       /\ conflicted' \subseteq conflicted \cup {t}
  BY <1>4, <1>7 DEF TypeOK
<1> HIDE DEF t, h
<1> QED
  BY <1>1, <1>3, <1>6, <1>7, <1>8, <1>9, <1>10, RowPreserves

LEMMA CommitArchivePreserves ==
  ASSUME IInv, NEW r \in Requests, CommitArchive(r)
  PROVE  IInv'
<1> USE DEF IInv
<1> DEFINE t == inflight[r].task
           row == [rows[t] EXCEPT !.archived = (inflight[r].op = "archive")]
<1>1. t \in TaskIds /\ Exists(t)
  BY HandlerShape DEF CommitArchive
<1>2. rows[t] \in Row /\ audit[t] \in SUBSET AuditEntry /\ IsFiniteSet(audit[t])
  BY <1>1 DEF TypeOK, LogsFinite
<1>3. /\ row \in Row /\ row.completed_by = rows[t].completed_by
      /\ row.status = rows[t].status
  BY <1>2 DEF Row
<1>4. /\ rows' = [rows EXCEPT ![t] = row] /\ Free(r) /\ late' = late \ {r}
      /\ client' = client /\ mails' = mails /\ conflicted' = conflicted
      /\ audit' = [audit EXCEPT ![t] = audit[t]]
  BY DEF CommitArchive, TypeOK
<1>5. inflight' = [inflight EXCEPT ![r] = None] /\ mails' \in [TaskIds -> Nat]
      /\ row.status # "absent"
  BY <1>1, <1>3, <1>4 DEF Free, Exists, TypeOK
<1>6. t \notin conflicted =>
        /\ row.completed_by # None => row.status = "completed"
        /\ Balanced(row, audit[t])
  BY <1>1, <1>3, PerTask DEF CompletedIsLocked, Balanced
<1>7. Traced(row, audit[t])
  BY <1>1, <1>3, PerTask DEF Traced
<1> HIDE DEF row, t
<1> QED
  BY <1>1, <1>2, <1>3, <1>4, <1>5, <1>6, <1>7, RowPreserves

LEMMA CommitCreatePreserves ==
  ASSUME IInv, NEW r \in Requests, CommitCreate(r)
  PROVE  IInv'
<1> USE DEF IInv
<1>1. inflight[r].status \in TaskStatus
  BY HandlerShape DEF CommitCreate
<1>2. PICK t \in TaskIds : ~ Exists(t)
                           /\ rows' = [rows EXCEPT ![t] = NewRow(inflight[r].status)]
  BY DEF CommitCreate
<1> DEFINE row == NewRow(inflight[r].status)
<1>3. row \in Row /\ row.completed_by = None /\ row.status # "absent"
  BY <1>1 DEF NewRow, Row, TaskStatus, OpenStatus
<1>4. /\ inflight' = [inflight EXCEPT ![r] = None] /\ late' = late \ {r}
      /\ client' = client /\ audit' = audit /\ mails' = mails /\ conflicted' = conflicted
  BY DEF CommitCreate, Free
<1> HIDE DEF row
<1>5. /\ rows' \in [TaskIds -> Row] /\ rows'[t] = row
      /\ \A u \in TaskIds \ {t} : rows'[u] = rows[u]
  BY <1>2, <1>3 DEF TypeOK, row
<1>6. \A u \in TaskIds : Exists(u) => rows'[u].status # "absent"
  BY <1>3, <1>5 DEF Exists
<1>7. /\ inflight' \in [Requests -> Handler \cup {None}]
      /\ late' \subseteq {q \in Requests : \E op \in Work : Running(q, op)'}
      /\ HandlersGuarded' /\ LateKnown'
  BY <1>4, <1>6, FreePreserves
<1>8. TypeOK'
  BY <1>4, <1>5, <1>7 DEF TypeOK
<1>9. AbsentUntouched' /\ LogsFinite' /\ CompletedIsLocked'
  BY <1>3, <1>4, <1>5 DEF AbsentUntouched, LogsFinite, CompletedIsLocked, Exists
<1>10. \A u \in TaskIds : rows'[u].completed_by = rows[u].completed_by
  BY <1>2, <1>3, <1>5 DEF AbsentUntouched
<1>11. CompletionTraced' /\ CompletedOnce'
  BY <1>4, <1>10 DEF CompletionTraced, CompletedOnce, Completions, Reopenings
<1> QED
  BY <1>7, <1>8, <1>9, <1>11

\* The steps that touch no task: only the client's status, the mails and the
\* handlers change.
LEMMA QuietPreserves ==
  ASSUME IInv, NEW r \in Requests,
         CommitSetStatus(r) \/ Dispatch(r) \/ Abort(r)
  PROVE  IInv'
<1> USE DEF IInv
<1>1. /\ rows' = rows /\ audit' = audit /\ conflicted' = conflicted
      /\ inflight' = [inflight EXCEPT ![r] = None]
  BY DEF CommitSetStatus, Dispatch, Abort, Free
<1>2. /\ AbsentUntouched' /\ LogsFinite' /\ CompletedIsLocked'
      /\ CompletionTraced' /\ CompletedOnce'
  BY <1>1 DEF AbsentUntouched, LogsFinite, CompletedIsLocked, CompletionTraced,
              CompletedOnce, Completions, Reopenings, Exists
<1>3. /\ inflight' \in [Requests -> Handler \cup {None}] /\ inflight'[r] = None
      /\ \A q \in Requests \ {r} : inflight'[q] = inflight[q]
  BY <1>1 DEF TypeOK
<1>4. mails' \in [TaskIds -> Nat] /\ client' \in ClientStatus
  <2>1. CASE Dispatch(r)
    BY <2>1, HandlerShape DEF Dispatch, TypeOK
  <2>2. CASE Abort(r)
    BY <2>2 DEF Abort, TypeOK
  <2>3. CASE CommitSetStatus(r)
    BY <2>3, HandlerShape DEF CommitSetStatus, TypeOK
  <2> QED
    BY <2>1, <2>2, <2>3
<1>5. late' \subseteq {q \in Requests : \E op \in Work : Running(q, op)'}
  <2>1. CASE Dispatch(r) \/ Abort(r)
    BY <2>1, <1>3 DEF Dispatch, Abort, TypeOK, Running, Work
  <2>2. CASE CommitSetStatus(r)
    BY <2>2, <1>3 DEF CommitSetStatus, TypeOK, Running, Work
  <2> QED
    BY <2>1, <2>2
<1>6. HandlersGuarded'
  BY <1>1, <1>3 DEF HandlersGuarded, Exists
<1>7. LateKnown'
  <2>1. CASE Dispatch(r) \/ Abort(r)
    BY <2>1, <1>3 DEF Dispatch, Abort, LateKnown, Running, Work
  <2>2. CASE CommitSetStatus(r)
    BY <2>2, <1>3 DEF CommitSetStatus, LateKnown, Running, Work
  <2> QED
    BY <2>1, <2>2
<1> QED
  BY <1>1, <1>2, <1>3, <1>4, <1>5, <1>6, <1>7 DEF TypeOK
LEMMA StepIInv == IInv /\ [Next]_vars => IInv'
<1> SUFFICES ASSUME IInv, [Next]_vars PROVE IInv'
  OBVIOUS
<1>1. ASSUME NEW r \in Requests, BeginCreate(r) PROVE IInv'
  <2>1. PICK status \in TaskStatus : Start(r, [op |-> "create", status |-> status])
    BY <1>1 DEF BeginCreate
  <2> DEFINE h == [op |-> "create", status |-> status]
  <2>2. h \in Handler /\ h.op = "create" /\ client = "active"
    BY <1>1 DEF Handler, BeginCreate, WorkPermitted
  <2> HIDE DEF h
  <2> QED
    BY <2>1, <2>2, StartPreserves DEF h
<1>2. ASSUME NEW r \in Requests, BeginSetStatus(r) PROVE IInv'
  <2>1. PICK status \in ClientStatus : Start(r, [op |-> "set_status", status |-> status])
    BY <1>2 DEF BeginSetStatus
  <2> DEFINE h == [op |-> "set_status", status |-> status]
  <2>2. h \in Handler /\ h.op = "set_status"
    BY DEF Handler
  <2> HIDE DEF h
  <2> QED
    BY <2>1, <2>2, StartPreserves DEF h, Work
<1>3. ASSUME NEW r \in Requests, NEW t \in TaskIds, BeginUpdate(r, t) PROVE IInv'
  <2>1. PICK status \in OpenStatus :
          Start(r, [op |-> "update", task |-> t, snap |-> rows[t], status |-> status])
    BY <1>3 DEF BeginUpdate
  <2> DEFINE h == [op |-> "update", task |-> t, snap |-> rows[t], status |-> status]
  <2>2. h \in Handler
    BY DEF IInv, TypeOK, Handler
  <2>3. /\ h.op = "update" /\ h.task = t /\ h.snap = rows[t] /\ Exists(t)
        /\ rows[t].completed_by = None /\ client = "active"
    BY <1>3 DEF BeginUpdate, WorkPermitted
  <2> HIDE DEF h
  <2> QED
    BY <2>1, <2>2, <2>3, StartPreserves DEF h
<1>4. ASSUME NEW r \in Requests, NEW t \in TaskIds, NEW op \in {"complete", "reopen"},
             NEW by \in Staff, Exists(t),
             Start(r, [op |-> op, task |-> t, snap |-> rows[t], by |-> by]),
             op = "complete" => rows[t].completed_by = None /\ client = "active",
             op = "reopen" => rows[t].completed_by # None
      PROVE  IInv'
  <2> DEFINE h == [op |-> op, task |-> t, snap |-> rows[t], by |-> by]
  <2>1. h \in Handler
    BY DEF IInv, TypeOK, Handler
  <2>2. h.op = op /\ h.task = t /\ h.snap = rows[t] /\ Start(r, h)
    BY <1>4
  <2> HIDE DEF h
  <2> QED
    BY <1>4, <2>1, <2>2, StartPreserves DEF Work
<1>5. ASSUME NEW r \in Requests, NEW t \in TaskIds, BeginComplete(r, t) PROVE IInv'
  BY <1>4, <1>5 DEF BeginComplete, WorkPermitted
<1>6. ASSUME NEW r \in Requests, NEW t \in TaskIds, BeginReopen(r, t) PROVE IInv'
  BY <1>4, <1>6 DEF BeginReopen
<1>7. ASSUME NEW r \in Requests, NEW t \in TaskIds,
             BeginArchive(r, t) \/ BeginRestore(r, t)
      PROVE  IInv'
  <2>1. PICK op \in {"archive", "restore"} : Start(r, [op |-> op, task |-> t])
    BY <1>7 DEF BeginArchive, BeginRestore
  <2> DEFINE h == [op |-> op, task |-> t]
  <2>2. h \in Handler /\ h.op = op /\ h.task = t /\ Exists(t)
    BY <1>7 DEF Handler, BeginArchive, BeginRestore
  <2> HIDE DEF h
  <2> QED
    BY <2>1, <2>2, StartPreserves DEF h, Work
<1>8. CASE UNCHANGED vars
  BY <1>8 DEF vars, IInv, TypeOK, LogsFinite, HandlersGuarded, AbsentUntouched, LateKnown,
              CompletedIsLocked, CompletionTraced, CompletedOnce, Completions, Reopenings,
              Running, Exists
<1> QED
  BY <1>1, <1>2, <1>3, <1>5, <1>6, <1>7, <1>8, CommitCreatePreserves,
     CommitUpdatePreserves, CommitCompletePreserves, CommitReopenPreserves,
     CommitArchivePreserves, QuietPreserves DEF Next

-----------------------------------------------------------------------------
(***************************************************************************)
(* Mails: the sets that MailsAccounted counts, and what each step does to  *)
(* them.                                                                   *)
(***************************************************************************)
LEMMA Counted ==
  ASSUME IInv, NEW t \in TaskIds
  PROVE  /\ IsFiniteSet(Dispatching(t)) /\ IsFiniteSet(Completions(t))
         /\ Cardinality(Dispatching(t)) \in Nat /\ Cardinality(Completions(t)) \in Nat
<1>1. IsFiniteSet(Dispatching(t))
  BY FiniteRequests, FS_Subset DEF Dispatching
<1>2. IsFiniteSet(Completions(t))
  BY FS_Subset DEF Completions, IInv, LogsFinite
<1> QED
  BY <1>1, <1>2, FS_CardinalityType

LEMMA CommitCompleteAccounts ==
  ASSUME IInv, MailsAccounted, NEW r \in Requests, CommitComplete(r)
  PROVE  MailsAccounted'
<1>0. PICK t \in TaskIds : t = inflight[r].task
  BY HandlerShape DEF CommitComplete
<1>1. Running(r, "complete") /\ inflight[r].by \in Staff
  BY HandlerShape DEF CommitComplete
<1>e. PICK e \in AuditEntry :
        /\ e.action = "completed" /\ e \notin audit[t]
        /\ audit' = [audit EXCEPT ![t] = audit[t] \cup {e}]
  BY <1>0, <1>1, EntryAdded DEF CommitComplete
<1>2. /\ mails' = mails /\ audit' = [audit EXCEPT ![t] = audit[t] \cup {e}]
      /\ inflight' = [inflight EXCEPT ![r] = [op |-> "dispatch", task |-> t]]
  BY <1>0, <1>e DEF CommitComplete
<1>3. /\ audit \in [TaskIds -> SUBSET AuditEntry]
      /\ inflight \in [Requests -> Handler \cup {None}] /\ mails \in [TaskIds -> Nat]
  BY DEF IInv, TypeOK
<1>4. inflight'[r].op = "dispatch" /\ inflight'[r].task = t
      /\ \A q \in Requests \ {r} : inflight'[q] = inflight[q]
  BY <1>2, <1>3
<1>5. ASSUME NEW u \in TaskIds \ {t}
      PROVE  Dispatching(u)' = Dispatching(u) /\ Completions(u)' = Completions(u)
  <2>1. audit'[u] = audit[u]
    BY <1>2, <1>3
  <2>2. \A q \in Requests : (Running(q, "dispatch") /\ inflight[q].task = u)'
                              <=> Running(q, "dispatch") /\ inflight[q].task = u
    BY <1>1, <1>4 DEF Running
  <2> QED
    BY <2>1, <2>2 DEF Dispatching, Completions
<1>6. Dispatching(t)' \subseteq Dispatching(t) \cup {r} /\ r \notin Dispatching(t)
  BY <1>1, <1>4 DEF Dispatching, Running
<1>7. Cardinality(Dispatching(t)') <= Cardinality(Dispatching(t)) + 1
      /\ Cardinality(Dispatching(t)') \in Nat
  <2>1. IsFiniteSet(Dispatching(t)) /\ Cardinality(Dispatching(t)) \in Nat
    BY <1>1, Counted
  <2>2. IsFiniteSet(Dispatching(t) \cup {r})
        /\ Cardinality(Dispatching(t) \cup {r}) = Cardinality(Dispatching(t)) + 1
    BY <1>6, <2>1, FS_AddElement
  <2> QED
    BY <1>6, <2>1, <2>2, FS_Subset, FS_CardinalityType
<1>8. Cardinality(Completions(t)') = Cardinality(Completions(t)) + 1
  <2>1. audit'[t] = audit[t] \cup {e}
    BY <1>2, <1>3
  <2>2. Completions(t)' = Completions(t) \cup {e} /\ e \notin Completions(t)
    BY <1>e, <2>1 DEF Completions
  <2> QED
    BY <2>2, Counted, FS_AddElement
<1>9. ASSUME NEW u \in TaskIds
      PROVE  mails[u] + Cardinality(Dispatching(u)') <= Cardinality(Completions(u)')
  <2>1. /\ mails[u] \in Nat
        /\ Cardinality(Dispatching(u)) \in Nat /\ Cardinality(Completions(u)) \in Nat
        /\ mails[u] + Cardinality(Dispatching(u)) <= Cardinality(Completions(u))
    BY <1>3, Counted DEF MailsAccounted
  <2>2. CASE u = t
    BY <2>1, <2>2, <1>7, <1>8
  <2>3. CASE u # t
    BY <2>1, <2>3, <1>5
  <2> QED
    BY <2>2, <2>3
<1> QED
  BY <1>2, <1>9 DEF MailsAccounted
LEMMA DispatchAccounts ==
  ASSUME IInv, MailsAccounted, NEW r \in Requests, Dispatch(r)
  PROVE  MailsAccounted'
<1>0. PICK t \in TaskIds : t = inflight[r].task
  BY HandlerShape DEF Dispatch
<1>1. /\ audit' = audit /\ mails' = [mails EXCEPT ![t] = @ + 1]
      /\ inflight' = [inflight EXCEPT ![r] = None] /\ Running(r, "dispatch")
  BY <1>0 DEF Dispatch, Free
<1>2. inflight \in [Requests -> Handler \cup {None}] /\ mails \in [TaskIds -> Nat]
  BY DEF IInv, TypeOK
<1>3. inflight'[r] = None /\ \A q \in Requests \ {r} : inflight'[q] = inflight[q]
  BY <1>1, <1>2
<1>4. ASSUME NEW u \in TaskIds
      PROVE  Dispatching(u)' = Dispatching(u) \ {r} /\ Completions(u)' = Completions(u)
  BY <1>1, <1>3 DEF Dispatching, Completions, Running
<1>5. \A u \in TaskIds : r \in Dispatching(u) <=> u = t
  BY <1>0, <1>1 DEF Dispatching
<1>6. ASSUME NEW u \in TaskIds
      PROVE  mails'[u] + Cardinality(Dispatching(u)') <= Cardinality(Completions(u)')
  <2>1. /\ mails[u] \in Nat /\ IsFiniteSet(Dispatching(u))
        /\ Cardinality(Dispatching(u)) \in Nat /\ Cardinality(Completions(u)) \in Nat
        /\ mails[u] + Cardinality(Dispatching(u)) <= Cardinality(Completions(u))
    BY <1>2, Counted DEF MailsAccounted
  <2>2. Cardinality(Dispatching(u)') =
          IF u = t THEN Cardinality(Dispatching(u)) - 1 ELSE Cardinality(Dispatching(u))
    BY <1>4, <1>5, <2>1, FS_RemoveElement
  <2>3. mails'[u] = IF u = t THEN mails[u] + 1 ELSE mails[u]
    BY <1>1, <1>2
  <2> QED
    BY <1>4, <2>1, <2>2, <2>3
<1> QED
  BY <1>6 DEF MailsAccounted

\* Every other step sends no mail, starts no dispatch and records no completion.
LEMMA OthersAccount ==
  ASSUME IInv, MailsAccounted, mails' = mails,
         \A t \in TaskIds : Dispatching(t)' \subseteq Dispatching(t),
         \A t \in TaskIds : Completions(t)' = Completions(t)
  PROVE  MailsAccounted'
<1> SUFFICES ASSUME NEW t \in TaskIds
             PROVE  mails[t] + Cardinality(Dispatching(t)') <= Cardinality(Completions(t))
  BY DEF MailsAccounted
<1>1. /\ mails[t] \in Nat /\ IsFiniteSet(Dispatching(t))
      /\ Cardinality(Dispatching(t)) \in Nat /\ Cardinality(Completions(t)) \in Nat
      /\ mails[t] + Cardinality(Dispatching(t)) <= Cardinality(Completions(t))
  BY Counted DEF IInv, TypeOK, MailsAccounted
<1>2. Dispatching(t)' \in SUBSET Dispatching(t)
  OBVIOUS
<1>3. Cardinality(Dispatching(t)') <= Cardinality(Dispatching(t))
      /\ Cardinality(Dispatching(t)') \in Nat
  BY <1>1, <1>2, FS_Subset, FS_CardinalityType
<1> QED
  BY <1>1, <1>3

LEMMA CommitReopenAccounts ==
  ASSUME IInv, MailsAccounted, NEW r \in Requests, CommitReopen(r)
  PROVE  MailsAccounted'
<1>0. PICK t \in TaskIds : t = inflight[r].task
  BY HandlerShape DEF CommitReopen
<1>1. Running(r, "reopen") /\ inflight[r].by \in Staff
  BY HandlerShape DEF CommitReopen
<1>2. PICK e \in AuditEntry :
        /\ e.action = "reopened"
        /\ audit' = [audit EXCEPT ![t] = audit[t] \cup {e}]
  BY <1>0, <1>1, EntryAdded DEF CommitReopen
<1>3. /\ mails' = mails /\ inflight' = [inflight EXCEPT ![r] = None]
      /\ inflight \in [Requests -> Handler \cup {None}]
      /\ audit \in [TaskIds -> SUBSET AuditEntry]
  BY DEF CommitReopen, Free, IInv, TypeOK
<1>4. \A u \in TaskIds : Dispatching(u)' \subseteq Dispatching(u)
  BY <1>3 DEF Dispatching, Running
<1>5. \A u \in TaskIds : Completions(u)' = Completions(u)
  BY <1>2, <1>3 DEF Completions
<1> QED
  BY <1>3, <1>4, <1>5, OthersAccount

LEMMA StepMails == MailIInv /\ [Next]_vars => MailIInv'
<1> SUFFICES ASSUME IInv, MailsAccounted, [Next]_vars PROVE MailsAccounted'
  BY StepIInv DEF MailIInv
<1>1. inflight \in [Requests -> Handler \cup {None}]
  BY DEF IInv, TypeOK
<1>2. ASSUME NEW r \in Requests, NEW h, Start(r, h), h.op # "dispatch"
      PROVE  MailsAccounted'
  <2>1. mails' = mails /\ audit' = audit /\ inflight' = [inflight EXCEPT ![r] = h]
    BY <1>2 DEF Start
  <2>2. \A t \in TaskIds : Dispatching(t)' \subseteq Dispatching(t)
    BY <2>1, <1>1, <1>2 DEF Dispatching, Running
  <2>3. \A t \in TaskIds : Completions(t)' = Completions(t)
    BY <2>1 DEF Completions
  <2> QED
    BY <2>1, <2>2, <2>3, OthersAccount
<1>3. ASSUME NEW r \in Requests PROVE /\ BeginCreate(r) => MailsAccounted'
                                      /\ BeginSetStatus(r) => MailsAccounted'
  BY <1>2 DEF BeginCreate, BeginSetStatus
<1>4. ASSUME NEW r \in Requests, NEW t \in TaskIds
      PROVE  /\ BeginUpdate(r, t) => MailsAccounted'
             /\ BeginComplete(r, t) => MailsAccounted'
             /\ BeginReopen(r, t) => MailsAccounted'
             /\ BeginArchive(r, t) => MailsAccounted'
             /\ BeginRestore(r, t) => MailsAccounted'
  BY <1>2 DEF BeginUpdate, BeginComplete, BeginReopen, BeginArchive, BeginRestore
<1>5. ASSUME NEW r \in Requests,
             \/ CommitCreate(r) \/ CommitUpdate(r) \/ CommitArchive(r)
             \/ CommitSetStatus(r) \/ Abort(r)
      PROVE  MailsAccounted'
  <2>1. mails' = mails /\ audit' = audit /\ inflight' = [inflight EXCEPT ![r] = None]
    BY <1>5 DEF CommitCreate, CommitUpdate, CommitArchive, CommitSetStatus, Abort, Free
  <2>2. \A t \in TaskIds : Dispatching(t)' \subseteq Dispatching(t)
    BY <2>1, <1>1 DEF Dispatching, Running
  <2>3. \A t \in TaskIds : Completions(t)' = Completions(t)
    BY <2>1 DEF Completions
  <2> QED
    BY <2>1, <2>2, <2>3, OthersAccount
<1>6. CASE UNCHANGED vars
  BY <1>6 DEF vars, MailsAccounted, Dispatching, Completions, Running
<1> QED
  BY <1>3, <1>5, <1>6, <1>4, CommitCompleteAccounts, CommitReopenAccounts, DispatchAccounts
  DEF Next

-----------------------------------------------------------------------------
(* The theorems. *)

\* The inductive invariant: what the guards of task_service established still
\* holds of what a handler loaded when it commits, and work under way on an
\* account that is not active is late.
THEOREM Invariant == Spec => []IInv
  BY InitIInv, StepIInv, PTL DEF Spec

\* The state keeps its shape for any number of requests, tasks and staff.
THEOREM TypeCorrect == Spec => []TypeOK
  BY Invariant, PTL DEF IInv

\* A task that carries a completion reads as completed until it is reopened,
\* unless two handlers wrote it at once.
THEOREM Locking == Spec => []CompletedIsLocked
  BY Invariant, PTL DEF IInv

\* Whatever overlaps, whoever a task names as having completed it has an entry in
\* its log, and a completion that is gone has a reopening there.
THEOREM Traceability == Spec => []CompletionTraced
  BY Invariant, PTL DEF IInv

\* A task that no two handlers wrote at once was completed as often as it was
\* reopened, and once more while it is complete.
THEOREM Alternation == Spec => []CompletedOnce
  BY Invariant, PTL DEF IInv

\* However many completions overlap and wherever a process dies, no mail goes
\* out without the committed completion it announces.
THEOREM MailsAnnounce == Spec => []MailFollowsCompletion
<1>1. Init => MailIInv
  <2> SUFFICES ASSUME Init, NEW t \in TaskIds
               PROVE  mails[t] + Cardinality(Dispatching(t)) <= Cardinality(Completions(t))
    BY InitIInv DEF MailIInv, MailsAccounted
  <2>1. Dispatching(t) = {} /\ Completions(t) = {} /\ mails[t] = 0
    BY DEF Init, Dispatching, Completions, Running
  <2> QED
    BY <2>1, FS_EmptySet
<1>2. MailIInv => MailFollowsCompletion
  <2> SUFFICES ASSUME MailIInv, NEW t \in TaskIds
               PROVE  mails[t] <= Cardinality(Completions(t))
    BY DEF MailFollowsCompletion, Completions
  <2>1. /\ mails[t] \in Nat
        /\ Cardinality(Dispatching(t)) \in Nat /\ Cardinality(Completions(t)) \in Nat
        /\ mails[t] + Cardinality(Dispatching(t)) <= Cardinality(Completions(t))
    BY Counted DEF MailIInv, IInv, TypeOK, MailsAccounted
  <2> QED
    BY <2>1
<1> QED
  BY <1>1, <1>2, StepMails, PTL DEF Spec

\* While the account is on hold no work is recorded but by a request that had
\* checked the client before.
THEOREM Hold == Spec => HoldStopsWork
<1> DEFINE A == client # "active" =>
                  \A t \in TaskIds : WorkRecorded(t) =>
                    \E r \in late : inflight'[r] # inflight[r]
<1>1. IInv /\ [Next]_vars => [A]_vars
  <2> SUFFICES ASSUME IInv, Next, client # "active", NEW t \in TaskIds, WorkRecorded(t)
               PROVE  \E r \in late : inflight'[r] # inflight[r]
    OBVIOUS
  <2>1. rows \in [TaskIds -> Row] /\ inflight \in [Requests -> Handler \cup {None}]
    BY DEF IInv, TypeOK
  <2>2. ASSUME NEW r \in Requests, NEW op \in Work, Running(r, op),
               inflight'[r] = None \/ inflight'[r].op \notin Work
        PROVE  \E q \in late : inflight'[q] # inflight[q]
    BY <2>2 DEF IInv, LateKnown, Running
  <2>3. ASSUME NEW r \in Requests, CommitCreate(r)
        PROVE  \E q \in late : inflight'[q] # inflight[q]
    BY <2>1, <2>2, <2>3 DEF CommitCreate, Free, Work
  <2>4. ASSUME NEW r \in Requests, CommitComplete(r)
        PROVE  \E q \in late : inflight'[q] # inflight[q]
    BY <2>1, <2>2, <2>4 DEF CommitComplete, Work
  <2>5. ASSUME NEW r \in Requests, NEW row, NEW u \in TaskIds, Exists(u),
               rows' = [rows EXCEPT ![u] = row], row.completed_by \in {None, rows[u].completed_by}
        PROVE  FALSE
    BY <2>1, <2>5 DEF WorkRecorded, Exists
  <2>6. ASSUME NEW r \in Requests, CommitUpdate(r) PROVE FALSE
    <3> DEFINE u == inflight[r].task
               row == [rows[u] EXCEPT
                         !.status = Written(@, inflight[r].snap.status, inflight[r].status)]
    <3>1. u \in TaskIds /\ Exists(u)
      BY <2>6, HandlerShape DEF CommitUpdate
    <3>2. rows' = [rows EXCEPT ![u] = row] /\ row.completed_by = rows[u].completed_by
      BY <2>1, <2>6, <3>1 DEF CommitUpdate, Commit, Row
    <3> HIDE DEF row, u
    <3> QED
      BY <3>1, <3>2, <2>5
  <2>7. ASSUME NEW r \in Requests, CommitReopen(r) PROVE FALSE
    <3> DEFINE u == inflight[r].task
               row == [rows[u] EXCEPT
                         !.status = Written(@, inflight[r].snap.status, "in_progress"),
                         !.completed_by = None]
    <3>1. u \in TaskIds /\ Exists(u)
      BY <2>7, HandlerShape DEF CommitReopen
    <3>2. rows' = [rows EXCEPT ![u] = row] /\ row.completed_by = None
      BY <2>1, <2>7, <3>1 DEF CommitReopen, Commit, Row
    <3> HIDE DEF row, u
    <3> QED
      BY <3>1, <3>2, <2>5
  <2>8. ASSUME NEW r \in Requests, CommitArchive(r) PROVE FALSE
    <3> DEFINE u == inflight[r].task
               row == [rows[u] EXCEPT !.archived = (inflight[r].op = "archive")]
    <3>1. u \in TaskIds /\ Exists(u)
      BY <2>8, HandlerShape DEF CommitArchive
    <3>2. rows' = [rows EXCEPT ![u] = row] /\ row.completed_by = rows[u].completed_by
      BY <2>1, <2>8, <3>1 DEF CommitArchive, Row
    <3> HIDE DEF row, u
    <3> QED
      BY <3>1, <3>2, <2>5
  <2>9. ASSUME rows' = rows PROVE FALSE
    BY <2>9 DEF WorkRecorded, Exists
  <2> QED
    BY <2>3, <2>4, <2>6, <2>7, <2>8, <2>9
    DEF Next, BeginCreate, BeginSetStatus, BeginUpdate, BeginComplete, BeginReopen,
        BeginArchive, BeginRestore, Start, Dispatch, CommitSetStatus, Abort
<1> QED
  BY <1>1, Invariant, PTL DEF Spec, HoldStopsWork
=============================================================================
