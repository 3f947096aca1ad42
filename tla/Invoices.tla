------------------------------ MODULE Invoices ------------------------------
(***************************************************************************)
(* Invoices and their manual reconciliation:                               *)
(* app/services/invoice_service.py, the handlers of                        *)
(* app/api/v1/admin/invoices.py and app/api/v1/portal/invoices.py.         *)
(*                                                                         *)
(* Every handler loads the row into its own session, checks the loaded     *)
(* copy, sets attributes and commits.  The session writes back only the    *)
(* attributes whose value changed, by primary key and without a version    *)
(* check (app/db/session.py), under READ COMMITTED and with no row lock.   *)
(* So a handler is two steps here: Begin... takes the snapshot and applies *)
(* the guards to it; Commit... writes the changed columns over whatever    *)
(* the row holds by then.  A refused request changes nothing and is not a  *)
(* step.                                                                   *)
(***************************************************************************)
EXTENDS Naturals, Sequences, FiniteSets

CONSTANTS
  Requests,              \* handler slots: how many requests overlap
  InvoiceIds,            \* primary keys
  Amounts,               \* amount and currency of an invoice
  Staff,                 \* administrators who may reconcile
  SuppliedReferences,    \* references an administrator may type in
  MaxReferenceAttempts,  \* MAX_REFERENCE_ATTEMPTS
  None                   \* SQL NULL, and an idle request slot

ASSUME ConstantsAssumption ==
  /\ SuppliedReferences \subseteq Nat \ {0}
  /\ MaxReferenceAttempts \in Nat \ {0}
  /\ None \notin Amounts \cup Staff

ASSUME FiniteInvoices == IsFiniteSet(InvoiceIds)

VARIABLES
  rows,        \* rows[i]: the committed row of invoice i
  inflight,    \* inflight[r]: the handler running in slot r, or None
  audit,       \* audit[i]: the "invoice.reconciled" entries about i, in order
  conflicted   \* invoices some handler committed over a changed status or
               \* amount (history variable: it names the lost updates)

vars == <<rows, inflight, audit, conflicted>>

-----------------------------------------------------------------------------
(***************************************************************************)
(* The columns of a row that the properties tell apart.  An "absent" row   *)
(* has not been inserted.  Receipt and document are whether the column     *)
(* holds a document id, pay_url the amount the last recorded URL asks for. *)
(***************************************************************************)
Row == [reference: Nat,
        status: {"absent", "unpaid", "paid", "cancelled"},
        amount: Amounts \cup {None},
        reconciled_by: Staff \cup {None},
        pay_url: Amounts \cup {None},
        receipt: BOOLEAN,
        document: BOOLEAN]

NewRow(reference, amount) ==
  [reference |-> reference, status |-> "unpaid", amount |-> amount,
   reconciled_by |-> None, pay_url |-> None,
   receipt |-> FALSE, document |-> FALSE]

NoRow == [NewRow(0, None) EXCEPT !.status = "absent"]

\* The handlers in flight, with what each took from the request and loaded.
Handler ==
  [op: {"create"}, row: Row]
    \cup [op: {"update"}, invoice: InvoiceIds, amount: Amounts, snap: Row]
    \cup [op: {"mark_paid"}, invoice: InvoiceIds, by: Staff, snap: Row]
    \cup [op: {"cancel", "pay", "receipt", "document"},
          invoice: InvoiceIds, snap: Row]

Exists(i) == rows[i].status # "absent"

UsedReferences == {rows[i].reference : i \in {j \in InvoiceIds : Exists(j)}}

(***************************************************************************)
(* next_reference: the first sequence number of the year not in use, tried *)
(* up to len(used) + MAX_REFERENCE_ATTEMPTS.                               *)
(***************************************************************************)
ReferenceCandidates(used) ==
  1 .. (Cardinality(used) + MaxReferenceAttempts) \ used

NextReference(used) ==
  CHOOSE n \in ReferenceCandidates(used) :
    \A m \in ReferenceCandidates(used) : n <= m

\* The handler overwrites a row whose checked columns are no longer what it
\* loaded.
Stale(h) ==
  \/ rows[h.invoice].status # h.snap.status
  \/ rows[h.invoice].amount # h.snap.amount

\* The unit of work: an attribute set to its loaded value is not written.
Written(column, loaded, new) == IF new # loaded THEN new ELSE column

-----------------------------------------------------------------------------
Init ==
  /\ rows = [i \in InvoiceIds |-> NoRow]
  /\ inflight = [r \in Requests |-> None]
  /\ audit = [i \in InvoiceIds |-> <<>>]
  /\ conflicted = {}

\* A handler that passed its guards.
Start(r, handler) ==
  /\ inflight[r] = None
  /\ inflight' = [inflight EXCEPT ![r] = handler]
  /\ UNCHANGED <<rows, audit, conflicted>>

BeginCreate(r) ==
  \E amount \in Amounts,
     reference \in SuppliedReferences \cup {NextReference(UsedReferences)} :
    /\ reference \notin UsedReferences
    /\ Start(r, [op |-> "create", row |-> NewRow(reference, amount)])

\* Deviation: update() without its check for a null amount.
BeginUpdateNullAmount(r, i) ==
  /\ Exists(i)
  /\ rows[i].status # "paid"
  /\ \E amount \in Amounts \cup {None} :
       Start(r, [op |-> "update", invoice |-> i, amount |-> amount,
                 snap |-> rows[i]])

BeginUpdate(r, i) ==
  /\ Exists(i)
  /\ rows[i].status # "paid"
  /\ \E amount \in Amounts :
       Start(r, [op |-> "update", invoice |-> i, amount |-> amount,
                 snap |-> rows[i]])

\* Deviation: mark_paid() without its check for a paid invoice.
BeginMarkPaidAgain(r, i) ==
  /\ Exists(i)
  /\ rows[i].status # "cancelled"
  /\ \E by \in Staff :
       Start(r, [op |-> "mark_paid", invoice |-> i, by |-> by,
                 snap |-> rows[i]])

BeginMarkPaid(r, i) ==
  /\ Exists(i)
  /\ rows[i].status \notin {"paid", "cancelled"}
  /\ \E by \in Staff :
       Start(r, [op |-> "mark_paid", invoice |-> i, by |-> by,
                 snap |-> rows[i]])

BeginCancel(r, i) ==
  /\ Exists(i)
  /\ rows[i].status # "paid"
  /\ Start(r, [op |-> "cancel", invoice |-> i, snap |-> rows[i]])

\* start_payment.  With no usable Open Payment Link the request is refused.
BeginPay(r, i) ==
  /\ Exists(i)
  /\ rows[i].status \notin {"paid", "cancelled"}
  /\ Start(r, [op |-> "pay", invoice |-> i, snap |-> rows[i]])

\* upload_receipt.  A paid invoice still takes one.
BeginReceipt(r, i) ==
  /\ Exists(i)
  /\ rows[i].status # "cancelled"
  /\ Start(r, [op |-> "receipt", invoice |-> i, snap |-> rows[i]])

\* attach_invoice_document checks nothing about the status.
BeginDocument(r, i) ==
  /\ Exists(i)
  /\ Start(r, [op |-> "document", invoice |-> i, snap |-> rows[i]])

-----------------------------------------------------------------------------
Running(r, op) ==
  /\ inflight[r] # None
  /\ inflight[r].op = op

\* The transaction of slot r ends, and what it overwrote is remembered.
Finish(r) ==
  /\ inflight' = [inflight EXCEPT ![r] = None]
  /\ conflicted' = IF Stale(inflight[r])
                     THEN conflicted \cup {inflight[r].invoice}
                     ELSE conflicted

\* Deviation: no unique index on invoice_reference.
CommitCreateAnyway(r) ==
  /\ Running(r, "create")
  /\ \E i \in InvoiceIds :
       /\ ~Exists(i)
       /\ rows' = [rows EXCEPT ![i] = inflight[r].row]
  /\ inflight' = [inflight EXCEPT ![r] = None]
  /\ UNCHANGED <<audit, conflicted>>

\* The unique index on invoice_reference is what decides a race of creates.
CommitCreate(r) ==
  /\ Running(r, "create")
  /\ inflight[r].row.reference \notin UsedReferences
  /\ \E i \in InvoiceIds :
       /\ ~Exists(i)
       /\ rows' = [rows EXCEPT ![i] = inflight[r].row]
  /\ inflight' = [inflight EXCEPT ![r] = None]
  /\ UNCHANGED <<audit, conflicted>>

CommitUpdate(r) ==
  /\ Running(r, "update")
  /\ LET h == inflight[r] IN
       rows' = [rows EXCEPT ![h.invoice].amount =
                  Written(@, h.snap.amount, h.amount)]
  /\ Finish(r)
  /\ UNCHANGED audit

\* Deviation: an invoice is audited once, by whoever came first.
CommitMarkPaidAuditedOnce(r) ==
  /\ Running(r, "mark_paid")
  /\ LET h == inflight[r] IN
       /\ rows' = [rows EXCEPT ![h.invoice].status = "paid",
                               ![h.invoice].reconciled_by = h.by]
       /\ audit' = [audit EXCEPT ![h.invoice] =
                      IF @ = <<>> THEN << [by |-> h.by, amount |-> h.snap.amount] >>
                                  ELSE @]
  /\ Finish(r)

\* The audit entry carries the amount as the handler loaded it, and commits
\* with the change.
CommitMarkPaid(r) ==
  /\ Running(r, "mark_paid")
  /\ LET h == inflight[r] IN
       /\ rows' = [rows EXCEPT ![h.invoice].status = "paid",
                               ![h.invoice].reconciled_by = h.by]
       /\ audit' = [audit EXCEPT ![h.invoice] =
                      Append(@, [by |-> h.by, amount |-> h.snap.amount])]
  /\ Finish(r)

CommitCancel(r) ==
  /\ Running(r, "cancel")
  /\ LET h == inflight[r] IN
       rows' = [rows EXCEPT ![h.invoice].status =
                  Written(@, h.snap.status, "cancelled")]
  /\ Finish(r)
  /\ UNCHANGED audit

CommitPay(r) ==
  /\ Running(r, "pay")
  /\ LET h == inflight[r] IN
       rows' = [rows EXCEPT ![h.invoice].pay_url =
                  Written(@, h.snap.pay_url, h.snap.amount)]
  /\ Finish(r)
  /\ UNCHANGED audit

\* Deviation: the whole loaded row is written back.
CommitReceiptWholeRow(r) ==
  /\ Running(r, "receipt")
  /\ rows' = [rows EXCEPT ![inflight[r].invoice] =
                [inflight[r].snap EXCEPT !.receipt = TRUE]]
  /\ Finish(r)
  /\ UNCHANGED audit

CommitReceipt(r) ==
  /\ Running(r, "receipt")
  /\ rows' = [rows EXCEPT ![inflight[r].invoice].receipt = TRUE]
  /\ Finish(r)
  /\ UNCHANGED audit

CommitDocument(r) ==
  /\ Running(r, "document")
  /\ rows' = [rows EXCEPT ![inflight[r].invoice].document = TRUE]
  /\ Finish(r)
  /\ UNCHANGED audit

\* The process stops, or an upload or the database fails before the commit:
\* get_db closes the session and the transaction rolls back.
Abort(r) ==
  /\ inflight[r] # None
  /\ inflight' = [inflight EXCEPT ![r] = None]
  /\ UNCHANGED <<rows, audit, conflicted>>
-----------------------------------------------------------------------------
Begin(r) ==
  \/ BeginCreate(r)
  \/ \E i \in InvoiceIds :
       \/ BeginUpdate(r, i)
       \/ BeginMarkPaid(r, i)
       \/ BeginCancel(r, i)
       \/ BeginPay(r, i)
       \/ BeginReceipt(r, i)
       \/ BeginDocument(r, i)

Commit(r) ==
  \/ CommitCreate(r)
  \/ CommitUpdate(r)
  \/ CommitMarkPaid(r)
  \/ CommitCancel(r)
  \/ CommitPay(r)
  \/ CommitReceipt(r)
  \/ CommitDocument(r)

Next == \E r \in Requests : Begin(r) \/ Commit(r) \/ Abort(r)

Spec == Init /\ [][Next]_vars

-----------------------------------------------------------------------------
(***************************************************************************)
(* Properties                                                              *)
(***************************************************************************)
AuditEntry == [by: Staff, amount: Amounts]

\* Rows, handlers and audit entries keep their shape.  In particular no
\* request leaves an existing invoice without an amount: PATCH accepts a
\* null amount in its schema and update() is what refuses it.
TypeOK ==
  /\ rows \in [InvoiceIds -> Row]
  /\ inflight \in [Requests -> Handler \cup {None}]
  /\ audit \in [InvoiceIds -> Seq(AuditEntry)]
  /\ conflicted \subseteq InvoiceIds
  /\ \A i \in InvoiceIds : Exists(i) => rows[i].amount \in Amounts

\* The decision about an invoice is made once.  Unless a handler wrote over a
\* status or amount that had changed since it loaded the row, a paid invoice
\* has exactly one reconciliation entry, by the person on the row and for
\* the amount on the row, and any other invoice has none: "a paid invoice
\* cannot be edited", nor cancelled, nor paid again, nor a cancelled one paid.
SettledOnce ==
  \A i \in InvoiceIds \ conflicted :
    audit[i] =
      IF rows[i].status = "paid"
        THEN << [by |-> rows[i].reconciled_by, amount |-> rows[i].amount] >>
        ELSE <<>>

\* Whatever overlaps: an invoice shown as paid names a person, and an audit
\* entry says the same person reconciled it ("who and when exist because 'it
\* says paid' is not the same as 'we know who decided that'").
PaymentTraced ==
  \A i \in InvoiceIds :
    rows[i].status = "paid" =>
      \E k \in DOMAIN audit[i] : audit[i][k].by = rows[i].reconciled_by

\* Whatever overlaps: a handler that loaded an invoice before it was settled
\* or before its receipt or file arrived never puts the old value back, and
\* the reference that travels with the payment never changes.
NothingReverts ==
  [][\A i \in InvoiceIds :
       Exists(i) =>
         /\ rows[i].status \in {"paid", "cancelled"} =>
              rows'[i].status \in {"paid", "cancelled"}
         /\ rows[i].receipt => rows'[i].receipt
         /\ rows[i].document => rows'[i].document
         /\ rows'[i].reference = rows[i].reference]_rows

\* References tell invoices apart however creates overlap, and next_reference
\* always finds one: its "could not allocate" error is unreachable.
ReferencesSound ==
  /\ \A i, j \in InvoiceIds :
       Exists(i) /\ Exists(j) /\ rows[i].reference = rows[j].reference => i = j
  /\ ReferenceCandidates(UsedReferences) # {}

-----------------------------------------------------------------------------
(***************************************************************************)
(* The inductive invariant behind SettledOnce and PaymentTraced: what the  *)
(* guards left true of each handler's snapshot.                            *)
(***************************************************************************)
GuardedBy(h) ==
  /\ h.op = "create" => h.row.status = "unpaid" /\ h.row.amount \in Amounts
  /\ h.op \in {"update", "cancel"} => h.snap.status \in {"unpaid", "cancelled"}
  /\ h.op \in {"mark_paid", "pay"} =>
       h.snap.status = "unpaid" /\ h.snap.amount \in Amounts

HandlersGuarded ==
  \A r \in Requests :
    inflight[r] # None =>
      /\ GuardedBy(inflight[r])
      /\ inflight[r].op # "create" => Exists(inflight[r].invoice)

AbsentUntouched ==
  \A i \in InvoiceIds : ~Exists(i) => audit[i] = <<>> /\ i \notin conflicted

IInv == TypeOK /\ HandlersGuarded /\ AbsentUntouched
               /\ SettledOnce /\ PaymentTraced
=============================================================================
