-------------------------- MODULE Invoices_proofs ---------------------------
(***************************************************************************)
(* Proofs about Invoices, for every set of requests, invoices, amounts and *)
(* staff.  IInv is inductive; SettledOnce, PaymentTraced and               *)
(* NothingReverts follow from it.                                          *)
(***************************************************************************)
EXTENDS Invoices, FiniteSetTheorems, TLAPS

\* Every step of a handler is one of these.
LEMMA StepCases ==
  ASSUME [Next]_vars
  PROVE  \/ \E r \in Requests : BeginCreate(r)
         \/ \E r \in Requests, i \in InvoiceIds :
              \/ BeginUpdate(r, i) \/ BeginMarkPaid(r, i) \/ BeginCancel(r, i)
              \/ BeginPay(r, i) \/ BeginReceipt(r, i) \/ BeginDocument(r, i)
         \/ \E r \in Requests :
              \/ CommitCreate(r) \/ CommitUpdate(r) \/ CommitMarkPaid(r)
              \/ CommitCancel(r) \/ CommitPay(r) \/ CommitReceipt(r)
              \/ CommitDocument(r) \/ Abort(r)
         \/ UNCHANGED vars
  BY DEF Next, Begin, Commit
-----------------------------------------------------------------------------
(***************************************************************************)
(* next_reference.  More numbers are tried than are used, so one of them   *)
(* is free, and a non-empty set of naturals has a least element.           *)
(***************************************************************************)
LEMMA LeastNatural ==
  ASSUME NEW T, T \subseteq Nat, T # {}
  PROVE  \E n \in T : \A m \in T : n <= m
<1> DEFINE lt == {ss \in Nat \X Nat : ss[1] < ss[2]}
<1>1. IsWellFoundedOn(lt, Nat)
  BY NatLessThanWellFounded DEF OpToRel
<1>2. PICK n \in T : \A m \in T : ~ (<<m, n>> \in lt)
  BY <1>1, WFMin
<1>3. \A m \in T : ~ (m < n)
  BY <1>2
<1> QED
  BY <1>3

LEMMA UsedIsFinite == IsFiniteSet(UsedReferences)
<1> DEFINE live == {j \in InvoiceIds : Exists(j)}
           ref  == [i \in live |-> rows[i].reference]
<1>1. IsFiniteSet(live)
  BY FiniteInvoices, FS_Subset
<1>2. ref \in Surjection(live, UsedReferences)
  BY DEF Surjection, UsedReferences
<1> QED
  BY <1>1, <1>2, FS_Surjection DEF ExistsSurjection

LEMMA CandidatesExist ==
  ASSUME NEW used, IsFiniteSet(used)
  PROVE  /\ ReferenceCandidates(used) # {}
         /\ NextReference(used) \in Nat \ {0}
         /\ NextReference(used) \notin used
<1> DEFINE last == Cardinality(used) + MaxReferenceAttempts
<1>1. Cardinality(used) \in Nat /\ last \in Nat /\ last > Cardinality(used)
  BY FS_CardinalityType, ConstantsAssumption
<1>2. Cardinality(1 .. last) = last
  BY <1>1, FS_Interval
<1>3. ~ (1 .. last \subseteq used)
  BY <1>1, <1>2, FS_Subset
<1>4. ReferenceCandidates(used) # {} /\ ReferenceCandidates(used) \subseteq Nat
  BY <1>1, <1>3 DEF ReferenceCandidates
<1>5. NextReference(used) \in ReferenceCandidates(used)
  BY <1>4, LeastNatural DEF NextReference
<1> QED
  BY <1>1, <1>4, <1>5 DEF ReferenceCandidates
-----------------------------------------------------------------------------
(***************************************************************************)
(* IInv is inductive.                                                      *)
(***************************************************************************)
LEMMA RowShape ==
  ASSUME NEW n \in Nat, NEW a \in Amounts
  PROVE  NewRow(n, a) \in Row /\ NoRow \in Row
  BY DEF NewRow, NoRow, Row

LEMMA InitIInv == Init => IInv
<1> SUFFICES ASSUME Init PROVE IInv
  OBVIOUS
<1>1. NoRow \in Row /\ NoRow.status = "absent"
  BY DEF NoRow, NewRow, Row
<1>2. TypeOK
  BY <1>1 DEF Init, TypeOK, Exists
<1>3. HandlersGuarded
  BY DEF Init, HandlersGuarded
<1>4. AbsentUntouched /\ SettledOnce /\ PaymentTraced
  BY <1>1 DEF Init, AbsentUntouched, SettledOnce, PaymentTraced
<1> QED
  BY <1>2, <1>3, <1>4 DEF IInv

\* A handler that starts with its guards satisfied disturbs nothing else.
LEMMA StartPreserves ==
  ASSUME IInv, NEW r \in Requests, NEW h \in Handler, Start(r, h),
         GuardedBy(h), h.op # "create" => Exists(h.invoice)
  PROVE  IInv'
<1> USE DEF IInv, Start
<1>1. TypeOK'
  BY DEF TypeOK, Exists
<1>2. HandlersGuarded'
  BY DEF TypeOK, HandlersGuarded, Exists, GuardedBy
<1>3. AbsentUntouched' /\ SettledOnce' /\ PaymentTraced'
  BY DEF AbsentUntouched, SettledOnce, PaymentTraced, Exists
<1> QED
  BY <1>1, <1>2, <1>3

LEMMA BeginsPreserve ==
  ASSUME IInv, NEW r \in Requests, NEW i \in InvoiceIds,
         \/ BeginUpdate(r, i) \/ BeginMarkPaid(r, i) \/ BeginCancel(r, i)
         \/ BeginPay(r, i) \/ BeginReceipt(r, i) \/ BeginDocument(r, i)
  PROVE  IInv'
<1>1. rows[i] \in Row /\ (Exists(i) => rows[i].amount \in Amounts)
  BY DEF IInv, TypeOK
<1>2. CASE BeginUpdate(r, i)
  <2>1. PICK a \in Amounts :
          Start(r, [op |-> "update", invoice |-> i, amount |-> a, snap |-> rows[i]])
    BY <1>2 DEF BeginUpdate
  <2> DEFINE h == [op |-> "update", invoice |-> i, amount |-> a, snap |-> rows[i]]
  <2>2. h \in Handler /\ GuardedBy(h) /\ Exists(h.invoice)
    BY <1>1, <1>2 DEF BeginUpdate, Handler, GuardedBy, Exists, Row
  <2> QED
    BY <2>1, <2>2, StartPreserves
<1>3. CASE BeginMarkPaid(r, i)
  <2>1. PICK s \in Staff :
          Start(r, [op |-> "mark_paid", invoice |-> i, by |-> s, snap |-> rows[i]])
    BY <1>3 DEF BeginMarkPaid
  <2> DEFINE h == [op |-> "mark_paid", invoice |-> i, by |-> s, snap |-> rows[i]]
  <2>2. h \in Handler /\ GuardedBy(h) /\ Exists(h.invoice)
    BY <1>1, <1>3 DEF BeginMarkPaid, Handler, GuardedBy, Exists, Row
  <2> QED
    BY <2>1, <2>2, StartPreserves
<1>4. CASE BeginCancel(r, i) \/ BeginPay(r, i) \/ BeginReceipt(r, i) \/ BeginDocument(r, i)
  <2>1. PICK op \in {"cancel", "pay", "receipt", "document"} :
          /\ Start(r, [op |-> op, invoice |-> i, snap |-> rows[i]])
          /\ Exists(i)
          /\ op \in {"cancel"} => rows[i].status # "paid"
          /\ op \in {"pay"} => rows[i].status \notin {"paid", "cancelled"}
    BY <1>4 DEF BeginCancel, BeginPay, BeginReceipt, BeginDocument
  <2> DEFINE h == [op |-> op, invoice |-> i, snap |-> rows[i]]
  <2>2. h \in Handler /\ GuardedBy(h) /\ Exists(h.invoice)
    BY <1>1, <2>1 DEF Handler, GuardedBy, Exists, Row
  <2> QED
    BY <2>1, <2>2, StartPreserves
<1> QED
  BY <1>2, <1>3, <1>4

LEMMA BeginCreatePreserves ==
  ASSUME IInv, NEW r \in Requests, BeginCreate(r)
  PROVE  IInv'
<1>1. PICK a \in Amounts, n \in SuppliedReferences \cup {NextReference(UsedReferences)} :
        Start(r, [op |-> "create", row |-> NewRow(n, a)])
  BY DEF BeginCreate
<1>2. n \in Nat
  BY UsedIsFinite, CandidatesExist, ConstantsAssumption
<1> DEFINE h == [op |-> "create", row |-> NewRow(n, a)]
<1>3. h \in Handler
  BY <1>2, RowShape DEF Handler
<1>4. GuardedBy(h)
  BY DEF GuardedBy, NewRow
<1> QED
  BY <1>1, <1>3, <1>4, StartPreserves
LEMMA CommitCreatePreserves ==
  ASSUME IInv, NEW r \in Requests, CommitCreate(r)
  PROVE  IInv'
<1> USE DEF IInv
<1>1. /\ inflight[r] \in [op: {"create"}, row: Row]
      /\ inflight[r].row.status = "unpaid" /\ inflight[r].row.amount \in Amounts
  BY DEF CommitCreate, Running, TypeOK, Handler, HandlersGuarded, GuardedBy
<1>2. PICK i \in InvoiceIds :
        ~Exists(i) /\ rows' = [rows EXCEPT ![i] = inflight[r].row]
  BY DEF CommitCreate
<1>3. TypeOK'
  BY <1>1, <1>2 DEF CommitCreate, TypeOK, Exists
<1>4. \A j \in InvoiceIds : Exists(j)' <=> Exists(j) \/ j = i
  BY <1>1, <1>2 DEF TypeOK, Exists
<1>5. HandlersGuarded'
  BY <1>1, <1>4 DEF CommitCreate, HandlersGuarded, GuardedBy, TypeOK, Handler
<1>6. audit[i] = <<>> /\ i \notin conflicted
  BY <1>2 DEF AbsentUntouched
<1>7. AbsentUntouched' /\ SettledOnce' /\ PaymentTraced'
  BY <1>1, <1>2, <1>4, <1>6
  DEF CommitCreate, AbsentUntouched, SettledOnce, PaymentTraced, TypeOK
<1> QED
  BY <1>3, <1>5, <1>7

(***************************************************************************)
(* A commit over an existing invoice i by a handler h of slot r.  The      *)
(* facts a commit must bring: the row keeps its shape and stays settled as *)
(* it was audited unless h was stale, and it stays traced to an entry.     *)
(***************************************************************************)
LEMMA FinishPreserves ==
  ASSUME IInv, NEW r \in Requests, inflight[r] # None, inflight[r].op # "create",
         Finish(r),
         NEW i \in InvoiceIds, i = inflight[r].invoice,
         NEW row \in Row, rows' = [rows EXCEPT ![i] = row],
         NEW entries \in Seq(AuditEntry), audit' = [audit EXCEPT ![i] = entries],
         row.status # "absent", row.amount \in Amounts,
         i \notin conflicted' =>
           entries = IF row.status = "paid"
                       THEN << [by |-> row.reconciled_by, amount |-> row.amount] >>
                       ELSE <<>>,
         row.status = "paid" =>
           \E k \in DOMAIN entries : entries[k].by = row.reconciled_by
  PROVE  IInv'
<1> USE DEF IInv
<1>1. conflicted \subseteq conflicted' /\ conflicted' \subseteq conflicted \cup {i}
  BY DEF Finish
<1>2. TypeOK'
  BY <1>1 DEF Finish, TypeOK, Exists
<1>3. Exists(i)
  BY DEF HandlersGuarded
<1>4. \A j \in InvoiceIds : Exists(j)' <=> Exists(j)
  BY <1>3 DEF TypeOK, Exists
<1>5. HandlersGuarded'
  <2> SUFFICES ASSUME NEW q \in Requests, inflight'[q] # None
               PROVE  /\ GuardedBy(inflight[q])
                      /\ inflight[q].op # "create" => Exists(inflight[q].invoice)'
                      /\ inflight'[q] = inflight[q]
    BY DEF HandlersGuarded, GuardedBy
  <2>1. inflight'[q] = inflight[q] /\ inflight[q] # None
    BY DEF Finish, TypeOK
  <2>2. inflight[q].op # "create" => inflight[q].invoice \in InvoiceIds
    BY <2>1 DEF TypeOK, Handler
  <2> QED
    BY <2>1, <2>2, <1>4 DEF HandlersGuarded
<1>6. AbsentUntouched'
  BY <1>1, <1>3, <1>4 DEF AbsentUntouched, TypeOK
<1>7. SettledOnce'
  BY <1>1 DEF SettledOnce, TypeOK
<1>8. PaymentTraced'
  BY DEF PaymentTraced, TypeOK
<1> QED
  BY <1>2, <1>5, <1>6, <1>7, <1>8

\* What a handler about to commit knows of its invoice.
LEMMA AboutToCommit ==
  ASSUME IInv, NEW r \in Requests, inflight[r] # None, inflight[r].op # "create"
  PROVE  LET h == inflight[r]
             i == h.invoice
         IN  /\ i \in InvoiceIds /\ Exists(i)
             /\ rows[i] \in Row /\ rows[i].amount \in Amounts
             /\ h.snap \in Row /\ GuardedBy(h)
             /\ audit[i] \in Seq(AuditEntry)
             /\ i \notin conflicted =>
                  audit[i] = IF rows[i].status = "paid"
                               THEN << [by |-> rows[i].reconciled_by,
                                        amount |-> rows[i].amount] >>
                               ELSE <<>>
             /\ rows[i].status = "paid" =>
                  \E k \in DOMAIN audit[i] : audit[i][k].by = rows[i].reconciled_by
<1>1. inflight[r].invoice \in InvoiceIds /\ inflight[r].snap \in Row
  BY DEF IInv, TypeOK, Handler
<1> QED
  BY <1>1 DEF IInv, TypeOK, HandlersGuarded, SettledOnce, PaymentTraced

LEMMA CommitMarkPaidPreserves ==
  ASSUME IInv, NEW r \in Requests, CommitMarkPaid(r)
  PROVE  IInv'
<1> DEFINE h == inflight[r]
           i == h.invoice
           row == [rows[i] EXCEPT !.status = "paid", !.reconciled_by = h.by]
           entry == [by |-> h.by, amount |-> h.snap.amount]
           entries == Append(audit[i], entry)
<1>1. h # None /\ h.op = "mark_paid" /\ h.by \in Staff
  BY DEF CommitMarkPaid, Running, IInv, TypeOK, Handler
<1>2. /\ i \in InvoiceIds /\ rows[i] \in Row /\ rows[i].amount \in Amounts
      /\ h.snap.status = "unpaid" /\ h.snap.amount \in Amounts
      /\ audit[i] \in Seq(AuditEntry)
      /\ i \notin conflicted =>
           audit[i] = IF rows[i].status = "paid"
                        THEN << [by |-> rows[i].reconciled_by,
                                 amount |-> rows[i].amount] >>
                        ELSE <<>>
  BY <1>1, AboutToCommit DEF GuardedBy
<1>3. row \in Row /\ row.status = "paid" /\ row.amount \in Amounts
      /\ row.reconciled_by = h.by /\ row.amount = rows[i].amount
  BY <1>1, <1>2 DEF Row
<1>4. entry \in AuditEntry /\ entries \in Seq(AuditEntry)
  BY <1>1, <1>2 DEF AuditEntry
<1>5. rows' = [rows EXCEPT ![i] = row] /\ audit' = [audit EXCEPT ![i] = entries]
  BY DEF CommitMarkPaid
<1>6. i \notin conflicted' => entries = << [by |-> row.reconciled_by, amount |-> row.amount] >>
  <2> SUFFICES ASSUME i \notin conflicted'
               PROVE  entries = << [by |-> row.reconciled_by, amount |-> row.amount] >>
    OBVIOUS
  <2>1. i \notin conflicted /\ rows[i].status = "unpaid" /\ rows[i].amount = h.snap.amount
    BY <1>2 DEF CommitMarkPaid, Finish, Stale
  <2>2. audit[i] = <<>> /\ entry = [by |-> row.reconciled_by, amount |-> row.amount]
    BY <1>2, <1>3, <2>1
  <2>3. entries = <<entry>>
    BY <1>4, <2>2
  <2> QED
    BY <2>2, <2>3
<1>7. \E k \in DOMAIN entries : entries[k].by = row.reconciled_by
  <2>1. Len(entries) \in DOMAIN entries /\ entries[Len(entries)] = entry
    BY <1>2, <1>4
  <2> QED
    BY <1>3, <2>1, SMTT(30)
<1>8. Finish(r)
  BY DEF CommitMarkPaid
<1> QED
  BY <1>1, <1>2, <1>3, <1>4, <1>5, <1>6, <1>7, <1>8, FinishPreserves
\* The commits that write no audit entry.
LEMMA SilentCommitsPreserve ==
  ASSUME IInv, NEW r \in Requests,
         \/ CommitUpdate(r) \/ CommitCancel(r) \/ CommitPay(r)
         \/ CommitReceipt(r) \/ CommitDocument(r)
  PROVE  IInv'
<1> DEFINE h == inflight[r]
           i == h.invoice
<1>1. h # None /\ h.op # "create" /\ Finish(r) /\ audit' = audit
  BY DEF CommitUpdate, CommitCancel, CommitPay, CommitReceipt, CommitDocument, Running
<1>2. /\ i \in InvoiceIds /\ Exists(i)
      /\ rows[i] \in Row /\ rows[i].amount \in Amounts
      /\ h.snap \in Row /\ GuardedBy(h)
      /\ audit[i] \in Seq(AuditEntry)
      /\ i \notin conflicted =>
           audit[i] = IF rows[i].status = "paid"
                        THEN << [by |-> rows[i].reconciled_by,
                                 amount |-> rows[i].amount] >>
                        ELSE <<>>
      /\ rows[i].status = "paid" =>
           \E k \in DOMAIN audit[i] : audit[i][k].by = rows[i].reconciled_by
  BY <1>1, AboutToCommit
<1>3. audit' = [audit EXCEPT ![i] = audit[i]]
  BY <1>1 DEF IInv, TypeOK
<1>4. i \notin conflicted' =>
        /\ i \notin conflicted
        /\ rows[i].status = h.snap.status /\ rows[i].amount = h.snap.amount
  BY <1>1 DEF Finish, Stale
<1>5. CASE CommitUpdate(r)
  <2> DEFINE row == [rows[i] EXCEPT !.amount = Written(@, h.snap.amount, h.amount)]
  <2>1. h.op = "update" /\ h.amount \in Amounts /\ rows' = [rows EXCEPT ![i] = row]
    BY <1>1, <1>5 DEF CommitUpdate, Running, IInv, TypeOK, Handler
  <2>2. /\ row \in Row /\ row.amount \in Amounts
        /\ row.status = rows[i].status /\ row.reconciled_by = rows[i].reconciled_by
    BY <1>2, <2>1 DEF Row, Written
  <2>3. h.snap.status # "paid"
    BY <1>2, <2>1 DEF GuardedBy
  <2> HIDE DEF row
  <2>4. row.status # "absent"
    BY <1>2, <2>2 DEF Exists
  <2>5. i \notin conflicted' =>
          audit[i] = IF row.status = "paid"
                       THEN << [by |-> row.reconciled_by, amount |-> row.amount] >>
                       ELSE <<>>
    BY <1>2, <1>4, <2>2, <2>3
  <2>6. row.status = "paid" =>
          \E k \in DOMAIN audit[i] : audit[i][k].by = row.reconciled_by
    BY <1>2, <2>2
  <2> QED
    BY <1>1, <1>2, <1>3, <2>1, <2>2, <2>4, <2>5, <2>6, FinishPreserves
<1>6. CASE CommitCancel(r)
  <2> DEFINE row == [rows[i] EXCEPT !.status = Written(@, h.snap.status, "cancelled")]
  <2>1. h.op = "cancel" /\ rows' = [rows EXCEPT ![i] = row]
    BY <1>6 DEF CommitCancel, Running
  <2>2. /\ row \in Row /\ row.amount = rows[i].amount
        /\ row.status \in {rows[i].status, "cancelled"}
        /\ row.reconciled_by = rows[i].reconciled_by
    BY <1>2, <2>1 DEF Row, Written
  <2>3. h.snap.status # "paid"
    BY <1>2, <2>1 DEF GuardedBy
  <2> HIDE DEF row
  <2>4. row.status # "absent"
    BY <1>2, <2>2 DEF Exists
  <2>5. i \notin conflicted' =>
          audit[i] = IF row.status = "paid"
                       THEN << [by |-> row.reconciled_by, amount |-> row.amount] >>
                       ELSE <<>>
    BY <1>2, <1>4, <2>2, <2>3
  <2>6. row.status = "paid" =>
          \E k \in DOMAIN audit[i] : audit[i][k].by = row.reconciled_by
    BY <1>2, <2>2
  <2> QED
    BY <1>1, <1>2, <1>3, <2>1, <2>2, <2>4, <2>5, <2>6, FinishPreserves
<1>7. CASE CommitPay(r) \/ CommitReceipt(r) \/ CommitDocument(r)
  <2>1. PICK row \in Row :
          /\ rows' = [rows EXCEPT ![i] = row]
          /\ row.amount = rows[i].amount /\ row.status = rows[i].status
          /\ row.reconciled_by = rows[i].reconciled_by
    <3>1. CASE CommitPay(r)
      <4> DEFINE row == [rows[i] EXCEPT !.pay_url = Written(@, h.snap.pay_url, h.snap.amount)]
      <4>1. row \in Row /\ rows' = [rows EXCEPT ![i] = row]
        BY <1>2, <3>1 DEF CommitPay, Row, Written
      <4> QED
        BY <1>2, <4>1 DEF Row
    <3>2. CASE CommitReceipt(r)
      <4> DEFINE row == [rows[i] EXCEPT !.receipt = TRUE]
      <4>1. row \in Row /\ rows' = [rows EXCEPT ![i] = row]
        BY <1>2, <3>2 DEF CommitReceipt, Row
      <4> QED
        BY <1>2, <4>1 DEF Row
    <3>3. CASE CommitDocument(r)
      <4> DEFINE row == [rows[i] EXCEPT !.document = TRUE]
      <4>1. row \in Row /\ rows' = [rows EXCEPT ![i] = row]
        BY <1>2, <3>3 DEF CommitDocument, Row
      <4> QED
        BY <1>2, <4>1 DEF Row
    <3> QED
      BY <1>7, <3>1, <3>2, <3>3
  <2>4. row.status # "absent"
    BY <1>2, <2>1 DEF Exists
  <2>5. i \notin conflicted' =>
          audit[i] = IF row.status = "paid"
                       THEN << [by |-> row.reconciled_by, amount |-> row.amount] >>
                       ELSE <<>>
    BY <1>2, <1>4, <2>1
  <2>6. row.status = "paid" =>
          \E k \in DOMAIN audit[i] : audit[i][k].by = row.reconciled_by
    BY <1>2, <2>1
  <2> QED
    BY <1>1, <1>2, <1>3, <2>1, <2>1, <2>4, <2>5, <2>6, FinishPreserves
<1> QED
  BY <1>5, <1>6, <1>7

LEMMA AbortPreserves ==
  ASSUME IInv, NEW r \in Requests, Abort(r)
  PROVE  IInv'
<1> USE DEF IInv, Abort
<1>1. TypeOK'
  BY DEF TypeOK, Exists
<1>2. HandlersGuarded'
  BY DEF TypeOK, HandlersGuarded, Exists, GuardedBy
<1>3. AbsentUntouched' /\ SettledOnce' /\ PaymentTraced'
  BY DEF AbsentUntouched, SettledOnce, PaymentTraced, Exists
<1> QED
  BY <1>1, <1>2, <1>3

LEMMA NextIInv == IInv /\ [Next]_vars => IInv'
<1> SUFFICES ASSUME IInv, [Next]_vars PROVE IInv'
  OBVIOUS
<1>1. CASE UNCHANGED vars
  BY <1>1 DEF vars, IInv, TypeOK, HandlersGuarded, AbsentUntouched, SettledOnce,
              PaymentTraced, Exists, GuardedBy
<1> QED
  BY <1>1, StepCases, BeginCreatePreserves, BeginsPreserve, CommitCreatePreserves,
     CommitMarkPaidPreserves, SilentCommitsPreserve, AbortPreserves

-----------------------------------------------------------------------------
(***************************************************************************)
(* The theorems.                                                           *)
(***************************************************************************)

\* The invariant holds in every reachable state.
THEOREM Invariant == Spec => []IInv
  BY InitIInv, NextIInv, PTL DEF Spec

\* Rows, handlers and audit entries keep their shape.
THEOREM TypeCorrect == Spec => []TypeOK
  BY Invariant, PTL DEF IInv

\* mark_paid, cancel and update decide about an invoice once, unless one of
\* them committed over a status or amount it had not seen.
THEOREM Settlement == Spec => []SettledOnce
  BY Invariant, PTL DEF IInv

\* However handlers overlap, a paid invoice leads to the entry of its
\* reconciler.
THEOREM Traceability == Spec => []PaymentTraced
  BY Invariant, PTL DEF IInv
\* A handler never writes back a column it did not mean to change.
LEMMA StepKeeps ==
  ASSUME TypeOK, [Next]_vars, NEW i \in InvoiceIds, Exists(i)
  PROVE  /\ rows[i].status \in {"paid", "cancelled"} =>
              rows'[i].status \in {"paid", "cancelled"}
         /\ rows[i].receipt => rows'[i].receipt
         /\ rows[i].document => rows'[i].document
         /\ rows'[i].reference = rows[i].reference
<1>1. rows[i] \in Row
  BY DEF TypeOK
<1>2. CASE rows' = rows
  BY <1>2
<1>3. ASSUME NEW r \in Requests, CommitCreate(r)
      PROVE  rows'[i] = rows[i]
  BY <1>3 DEF CommitCreate, TypeOK
<1>4. ASSUME NEW r \in Requests, CommitUpdate(r)
      PROVE  /\ rows'[i].status = rows[i].status /\ rows'[i].receipt = rows[i].receipt
             /\ rows'[i].document = rows[i].document
             /\ rows'[i].reference = rows[i].reference
  BY <1>1, <1>4 DEF CommitUpdate, TypeOK, Row
<1>5. ASSUME NEW r \in Requests, CommitMarkPaid(r)
      PROVE  \/ rows'[i] = rows[i]
             \/ \E s : rows'[i] = [rows[i] EXCEPT !.status = "paid", !.reconciled_by = s]
  BY <1>5 DEF CommitMarkPaid, TypeOK
<1>6. ASSUME NEW r \in Requests, CommitCancel(r)
      PROVE  \E s \in {rows[i].status, "cancelled"} :
               rows'[i] = [rows[i] EXCEPT !.status = s]
  BY <1>1, <1>6 DEF CommitCancel, Written, TypeOK, Row
<1>7. ASSUME NEW r \in Requests, CommitPay(r)
      PROVE  /\ rows'[i].status = rows[i].status /\ rows'[i].receipt = rows[i].receipt
             /\ rows'[i].document = rows[i].document
             /\ rows'[i].reference = rows[i].reference
  BY <1>1, <1>7 DEF CommitPay, TypeOK, Row
<1>8. ASSUME NEW r \in Requests, CommitReceipt(r) \/ CommitDocument(r)
      PROVE  \/ rows'[i] = rows[i]
             \/ rows'[i] = [rows[i] EXCEPT !.receipt = TRUE]
             \/ rows'[i] = [rows[i] EXCEPT !.document = TRUE]
  BY <1>8 DEF CommitReceipt, CommitDocument, TypeOK
<1>9. \/ rows' = rows
      \/ \E r \in Requests :
           \/ CommitCreate(r) \/ CommitUpdate(r) \/ CommitMarkPaid(r)
           \/ CommitCancel(r) \/ CommitPay(r) \/ CommitReceipt(r) \/ CommitDocument(r)
  BY StepCases DEF BeginCreate, BeginUpdate, BeginMarkPaid, BeginCancel, BeginPay,
                   BeginReceipt, BeginDocument, Start, Abort, vars
<1> QED
  BY <1>1, <1>2, <1>3, <1>4, <1>5, <1>6, <1>7, <1>8, <1>9 DEF Row

\* However handlers overlap, nothing settled is reopened, no receipt or file
\* is lost from an invoice and its reference stands.
THEOREM Monotonicity == Spec => NothingReverts
<1>1. TypeOK /\ [Next]_vars =>
        [\A i \in InvoiceIds :
           Exists(i) =>
             /\ rows[i].status \in {"paid", "cancelled"} =>
                  rows'[i].status \in {"paid", "cancelled"}
             /\ rows[i].receipt => rows'[i].receipt
             /\ rows[i].document => rows'[i].document
             /\ rows'[i].reference = rows[i].reference]_rows
  BY StepKeeps
<1> QED
  BY <1>1, TypeCorrect, PTL DEF Spec, NothingReverts

-----------------------------------------------------------------------------
\* Only a create inserts a row.
LEMMA AbsentStays ==
  ASSUME IInv, [Next]_vars, ~ \E r \in Requests : CommitCreate(r),
         NEW i \in InvoiceIds, ~Exists(i)
  PROVE  ~Exists(i)'
<1>1. \A r \in Requests :
        (inflight[r] # None /\ inflight[r].op # "create") => inflight[r].invoice # i
  BY DEF IInv, HandlersGuarded
<1>2. ASSUME NEW r \in Requests,
             \/ CommitUpdate(r) \/ CommitMarkPaid(r) \/ CommitCancel(r)
             \/ CommitPay(r) \/ CommitReceipt(r) \/ CommitDocument(r)
      PROVE  rows'[i] = rows[i]
  BY <1>1, <1>2 DEF CommitUpdate, CommitMarkPaid, CommitCancel, CommitPay,
                    CommitReceipt, CommitDocument, Running, IInv, TypeOK
<1>3. \/ rows' = rows
      \/ \E r \in Requests :
           \/ CommitUpdate(r) \/ CommitMarkPaid(r) \/ CommitCancel(r)
           \/ CommitPay(r) \/ CommitReceipt(r) \/ CommitDocument(r)
  BY StepCases DEF BeginCreate, BeginUpdate, BeginMarkPaid, BeginCancel, BeginPay,
                   BeginReceipt, BeginDocument, Start, Abort, vars
<1> QED
  BY <1>2, <1>3 DEF Exists

\* Two invoices never share a reference, and next_reference always has one.
THEOREM References == Spec => []ReferencesSound
<1> DEFINE Distinct ==
      \A i, j \in InvoiceIds :
        Exists(i) /\ Exists(j) /\ rows[i].reference = rows[j].reference => i = j
<1>1. Init => Distinct
  BY DEF Init, Exists, NoRow, NewRow
<1>2. IInv /\ Distinct /\ [Next]_vars => Distinct'
  <2> SUFFICES ASSUME IInv, Distinct, [Next]_vars PROVE Distinct'
    OBVIOUS
  <2>1. ASSUME NEW r \in Requests, CommitCreate(r)
        PROVE  Distinct'
    <3>1. PICK i \in InvoiceIds :
            ~Exists(i) /\ rows' = [rows EXCEPT ![i] = inflight[r].row]
      BY <2>1 DEF CommitCreate
    <3>2. \A j \in InvoiceIds : j # i => rows'[j] = rows[j]
      BY <3>1 DEF IInv, TypeOK
    <3>3. rows'[i].reference \notin UsedReferences
      BY <2>1, <3>1 DEF CommitCreate, IInv, TypeOK
    <3>4. \A j \in InvoiceIds : Exists(j) => rows[j].reference \in UsedReferences
      BY DEF UsedReferences
    <3> QED
      BY <3>1, <3>2, <3>3, <3>4 DEF Exists
  <2>2. CASE ~ \E r \in Requests : CommitCreate(r)
    BY <2>2, AbsentStays, StepKeeps DEF IInv
  <2> QED
    BY <2>1, <2>2
<1>3. ReferencesSound <=> Distinct
  BY UsedIsFinite, CandidatesExist DEF ReferencesSound
<1> QED
  BY <1>1, <1>2, <1>3, Invariant, PTL DEF Spec
=============================================================================
