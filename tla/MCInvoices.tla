----------------------------- MODULE MCInvoices -----------------------------
(* Invoices on a small instance. *)
EXTENDS Invoices, TLC

Symmetry ==
  Permutations(Requests) \cup Permutations(Staff)
    \cup Permutations(InvoiceIds) \cup Permutations(Amounts)

\* Bound: at most one invoice moves past its creation.  Invoices meet only in
\* the references they use, which both still take part in.
Fresh(i) ==
  /\ ~Exists(i) \/ rows[i] = NewRow(rows[i].reference, rows[i].amount)
  /\ i \notin conflicted
  /\ \A r \in Requests :
       (inflight[r] # None /\ inflight[r].op # "create") => inflight[r].invoice # i

OneInvoiceLives == \A i, j \in InvoiceIds : i = j \/ Fresh(i) \/ Fresh(j)
=============================================================================
