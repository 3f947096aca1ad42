\* Two overlapping requests, two invoices, two amounts, two reconcilers.
CONSTANTS
  Requests = {r1, r2}
  InvoiceIds = {i1, i2}
  Amounts = {a1, a2}
  Staff = {s1, s2}
  SuppliedReferences = {2}
  MaxReferenceAttempts = 1
  None = None
SPECIFICATION Spec
CONSTRAINT OneInvoiceLives
SYMMETRY Symmetry
INVARIANTS
  TypeOK
  SettledOnce
  PaymentTraced
  ReferencesSound
PROPERTY NothingReverts
