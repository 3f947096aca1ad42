\* Two overlapping requests.  Documents: three files of two types are put, so
\* a chain of versions is archived, overwritten and torn.  Assignments: two managers take
\* two clients from each other, three audit entries.  Profile: one column and
\* two keys of the JSON column.
CONSTANTS
  Requests = {r1, r2}
  None = None
  DocTypes = {t1, t2}
  MaxPuts = 3
  Clients = {c1, c2}
  Managers = {m1, m2}
  Admins = {a1}
  Active = {a1, m1, m2, c1, c2}
  ManagerClientScope = "assigned"
  Notes = {n1}
  MaxNotedChanges = 1
  MaxChanges = 3
  ClientColumns = {k1}
  ExtraKeys = {k2, k3}
  Values = {v1}
  ProfileForms <- MCForms
SPECIFICATION MCSpec
SYMMETRY Symmetry
INVARIANTS
  TypesOK
  GoneIsReplaced
  HistoryChained
  CurrentIsNewest
  ManagerTraced
  AccessTraced
  ValuesKept
PROPERTY
  ListAsSaved
