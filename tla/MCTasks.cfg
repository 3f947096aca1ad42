\* Two overlapping requests on one task: every pair of handlers races, and two
\* completions and a reopening follow one another or overlap.
CONSTANTS
  Requests = {r1, r2}
  TaskIds = {t1}
  Staff = {s1, s2}
  None = None
  EntryIds = {i1, i2, i3}
SPECIFICATION Spec
SYMMETRY Symmetry
INVARIANTS
  CompletedIsLocked
  CompletionTraced
  CompletedOnce
  MailFollowsCompletion
PROPERTY HoldStopsWork
