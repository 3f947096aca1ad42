\* Two entries, one to a batch, and two overlapping runs, with three admin writes:
\* edits, deletes and restores land before, inside and after each run, and a run
\* is lost, or one of its batches fails, after the other was embedded.
CONSTANTS
  Entries = {e1, e2}
  Jobs = {j1, j2}
  BatchSize = 1
  None = None
  MaxClock = 3
  MaxFailures = 1
SPECIFICATION Spec
SYMMETRY Symmetry
INVARIANTS
  TypeOK
  IndexedUnlessRaced
PROPERTY CurrentLeftAlone
