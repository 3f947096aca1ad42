\* One run, one entry, and an edit that lands while the run is embedding.
CONSTANTS
  Entries = {e1}
  Jobs = {j1}
  BatchSize = 1
  None = None
  MaxClock = 2
  MaxFailures = 0
SPECIFICATION Spec
INVARIANT EditMarksStale
