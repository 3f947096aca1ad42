\* One entry, two runs that may overlap and three admin writes; a batch fails or a
\* run is lost once.
CONSTANTS
  Entries = {e1}
  Jobs = {j1, j2}
  BatchSize = 1
  None = None
  MaxClock = 3
  MaxFailures = 1
SPECIFICATION FairSpec
PROPERTIES
  CatchesUp
  OrphansRemoved
