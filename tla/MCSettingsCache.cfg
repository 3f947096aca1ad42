\* Two processes, two calls and one save at a time; an entry lives one tick of
\* three, so entries are hit, expire, and are outlived by slow reads and saves.
CONSTANTS
  Processes = {p1, p2}
  Readers = {r1, r2}
  Savers = {w1}
  TTL = 1
  None = None
  MaxTime = 2
  MaxSaves = 2
SPECIFICATION Spec
SYMMETRY Symmetry
INVARIANTS
  SaveVisible
PROPERTY BoundedStaleness
