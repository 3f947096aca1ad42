\* Three overlapping requests: two are issuing, accepting or cancelling the same
\* invitation while a third does, and three invitations follow one another.
CONSTANTS
  Requests = {r1, r2, r3}
  None = None
  MaxInvites = 3
SPECIFICATION Spec
SYMMETRY Symmetry
INVARIANTS
  NewestLinkOnly
  RedeemedOnce
  StatusTells
PROPERTY FateIsFinal
\* The address has its account and every link has expired: nothing is left.
CHECK_DEADLOCK FALSE
