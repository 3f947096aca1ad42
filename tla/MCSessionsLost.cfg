\* A client's account and two overlapping requests: a password change, a hold
\* and a return to active.
CONSTANTS
  Requests = {r1, r2}
  Roles = {"client"}
  Passwords = {p1, p2}
  None = None
  MaxChanges = 3
SPECIFICATION Spec
CHECK_DEADLOCK FALSE
INVARIANT EveryTokenInvalidated
