\* Three overlapping requests and three changes: two revocations race while a
\* login or a refresh is in flight.
CONSTANTS
  Requests = {r1, r2, r3}
  Roles = {"client", "admin"}
  Passwords = {p1, p2}
  None = None
  MaxChanges = 3
SPECIFICATION Spec
\* With its changes used up, an account on hold admits nothing more.
CHECK_DEADLOCK FALSE
SYMMETRY Symmetry
INVARIANTS
  TypeOK
  RevocationEndsSessions
  SessionsFollowPassword
  PasswordKept
  StatusTraced
