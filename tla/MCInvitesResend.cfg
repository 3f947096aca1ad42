\* Two overlapping requests to issue an invitation.
CONSTANTS
  Requests = {r1, r2}
  None = None
  MaxInvites = 3
SPECIFICATION Spec
INVARIANT EarlierLinksDead
