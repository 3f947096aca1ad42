------------------------------ MODULE Sessions ------------------------------
(***************************************************************************)
(* The sessions of one account: app/services/auth_service.py with the      *)
(* routes of app/api/v1/auth/routes.py, set_status of                      *)
(* app/services/client_service.py and scripts/reset_admin.py.              *)
(*                                                                         *)
(* There is no session table: a token carries the token_version it was     *)
(* minted with, and revoking is adding one to that column.  The sum is     *)
(* taken in Python and written as a constant, in a READ COMMITTED          *)
(* transaction without a row lock.  As in Invoices, a handler is a         *)
(* Begin... step, which loads and checks, and a Commit... step.            *)
(***************************************************************************)
EXTENDS Naturals

CONSTANTS
  Requests,    \* handler slots: how many requests overlap
  Roles,       \* the roles the account may have
  Passwords,
  None,        \* an idle request slot
  MaxChanges   \* bound on status and password changes begun

ASSUME ConstantsAssumption ==
  /\ Roles \subseteq {"client", "admin"}
  /\ MaxChanges \in Nat

VARIABLES
  user,         \* the row of users
  status,       \* clients.status of the client the user is, if it is one
  tokens,       \* the tokens that have been given out
  inflight,     \* inflight[r]: the handler running in slot r, or None
  audit,        \* audit[old][new]: how many entries record that change
  chosen,       \* the password last set by a password change (history)
  revocations,  \* how many revocations have committed (history)
  clobbered,    \* some handler committed over a token_version or a password
                \* that was no longer the one it had loaded (history)
  crossed,      \* some status change committed over a status that was no
                \* longer the one it had loaded (history)
  changes       \* changes begun (bounds the model)

vars == <<user, status, tokens, inflight, audit, chosen, revocations, clobbered, crossed,
          changes>>

-----------------------------------------------------------------------------
ClientStatus == {"active", "hold", "deactive"}

\* outdated: needs_rehash(hashed_password).
User == [role: Roles, password: Passwords, outdated: BOOLEAN,
         token_version: Nat]

\* ver is the token's claim.  password is the one its session was opened with
\* and since how many revocations had committed when its handler loaded the
\* user (both history).
Token == [ver: Nat, password: Passwords, since: Nat]

\* The log tells no order: the ids are random, and created_at is the start of
\* the transaction.
AuditLog == [ClientStatus -> [ClientStatus -> Nat]]

Handler ==
  [op: {"login", "refresh"}, snap: User, token: Token]
    \cup [op: {"change_password", "reset"}, snap: User, password: Passwords]
    \cup [op: {"set_status"}, snap: User, old: ClientStatus, new: ClientStatus]

\* assert_account_may_hold_session.
MayHoldSession == user.role = "client" => status = "active"

\* user_from_token.
Accepted(token) == MayHoldSession /\ token.ver = user.token_version

Init ==
  /\ user \in [role: Roles, password: Passwords, outdated: BOOLEAN,
               token_version: {0}]
  /\ status = "active"
  /\ tokens = {}
  /\ inflight = [r \in Requests |-> None]
  /\ audit = [old \in ClientStatus |-> [new \in ClientStatus |-> 0]]
  /\ chosen = user.password
  /\ revocations = 0
  /\ clobbered = FALSE
  /\ crossed = FALSE
  /\ changes = 0

-----------------------------------------------------------------------------
Start(r, handler) ==
  /\ inflight[r] = None
  /\ inflight' = [inflight EXCEPT ![r] = handler]
  /\ UNCHANGED <<user, status, tokens, audit, chosen, revocations, clobbered, crossed>>

\* authenticate, and issue_tokens from the row it loaded.
BeginLogin(r) ==
  /\ MayHoldSession
  /\ Start(r, [op |-> "login", snap |-> user,
               token |-> [ver |-> user.token_version, password |-> user.password,
                          since |-> revocations]])
  /\ UNCHANGED changes

BeginRefresh(r, token) ==
  /\ Accepted(token)
  /\ Start(r, [op |-> "refresh", snap |-> user,
               token |-> [ver |-> user.token_version, password |-> token.password,
                          since |-> revocations]])
  /\ UNCHANGED changes

Change(r, handler) ==
  /\ changes < MaxChanges
  /\ changes' = changes + 1
  /\ Start(r, handler)

\* The caller is signed in and gives the password the row holds.
BeginChangePassword(r, token) ==
  /\ Accepted(token)
  /\ \E password \in Passwords :
       Change(r, [op |-> "change_password", snap |-> user, password |-> password])

\* reset_admin.py --set-password, for administrators only.
BeginReset(r) ==
  /\ user.role = "admin"
  /\ \E password \in Passwords :
       Change(r, [op |-> "reset", snap |-> user, password |-> password])

\* Deviation: the account of an administrator can be put on hold.
BeginSetStatusAnyRole(r) ==
  \E new \in ClientStatus \ {status} :
    Change(r, [op |-> "set_status", snap |-> user, old |-> status, new |-> new])

BeginSetStatus(r) ==
  /\ user.role = "client"
  /\ \E new \in ClientStatus \ {status} :
       Change(r, [op |-> "set_status", snap |-> user, old |-> status, new |-> new])

-----------------------------------------------------------------------------
Running(r, op) == inflight[r] # None /\ inflight[r].op = op

Free(r) == inflight' = [inflight EXCEPT ![r] = None]

\* Deviation: a login writes the whole row it loaded.
CommitLoginWholeRow(r) ==
  /\ Running(r, "login")
  /\ LET h == inflight[r] IN
       /\ user' = [h.snap EXCEPT !.outdated = FALSE]
       /\ clobbered' = (clobbered \/ (h.snap.outdated /\ user.password # h.snap.password))
       /\ tokens' = tokens \cup {h.token}
  /\ Free(r)
  /\ UNCHANGED <<status, audit, chosen, revocations, crossed, changes>>

\* A login that finds the hash outdated stores a new one of the password it
\* was given; the tokens were minted before the commit.
CommitLogin(r) ==
  /\ Running(r, "login")
  /\ LET h == inflight[r] IN
       /\ IF h.snap.outdated
            THEN /\ user' = [user EXCEPT !.password = h.snap.password, !.outdated = FALSE]
                 /\ clobbered' = (clobbered \/ user.password # h.snap.password)
            ELSE UNCHANGED <<user, clobbered>>
       /\ tokens' = tokens \cup {h.token}
  /\ Free(r)
  /\ UNCHANGED <<status, audit, chosen, revocations, crossed, changes>>

\* The new pair of tokens is as good as the one presented was when loaded.
CommitRefresh(r) ==
  /\ Running(r, "refresh")
  /\ tokens' = tokens \cup {inflight[r].token}
  /\ Free(r)
  /\ UNCHANGED <<user, status, audit, chosen, revocations, clobbered, crossed, changes>>

\* token_version += 1, as the transaction of handler h writes it.
Revoke(h) ==
  /\ user' = [user EXCEPT !.token_version = h.snap.token_version + 1]
  /\ revocations' = revocations + 1
  /\ clobbered' = (clobbered \/ user.token_version # h.snap.token_version)

\* Deviation: the password changes and the sessions stay.
CommitPasswordOnly(r) ==
  /\ Running(r, "change_password") \/ Running(r, "reset")
  /\ LET h == inflight[r] IN
       /\ user' = [user EXCEPT !.password = h.password, !.outdated = FALSE]
       /\ clobbered' = (clobbered \/ user.token_version # h.snap.token_version)
       /\ chosen' = h.password
  /\ Free(r)
  /\ UNCHANGED <<status, tokens, audit, revocations, crossed, changes>>

\* change_password and the console's reset write the hash and the version.
CommitPassword(r) ==
  /\ Running(r, "change_password") \/ Running(r, "reset")
  /\ LET h == inflight[r] IN
       /\ user' = [user EXCEPT !.password = h.password, !.outdated = FALSE,
                               !.token_version = h.snap.token_version + 1]
       /\ clobbered' = (clobbered \/ user.token_version # h.snap.token_version)
       /\ revocations' = revocations + 1
       /\ chosen' = h.password
  /\ Free(r)
  /\ UNCHANGED <<status, tokens, audit, crossed, changes>>

Record(h) == audit' = [audit EXCEPT ![h.old][h.new] = @ + 1]

\* Deviation: a return to active is not recorded.
CommitSetStatusUntraced(r) ==
  /\ Running(r, "set_status")
  /\ LET h == inflight[r] IN
       /\ status' = h.new
       /\ crossed' = (crossed \/ status # h.old)
       /\ IF h.new = "active" THEN UNCHANGED audit ELSE Record(h)
       /\ IF h.new = "active" THEN UNCHANGED <<user, revocations, clobbered>>
                              ELSE Revoke(h)
  /\ Free(r)
  /\ UNCHANGED <<tokens, chosen, changes>>

\* Deviation: the version is left alone when an account is put on hold.
CommitSetStatusKeepSessions(r) ==
  /\ Running(r, "set_status")
  /\ LET h == inflight[r] IN
       /\ status' = h.new
       /\ crossed' = (crossed \/ status # h.old)
       /\ Record(h)
       /\ revocations' = revocations + 1
  /\ Free(r)
  /\ UNCHANGED <<user, clobbered, tokens, chosen, changes>>

\* set_status: hold and deactive also end the user's sessions.
CommitSetStatus(r) ==
  /\ Running(r, "set_status")
  /\ LET h == inflight[r] IN
       /\ status' = h.new
       /\ crossed' = (crossed \/ status # h.old)
       /\ Record(h)
       /\ IF h.new = "active" THEN UNCHANGED <<user, revocations, clobbered>>
                              ELSE Revoke(h)
  /\ Free(r)
  /\ UNCHANGED <<tokens, chosen, changes>>

Abort(r) ==
  /\ inflight[r] # None
  /\ Free(r)
  /\ UNCHANGED <<user, status, tokens, audit, chosen, revocations, clobbered, crossed,
                 changes>>

Next ==
  \E r \in Requests :
    \/ BeginLogin(r)
    \/ \E token \in tokens : BeginRefresh(r, token) \/ BeginChangePassword(r, token)
    \/ BeginReset(r)
    \/ BeginSetStatus(r)
    \/ CommitLogin(r)
    \/ CommitRefresh(r)
    \/ CommitPassword(r)
    \/ CommitSetStatus(r)
    \/ Abort(r)

Spec == Init /\ [][Next]_vars

-----------------------------------------------------------------------------
(***************************************************************************)
(* Properties                                                              *)
(***************************************************************************)

\* The variables keep their shape; an administrator has no client status.
TypeOK ==
  /\ user \in User
  /\ status \in ClientStatus
  /\ tokens \subseteq Token
  /\ inflight \in [Requests -> Handler \cup {None}]
  /\ audit \in AuditLog
  /\ chosen \in Passwords
  /\ revocations \in Nat
  /\ clobbered \in BOOLEAN
  /\ crossed \in BOOLEAN
  /\ changes \in 0 .. MaxChanges
  /\ user.role = "admin" => status = "active"

\* "Bumping the token version ends any session already open": a token whose
\* handler loaded the user before a revocation is not accepted after it, even
\* when it is given out later - unless a revocation was lost to a race.
RevocationEndsSessions ==
  ~ clobbered =>
    \A token \in tokens : token.since < revocations => ~ Accepted(token)

\* "Signing out other devices is the expected consequence of a password
\* change": through any chain of refreshes, a session that is still accepted
\* was opened with the password now in force - unless an update was lost.
SessionsFollowPassword ==
  ~ clobbered => \A token \in tokens : Accepted(token) => token.password = chosen

\* The password a change or a reset set is the one that signs in, whatever
\* logins rehash meanwhile - unless one of them rehashed an older password.
PasswordKept == ~ clobbered => user.password = chosen

\* How many entries of the log say that the account took, or left, status s.
Entered(s) == audit["active"][s] + audit["hold"][s] + audit["deactive"][s]
Left(s) == audit[s]["active"] + audit[s]["hold"] + audit[s]["deactive"]

\* Whatever raced, some entry of the log names the status of the account, if there
\* are entries at all; and whatever order they are shown in, each status was taken
\* as often as it was left, but for the first and the present one - unless a
\* change was saved over another.
StatusTraced ==
  /\ IF \A s \in ClientStatus : Entered(s) = 0 THEN status = "active"
                                             ELSE Entered(status) > 0
  /\ ~ crossed => \A s \in ClientStatus :
       Entered(s) + (IF s = "active" THEN 1 ELSE 0) = Left(s) + (IF s = status THEN 1 ELSE 0)

\* What the User model says of the version: "Bumped to invalidate every
\* outstanding token for this user at once".  Two revocations that overlap
\* with a login between their commits break it.
EveryTokenInvalidated ==
  \A token \in tokens : token.since < revocations => ~ Accepted(token)

-----------------------------------------------------------------------------
(***************************************************************************)
(* The inductive invariant behind the properties.                          *)
(***************************************************************************)

\* Only clients are put on hold.
HandlersGuarded == \A r \in Requests : Running(r, "set_status") => user.role = "client"

\* The tokens given out, and those minted for a response still to be sent.
Minted ==
  tokens \cup {inflight[r].token : r \in {q \in Requests : Running(q, "login") \/ Running(q, "refresh")}}

\* While no update is lost, the version counts the revocations, a token says how
\* many there had been, and one that no revocation has reached was opened with
\* the password in force.
VersionCounts ==
  ~ clobbered =>
    /\ user.token_version = revocations
    /\ \A token \in Minted :
         /\ token.ver = token.since
         /\ token.since <= revocations
         /\ token.since = revocations => token.password = chosen

IInv == TypeOK /\ HandlersGuarded /\ PasswordKept /\ VersionCounts /\ StatusTraced
=============================================================================
