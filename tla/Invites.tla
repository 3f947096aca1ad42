------------------------------ MODULE Invites -------------------------------
(***************************************************************************)
(* The invitations of one email address:                                   *)
(* app/services/invite_service.py with app/api/v1/admin/invites.py and the *)
(* redemption route of app/api/v1/auth/routes.py.  What an invitation      *)
(* offers (role, company, services) travels with its row unchanged and     *)
(* decides nothing here.                                                   *)
(*                                                                         *)
(* As in Invoices, a handler is a Begin... step, which loads and checks,   *)
(* and a Commit... step, which writes the attributes that changed.  The    *)
(* unique index on users.email is the only thing the database enforces.    *)
(***************************************************************************)
EXTENDS Naturals, Sequences

CONSTANTS
  Requests,    \* handler slots: how many requests overlap
  None,        \* no account, an idle request slot
  MaxInvites   \* bound on the invitations issued

ASSUME ConstantsAssumption ==
  /\ MaxInvites \in Nat
  /\ None \notin Nat

VARIABLES
  invites,     \* the committed rows, in the order they were committed
  account,     \* the invitation the address's account was created from
  inflight,    \* inflight[r]: the handler running in slot r, or None
  conflicted,  \* invitations some handler committed over a changed status
  missed       \* invitations committed while another was being issued
               \* (conflicted, missed and a handler's known are history)

vars == <<invites, account, inflight, conflicted, missed>>

-----------------------------------------------------------------------------
\* Expiry is not stored: expired tells that expires_at has passed.
Status == {"pending", "used", "revoked"}

Row == [status: Status, expired: BOOLEAN, used_at: BOOLEAN, revoked_at: BOOLEAN]

NewRow == [status |-> "pending", expired |-> FALSE,
           used_at |-> FALSE, revoked_at |-> FALSE]

Ids == DOMAIN invites

Handler ==
  [op: {"create"}, pending: SUBSET Nat, known: Nat]
    \cup [op: {"accept", "revoke"}, invite: Nat, snap: Row]

\* effective_status is PENDING: the link works.
Live(i) == invites[i].status = "pending" /\ ~ invites[i].expired

Written(column, loaded, new) == IF new # loaded THEN new ELSE column

Init ==
  /\ invites = <<>>
  /\ account = None
  /\ inflight = [r \in Requests |-> None]
  /\ conflicted = {}
  /\ missed = {}

-----------------------------------------------------------------------------
Start(r, handler) ==
  /\ inflight[r] = None
  /\ inflight' = [inflight EXCEPT ![r] = handler]
  /\ UNCHANGED <<invites, account, conflicted, missed>>

\* Deviation: a new invitation leaves the earlier ones alone.
BeginCreateKeep(r) ==
  /\ account = None
  /\ Start(r, [op |-> "create", known |-> Len(invites), pending |-> {}])

\* create_invite, which a resend calls too with the data of an earlier
\* invitation whatever its status: it loads the rows stored as pending.
BeginCreate(r) ==
  /\ account = None
  /\ Start(r, [op |-> "create", known |-> Len(invites),
               pending |-> {i \in Ids : invites[i].status = "pending"}])

\* Deviation: the status is not looked at, only the expiry.
BeginAcceptAny(r, i) ==
  /\ ~ invites[i].expired
  /\ account = None
  /\ Start(r, [op |-> "accept", invite |-> i, snap |-> invites[i]])

\* validate_token, and no account has the address yet.
BeginAccept(r, i) ==
  /\ Live(i)
  /\ account = None
  /\ Start(r, [op |-> "accept", invite |-> i, snap |-> invites[i]])

\* Deviation: a used invitation can be cancelled.
BeginRevokeUsed(r, i) ==
  Start(r, [op |-> "revoke", invite |-> i, snap |-> invites[i]])

\* Only a used invitation is refused.
BeginRevoke(r, i) ==
  /\ invites[i].status # "used"
  /\ Start(r, [op |-> "revoke", invite |-> i, snap |-> invites[i]])

-----------------------------------------------------------------------------
Running(r, op) == inflight[r] # None /\ inflight[r].op = op

Free(r) == inflight' = [inflight EXCEPT ![r] = None]

Revoked(row) == [row EXCEPT !.status = "revoked", !.revoked_at = TRUE]

\* The mail with the new link is out before this commit.
CommitCreate(r) ==
  /\ Running(r, "create")
  /\ Len(invites) < MaxInvites
  /\ LET S == inflight[r].pending
         stale == {i \in S : invites[i].status # "pending"}
     IN /\ invites' = Append([i \in Ids |-> IF i \in S THEN Revoked(invites[i])
                                                       ELSE invites[i]], NewRow)
        /\ conflicted' = conflicted \cup stale
        /\ missed' = missed \cup (inflight[r].known + 1 .. Len(invites))
  /\ Free(r)
  /\ UNCHANGED account

Overwrites(h) == invites[h.invite].status # h.snap.status

Finish(r) ==
  /\ conflicted' = IF Overwrites(inflight[r])
                     THEN conflicted \cup {inflight[r].invite} ELSE conflicted
  /\ Free(r)
  /\ UNCHANGED missed

\* Deviation: users.email is not unique.
CommitAcceptTwice(r) ==
  /\ Running(r, "accept")
  /\ LET h == inflight[r] IN
       /\ invites' = [invites EXCEPT ![h.invite].status = "used",
                                     ![h.invite].used_at = TRUE]
       /\ account' = h.invite
  /\ Finish(r)

\* The account, the client's profile and the used invitation commit together;
\* a second account with the address is refused by the unique index.
CommitAccept(r) ==
  /\ Running(r, "accept")
  /\ account = None
  /\ LET h == inflight[r] IN
       /\ invites' = [invites EXCEPT ![h.invite].status = "used",
                                     ![h.invite].used_at = TRUE]
       /\ account' = h.invite
  /\ Finish(r)

CommitRevoke(r) ==
  /\ Running(r, "revoke")
  /\ LET h == inflight[r] IN
       invites' = [invites EXCEPT
         ![h.invite].status = Written(@, h.snap.status, "revoked"),
         ![h.invite].revoked_at = TRUE]
  /\ Finish(r)
  /\ UNCHANGED account

\* Rolled back: the process dies, or the database refuses the commit.
Abort(r) ==
  /\ inflight[r] # None
  /\ Free(r)
  /\ UNCHANGED <<invites, account, conflicted, missed>>

\* expires_at passes.  Later invitations may run out first: the number of days
\* is a setting.
Expire(i) ==
  /\ ~ invites[i].expired
  /\ invites' = [invites EXCEPT ![i].expired = TRUE]
  /\ UNCHANGED <<account, inflight, conflicted, missed>>

Next ==
  \/ \E r \in Requests :
       \/ BeginCreate(r)
       \/ \E i \in Ids : BeginAccept(r, i) \/ BeginRevoke(r, i)
       \/ CommitCreate(r)
       \/ CommitAccept(r)
       \/ CommitRevoke(r)
       \/ Abort(r)
  \/ \E i \in Ids : Expire(i)

Spec == Init /\ [][Next]_vars

-----------------------------------------------------------------------------
(***************************************************************************)
(* Properties                                                              *)
(***************************************************************************)

\* The variables keep their shape; that an invitation has expired is never
\* stored in its status.
TypeOK ==
  /\ invites \in Seq(Row)
  /\ account \in Ids \cup {None}
  /\ inflight \in [Requests -> Handler \cup {None}]
  /\ \A r \in Requests :
       /\ Running(r, "create") => inflight[r].pending \subseteq Ids
       /\ Running(r, "accept") \/ Running(r, "revoke") => inflight[r].invite \in Ids
  /\ conflicted \subseteq Ids
  /\ missed \subseteq Ids

\* "only the newest link works": an earlier one is dead, unless the request
\* that issued the next had loaded the address's invitations before it was
\* committed.
NewestLinkOnly ==
  \A i \in Ids \ missed : Live(i) => i = Len(invites)

\* One address, one account: exactly the invitation it was created from has
\* ever been redeemed, whatever links were live and however often one was used.
RedeemedOnce == \A i \in Ids : invites[i].used_at <=> account = i

\* A row's status tells what became of it: an invitation that was redeemed
\* reads used and was never cancelled, one that was cancelled reads revoked -
\* unless two handlers wrote it at once.
StatusTells ==
  \A i \in Ids \ conflicted :
    /\ invites[i].status = "used" <=> invites[i].used_at
    /\ invites[i].status = "revoked" <=> invites[i].revoked_at

\* What becomes of an invitation is final: a used one is not cancelled and a
\* cancelled one not redeemed, unless two handlers wrote it at once.
FateIsFinal ==
  [][\A i \in Ids :
       invites[i].status # "pending" /\ i \notin conflicted' =>
         invites'[i].status = invites[i].status]_vars

\* What resend_invite says without exception: "only the newest link works -
\* resending must not leave earlier links live".  Two requests that issue an
\* invitation at once break it.
EarlierLinksDead == \A i \in Ids : Live(i) => i = Len(invites)

-----------------------------------------------------------------------------
(***************************************************************************)
(* The inductive invariant behind the properties: what the guards left     *)
(* true of each handler, and that no status returns to pending.            *)
(***************************************************************************)
HandlersGuarded ==
  \A r \in Requests :
    /\ Running(r, "accept") => inflight[r].snap.status = "pending"
    /\ Running(r, "revoke") => inflight[r].snap.status # "used"

\* Of the invitations there were when it loaded them, the ones that are still
\* pending are among those a create is going to revoke.
CreatesSee ==
  \A r \in Requests : Running(r, "create") =>
    /\ inflight[r].known <= Len(invites)
    /\ \A i \in 1 .. inflight[r].known :
         invites[i].status = "pending" => i \in inflight[r].pending

IInv == TypeOK /\ HandlersGuarded /\ CreatesSee
               /\ NewestLinkOnly /\ RedeemedOnce /\ StatusTells
=============================================================================
