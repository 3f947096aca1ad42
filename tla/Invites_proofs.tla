--------------------------- MODULE Invites_proofs ---------------------------
(***************************************************************************)
(* Proofs about Invites, for every number of requests and invitations:     *)
(* IInv is inductive, and every property of the module follows from it.    *)
(***************************************************************************)
EXTENDS Invites, TLAPS

LEMMA InitIInv == Init => IInv
  BY ConstantsAssumption
  DEF Init, IInv, TypeOK, HandlersGuarded, CreatesSee, NewestLinkOnly, RedeemedOnce,
      StatusTells, Ids, Running

-----------------------------------------------------------------------------
(* What each kind of step does to the rows and the handlers. *)

\* A handler that starts.
LEMMA StartPreserves ==
  ASSUME IInv, NEW r \in Requests, NEW h \in Handler, Start(r, h),
         h.op = "create" =>
           /\ h.known = Len(invites)
           /\ h.pending = {i \in Ids : invites[i].status = "pending"},
         h.op \in {"accept", "revoke"} =>
           h.invite \in Ids /\ h.snap = invites[h.invite],
         h.op = "accept" => h.snap.status = "pending",
         h.op = "revoke" => h.snap.status # "used"
  PROVE  IInv'
<1> USE DEF IInv
<1>1. /\ invites' = invites /\ account' = account
      /\ conflicted' = conflicted /\ missed' = missed /\ Ids' = Ids
  BY DEF Start, Ids
<1>2. inflight \in [Requests -> Handler \cup {None}] /\ invites \in Seq(Row)
  BY DEF TypeOK
<1>3. inflight' \in [Requests -> Handler \cup {None}] /\ inflight'[r] = h
      /\ \A q \in Requests \ {r} : inflight'[q] = inflight[q]
  BY <1>2 DEF Start
<1>4. TypeOK'
  BY <1>1, <1>2, <1>3 DEF TypeOK, Running
<1>5. HandlersGuarded'
  BY <1>3 DEF HandlersGuarded, Running
<1>6. CreatesSee'
  <2> SUFFICES ASSUME NEW q \in Requests, Running(q, "create")'
               PROVE  /\ inflight'[q].known <= Len(invites)
                      /\ \A i \in 1 .. inflight'[q].known :
                           invites[i].status = "pending" => i \in inflight'[q].pending
    BY <1>1 DEF CreatesSee
  <2>1. CASE q = r
    BY <2>1, <1>2, <1>3 DEF Running, Ids
  <2>2. CASE q # r
    BY <2>2, <1>3 DEF Running, CreatesSee
  <2> QED
    BY <2>1, <2>2
<1>7. NewestLinkOnly' /\ RedeemedOnce' /\ StatusTells'
  BY <1>1 DEF NewestLinkOnly, RedeemedOnce, StatusTells, Live, Ids
<1> QED
  BY <1>4, <1>5, <1>6, <1>7

\* A slot that is freed leaves what is known of the others alone.
LEMMA FreeKeeps ==
  ASSUME TypeOK, NEW r \in Requests, Free(r)
  PROVE  /\ inflight' \in [Requests -> Handler \cup {None}]
         /\ inflight'[r] = None
         /\ \A q \in Requests \ {r} : inflight'[q] = inflight[q]
  BY DEF TypeOK, Free

\* A step that writes one row, and keeps a status from returning to pending.
LEMMA RowWritten ==
  ASSUME IInv, NEW i \in Ids, NEW row \in Row,
         invites' = [invites EXCEPT ![i] = row],
         row.status = "pending" => invites[i].status = "pending"
  PROVE  /\ invites' \in Seq(Row) /\ Ids' = Ids /\ Len(invites') = Len(invites)
         /\ invites'[i] = row
         /\ \A j \in Ids \ {i} : invites'[j] = invites[j]
         /\ \A j \in Ids : invites'[j].status = "pending" => invites[j].status = "pending"
<1>1. invites \in Seq(Row) /\ i \in 1 .. Len(invites)
  BY DEF IInv, TypeOK, Ids
<1>2. /\ invites' \in Seq(Row) /\ Len(invites') = Len(invites)
      /\ DOMAIN invites' = DOMAIN invites
      /\ invites'[i] = row
      /\ \A j \in Ids \ {i} : invites'[j] = invites[j]
  BY <1>1 DEF Ids
<1> QED
  BY <1>2 DEF Ids

\* A handler that writes its invitation's row and is done: the rows of others,
\* and what is known of their handlers, stand.
LEMMA FinishPreserves ==
  ASSUME IInv, NEW r \in Requests, Finish(r),
         NEW i \in Ids, NEW row \in Row, inflight[r].invite = i,
         invites' = [invites EXCEPT ![i] = row],
         row.status = "pending" => invites[i].status = "pending",
         row.expired = invites[i].expired,
         account' \in Ids \cup {None}
  PROVE  TypeOK' /\ HandlersGuarded' /\ CreatesSee' /\ NewestLinkOnly'
<1> USE DEF IInv
<1>1. /\ invites' \in Seq(Row) /\ Ids' = Ids /\ Len(invites') = Len(invites)
      /\ invites'[i] = row
      /\ \A j \in Ids \ {i} : invites'[j] = invites[j]
      /\ \A j \in Ids : invites'[j].status = "pending" => invites[j].status = "pending"
  BY RowWritten
<1>2. /\ inflight' \in [Requests -> Handler \cup {None}]
      /\ inflight'[r] = None
      /\ \A q \in Requests \ {r} : inflight'[q] = inflight[q]
  BY FreeKeeps DEF Finish
<1>3. missed' = missed /\ conflicted' \subseteq conflicted \cup {i}
  BY DEF Finish
<1>4. TypeOK'
  BY <1>1, <1>2, <1>3 DEF TypeOK, Running
<1>5. HandlersGuarded'
  BY <1>2 DEF HandlersGuarded, Running
<1>6. CreatesSee'
  <2> SUFFICES ASSUME NEW q \in Requests, Running(q, "create")'
               PROVE  /\ inflight'[q].known <= Len(invites)
                      /\ \A j \in 1 .. inflight'[q].known :
                           invites'[j].status = "pending" => j \in inflight'[q].pending
    BY <1>1 DEF CreatesSee
  <2>1. q # r /\ inflight'[q] = inflight[q] /\ Running(q, "create")
    BY <1>2 DEF Running
  <2>2. inflight[q].known \in Nat /\ inflight[q].known <= Len(invites)
    BY <2>1 DEF CreatesSee, TypeOK, Handler, Running
  <2>3. ASSUME NEW j \in 1 .. inflight[q].known PROVE j \in Ids
    BY <2>2 DEF TypeOK, Ids
  <2> QED
    BY <1>1, <2>1, <2>2, <2>3 DEF CreatesSee
<1>7. NewestLinkOnly'
  BY <1>1, <1>3 DEF NewestLinkOnly, Live
<1> QED
  BY <1>4, <1>5, <1>6, <1>7

LEMMA CommitAcceptPreserves ==
  ASSUME IInv, NEW r \in Requests, CommitAccept(r)
  PROVE  IInv'
<1> USE DEF IInv
<1> DEFINE i == inflight[r].invite
           row == [invites[i] EXCEPT !.status = "used", !.used_at = TRUE]
<1>1. i \in Ids /\ Running(r, "accept") /\ inflight[r].snap.status = "pending"
  BY DEF CommitAccept, TypeOK, HandlersGuarded
<1>2. invites \in Seq(Row) /\ invites[i] \in Row /\ i \in Nat
  BY <1>1 DEF TypeOK, Ids
<1>3. row \in Row /\ row.status = "used" /\ row.used_at = TRUE
      /\ row.expired = invites[i].expired /\ row.revoked_at = invites[i].revoked_at
  BY <1>2 DEF Row, Status
<1>4. invites' = [invites EXCEPT ![i] = row] /\ account = None /\ account' = i
      /\ Finish(r)
  BY <1>1, <1>2 DEF CommitAccept, Row
<1> HIDE DEF row
<1>5. TypeOK' /\ HandlersGuarded' /\ CreatesSee' /\ NewestLinkOnly'
  BY <1>1, <1>3, <1>4, FinishPreserves
<1>6. /\ Ids' = Ids /\ invites'[i] = row
      /\ \A j \in Ids \ {i} : invites'[j] = invites[j]
  BY <1>1, <1>3, <1>4, RowWritten
<1>7. RedeemedOnce'
  <2> SUFFICES ASSUME NEW j \in Ids PROVE invites'[j].used_at <=> j = i
    BY <1>4, <1>6 DEF RedeemedOnce
  <2>1. CASE j = i
    BY <2>1, <1>3, <1>6
  <2>2. CASE j # i
    BY <2>2, <1>4, <1>6, ConstantsAssumption DEF RedeemedOnce, TypeOK, Ids
  <2> QED
    BY <2>1, <2>2
<1>8. StatusTells'
  <2> SUFFICES ASSUME NEW j \in Ids, j \notin conflicted'
               PROVE  /\ invites'[j].status = "used" <=> invites'[j].used_at
                      /\ invites'[j].status = "revoked" <=> invites'[j].revoked_at
    BY <1>6 DEF StatusTells
  <2>1. j \notin conflicted /\ (j = i => invites[i].status = "pending")
    BY <1>1, <1>4 DEF Finish, Overwrites
  <2>2. CASE j = i
    BY <2>1, <2>2, <1>3, <1>6 DEF StatusTells
  <2>3. CASE j # i
    BY <2>1, <2>3, <1>6 DEF StatusTells
  <2> QED
    BY <2>2, <2>3
<1> QED
  BY <1>5, <1>7, <1>8

LEMMA CommitRevokePreserves ==
  ASSUME IInv, NEW r \in Requests, CommitRevoke(r)
  PROVE  IInv'
<1> USE DEF IInv
<1> DEFINE i == inflight[r].invite
           row == [invites[i] EXCEPT
                     !.status = Written(@, inflight[r].snap.status, "revoked"),
                     !.revoked_at = TRUE]
<1>1. i \in Ids /\ Running(r, "revoke") /\ inflight[r].snap.status # "used"
  BY DEF CommitRevoke, TypeOK, HandlersGuarded
<1>2. invites \in Seq(Row) /\ invites[i] \in Row
  BY <1>1 DEF TypeOK, Ids
<1>3. inflight[r].snap.status \in {"pending", "revoked"}
  BY <1>1 DEF TypeOK, Handler, Running, Row, Status
<1>4. /\ row \in Row /\ row.revoked_at = TRUE
      /\ row.status = IF inflight[r].snap.status # "revoked" THEN "revoked"
                                                             ELSE invites[i].status
      /\ row.expired = invites[i].expired /\ row.used_at = invites[i].used_at
  BY <1>2, <1>3 DEF Row, Status, Written
<1>5. invites' = [invites EXCEPT ![i] = row] /\ account' = account /\ Finish(r)
  BY <1>1, <1>2 DEF CommitRevoke, Row
<1> HIDE DEF row
<1>6. TypeOK' /\ HandlersGuarded' /\ CreatesSee' /\ NewestLinkOnly'
  BY <1>1, <1>4, <1>5, FinishPreserves DEF TypeOK
<1>7. /\ Ids' = Ids /\ invites'[i] = row
      /\ \A j \in Ids \ {i} : invites'[j] = invites[j]
  BY <1>1, <1>4, <1>5, RowWritten, ZenonT(30)
<1>8. RedeemedOnce'
  BY <1>4, <1>5, <1>7 DEF RedeemedOnce
<1>9. StatusTells'
  <2> SUFFICES ASSUME NEW j \in Ids, j \notin conflicted'
               PROVE  /\ invites'[j].status = "used" <=> invites'[j].used_at
                      /\ invites'[j].status = "revoked" <=> invites'[j].revoked_at
    BY <1>7 DEF StatusTells
  <2>1. j \notin conflicted
        /\ (j = i => invites[i].status = inflight[r].snap.status)
    BY <1>1, <1>5 DEF Finish, Overwrites
  <2>2. CASE j = i
    BY <2>1, <2>2, <1>3, <1>4, <1>7 DEF StatusTells
  <2>3. CASE j # i
    BY <2>1, <2>3, <1>7 DEF StatusTells
  <2> QED
    BY <2>2, <2>3
<1> QED
  BY <1>6, <1>8, <1>9

LEMMA CommitCreatePreserves ==
  ASSUME IInv, NEW r \in Requests, CommitCreate(r)
  PROVE  IInv'
<1> USE DEF IInv
<1> DEFINE n == Len(invites)
           S == inflight[r].pending
           old == [i \in Ids |-> IF i \in S THEN Revoked(invites[i]) ELSE invites[i]]
<1>1. Running(r, "create") /\ S \subseteq Ids /\ inflight[r].known \in Nat
  BY DEF CommitCreate, TypeOK, Handler, Running
<1>2. n \in Nat /\ Ids = 1 .. n /\ invites \in Seq(Row)
      /\ \A i \in Ids : invites[i] \in Row
  BY DEF TypeOK, Ids
<1>3. \A i \in Ids : Revoked(invites[i]) \in Row
  BY <1>2 DEF Revoked, Row, Status
<1>4. old \in [1 .. n -> Row]
  BY <1>2, <1>3
<1>5. old \in Seq(Row) /\ Len(old) = n
  BY <1>2, <1>4
<1>6. invites' = Append(old, NewRow) /\ account' = account
      /\ conflicted' = conflicted \cup {i \in S : invites[i].status # "pending"}
      /\ missed' = missed \cup (inflight[r].known + 1 .. n) /\ Free(r)
  BY DEF CommitCreate
<1>7. NewRow \in Row /\ NewRow.status = "pending"
      /\ NewRow.used_at = FALSE /\ NewRow.revoked_at = FALSE
  BY DEF NewRow, Row, Status
<1>8. /\ invites' \in Seq(Row) /\ Len(invites') = n + 1 /\ Ids' = 1 .. (n + 1)
      /\ invites'[n + 1] = NewRow
      /\ \A i \in 1 .. n : invites'[i] = old[i]
  BY <1>2, <1>5, <1>6, <1>7 DEF Ids
<1>9. \A i \in 1 .. n :
        /\ i \notin S => invites'[i] = invites[i]
        /\ i \in S => /\ invites'[i].status = "revoked"
                      /\ invites'[i].revoked_at = TRUE
                      /\ invites'[i].used_at = invites[i].used_at
  BY <1>2, <1>8 DEF Revoked, Row
<1> HIDE DEF old, n
<1>10. /\ inflight' \in [Requests -> Handler \cup {None}]
       /\ inflight'[r] = None
       /\ \A q \in Requests \ {r} : inflight'[q] = inflight[q]
  BY <1>6, FreeKeeps
<1>11. TypeOK'
  <2>1. Ids \subseteq Ids'
    BY <1>2, <1>8
  <2>2. conflicted' \subseteq Ids' /\ account' \in Ids' \cup {None}
    BY <1>1, <1>6, <2>1 DEF TypeOK
  <2>3. inflight[r].known + 1 .. n \subseteq 1 .. n + 1
    BY <1>1, <1>2
  <2>4. missed' \subseteq Ids'
    BY <1>6, <1>8, <2>1, <2>3 DEF TypeOK
  <2> QED
    BY <1>8, <1>10, <2>1, <2>2, <2>4 DEF TypeOK, Running
<1>12. HandlersGuarded'
  BY <1>10 DEF HandlersGuarded, Running
<1>13. CreatesSee'
  <2> SUFFICES ASSUME NEW q \in Requests, Running(q, "create")'
               PROVE  /\ inflight'[q].known <= Len(invites')
                      /\ \A i \in 1 .. inflight'[q].known :
                           invites'[i].status = "pending" => i \in inflight'[q].pending
    BY DEF CreatesSee
  <2>1. q # r /\ inflight'[q] = inflight[q] /\ Running(q, "create")
    BY <1>10 DEF Running
  <2>2. inflight[q].known \in Nat /\ inflight[q].known <= n
    BY <2>1 DEF CreatesSee, TypeOK, Handler, Running, n
  <2>3. \A i \in 1 .. inflight[q].known :
          i \in 1 .. n /\ (invites[i].status = "pending" => i \in inflight[q].pending)
    BY <1>2, <2>1, <2>2 DEF CreatesSee
  <2> QED
    BY <1>2, <1>8, <1>9, <2>1, <2>2, <2>3, SMTT(30)
<1>14. NewestLinkOnly'
  <2> SUFFICES ASSUME NEW i \in 1 .. n, i \notin missed', invites'[i].status = "pending"
               PROVE  FALSE
    BY <1>2, <1>8 DEF NewestLinkOnly, Live
  <2>1. i \notin S /\ invites[i].status = "pending"
    BY <1>9
  <2>2. i \in 1 .. inflight[r].known
    BY <1>1, <1>2, <1>6
  <2> QED
    BY <1>1, <2>1, <2>2 DEF CreatesSee
<1>15. RedeemedOnce'
  <2>1. account # n + 1
    BY <1>2, ConstantsAssumption DEF TypeOK
  <2>2. \A i \in 1 .. n : invites'[i].used_at <=> account = i
    BY <1>2, <1>9 DEF RedeemedOnce
  <2> QED
    BY <1>2, <1>6, <1>7, <1>8, <2>1, <2>2 DEF RedeemedOnce
<1>16. StatusTells'
  <2> SUFFICES ASSUME NEW i \in 1 .. n, i \notin conflicted'
               PROVE  /\ invites'[i].status = "used" <=> invites'[i].used_at
                      /\ invites'[i].status = "revoked" <=> invites'[i].revoked_at
    BY <1>2, <1>7, <1>8 DEF StatusTells
  <2>1. i \notin conflicted /\ (i \in S => invites[i].status = "pending")
    BY <1>6
  <2> QED
    BY <1>2, <1>9, <2>1 DEF StatusTells
<1> QED
  BY <1>11, <1>12, <1>13, <1>14, <1>15, <1>16

LEMMA AbortPreserves ==
  ASSUME IInv, NEW r \in Requests, Abort(r)
  PROVE  IInv'
<1> USE DEF IInv
<1>1. /\ inflight' \in [Requests -> Handler \cup {None}]
      /\ inflight'[r] = None
      /\ \A q \in Requests \ {r} : inflight'[q] = inflight[q]
  BY FreeKeeps DEF Abort
<1>2. /\ invites' = invites /\ account' = account
      /\ conflicted' = conflicted /\ missed' = missed /\ Ids' = Ids
  BY DEF Abort, Ids
<1> QED
  BY <1>1, <1>2 DEF TypeOK, HandlersGuarded, CreatesSee, NewestLinkOnly, RedeemedOnce,
                    StatusTells, Running, Live

LEMMA ExpirePreserves ==
  ASSUME IInv, NEW i \in Ids, Expire(i)
  PROVE  IInv'
<1> USE DEF IInv
<1> DEFINE row == [invites[i] EXCEPT !.expired = TRUE]
<1>1. invites[i] \in Row
  BY DEF TypeOK, Ids
<1>2. /\ row \in Row /\ row.expired = TRUE /\ row.status = invites[i].status
      /\ row.used_at = invites[i].used_at /\ row.revoked_at = invites[i].revoked_at
  BY <1>1 DEF Row
<1>3. /\ invites' = [invites EXCEPT ![i] = row] /\ inflight' = inflight
      /\ account' = account /\ conflicted' = conflicted /\ missed' = missed
  BY DEF Expire
<1> HIDE DEF row
<1>4. /\ invites' \in Seq(Row) /\ Ids' = Ids /\ Len(invites') = Len(invites)
      /\ invites'[i] = row
      /\ \A j \in Ids \ {i} : invites'[j] = invites[j]
      /\ \A j \in Ids : invites'[j].status = "pending" => invites[j].status = "pending"
  BY <1>2, <1>3, RowWritten
<1>5. TypeOK' /\ HandlersGuarded'
  BY <1>3, <1>4 DEF TypeOK, HandlersGuarded, Running
<1>6. CreatesSee'
  <2> SUFFICES ASSUME NEW q \in Requests, Running(q, "create")
               PROVE  /\ inflight[q].known <= Len(invites)
                      /\ \A j \in 1 .. inflight[q].known :
                           invites'[j].status = "pending" => j \in inflight[q].pending
    BY <1>3, <1>4 DEF CreatesSee, Running
  <2>1. inflight[q].known \in Nat /\ inflight[q].known <= Len(invites)
    BY DEF CreatesSee, TypeOK, Handler, Running
  <2>2. \A j \in 1 .. inflight[q].known : j \in Ids
    BY <2>1 DEF TypeOK, Ids
  <2> QED
    BY <1>4, <2>1, <2>2 DEF CreatesSee
<1>7. NewestLinkOnly' /\ RedeemedOnce' /\ StatusTells'
  BY <1>2, <1>3, <1>4 DEF NewestLinkOnly, RedeemedOnce, StatusTells, Live
<1> QED
  BY <1>5, <1>6, <1>7

-----------------------------------------------------------------------------
(* The theorems. *)

LEMMA StepIInv == IInv /\ [Next]_vars => IInv'
<1> SUFFICES ASSUME IInv, [Next]_vars PROVE IInv'
  OBVIOUS
<1>1. ASSUME NEW r \in Requests, BeginCreate(r) PROVE IInv'
  <2> DEFINE h == [op |-> "create", known |-> Len(invites),
                   pending |-> {i \in Ids : invites[i].status = "pending"}]
  <2>1. Len(invites) \in Nat /\ {i \in Ids : invites[i].status = "pending"} \in SUBSET Nat
    BY DEF IInv, TypeOK, Ids
  <2>2. h \in [op: {"create"}, pending: SUBSET Nat, known: Nat]
    BY <2>1
  <2>3. Start(r, h)
    BY <1>1 DEF BeginCreate
  <2>4. h.op = "create" /\ h.known = Len(invites)
        /\ h.pending = {i \in Ids : invites[i].status = "pending"}
    OBVIOUS
  <2>5. h \in Handler
    BY <2>2 DEF Handler
  <2> HIDE DEF h
  <2> QED
    BY <2>3, <2>4, <2>5, StartPreserves
<1>2. ASSUME NEW r \in Requests, NEW i \in Ids, NEW op \in {"accept", "revoke"},
             Start(r, [op |-> op, invite |-> i, snap |-> invites[i]]),
             op = "accept" => invites[i].status = "pending",
             op = "revoke" => invites[i].status # "used"
      PROVE  IInv'
  <2> DEFINE h == [op |-> op, invite |-> i, snap |-> invites[i]]
  <2>1. h \in Handler
    BY DEF IInv, TypeOK, Ids, Handler
  <2>2. h.op = op /\ h.invite = i /\ h.snap = invites[i] /\ Start(r, h)
    BY <1>2
  <2> HIDE DEF h
  <2> QED
    BY <1>2, <2>1, <2>2, StartPreserves
<1>3. ASSUME NEW r \in Requests, NEW i \in Ids, BeginAccept(r, i) PROVE IInv'
  BY <1>2, <1>3 DEF BeginAccept, Live
<1>4. ASSUME NEW r \in Requests, NEW i \in Ids, BeginRevoke(r, i) PROVE IInv'
  BY <1>2, <1>4 DEF BeginRevoke
<1>5. CASE UNCHANGED vars
  BY <1>5 DEF vars, IInv, TypeOK, HandlersGuarded, CreatesSee, NewestLinkOnly,
              RedeemedOnce, StatusTells, Running, Live, Ids
<1> QED
  BY <1>1, <1>3, <1>4, <1>5, CommitCreatePreserves, CommitAcceptPreserves,
     CommitRevokePreserves, AbortPreserves, ExpirePreserves DEF Next

\* The inductive invariant: rows and handlers keep their shape, and what the
\* guards of create_invite, validate_token and revoke_invite established still
\* holds of what the handler loaded when it commits.
THEOREM Invariant == Spec => []IInv
  BY InitIInv, StepIInv, PTL DEF Spec

\* The state of every invitation keeps its shape; expiry is never stored.
THEOREM TypeCorrect == Spec => []TypeOK
  BY Invariant, PTL DEF IInv

\* However many links are live and however often each is used, one account is
\* made, and exactly the invitation it came from counts as used.
THEOREM Redemption == Spec => []RedeemedOnce
  BY Invariant, PTL DEF IInv

\* A link that works is the newest, unless the request that issued the next
\* one had not seen it.
THEOREM Supersession == Spec => []NewestLinkOnly
  BY Invariant, PTL DEF IInv

\* The stored status of an invitation agrees with its timestamps, unless two
\* handlers wrote it at once.
THEOREM StatusTruth == Spec => []StatusTells
  BY Invariant, PTL DEF IInv

\* What has become of an invitation stays so: whatever handler commits next,
\* a used or a revoked one keeps its status, or the step is one that overwrote
\* another's.
THEOREM Finality == Spec => FateIsFinal
<1> DEFINE A == \A i \in Ids :
                  invites[i].status # "pending" /\ i \notin conflicted' =>
                    invites'[i].status = invites[i].status
<1>1. IInv /\ [Next]_vars => [A]_vars
  <2> SUFFICES ASSUME IInv, Next, NEW i \in Ids,
                      invites[i].status # "pending", i \notin conflicted'
               PROVE  invites'[i].status = invites[i].status
    BY DEF vars
  <2>1. /\ invites \in Seq(Row) /\ Ids = 1 .. Len(invites)
        /\ \A j \in Ids : invites[j] \in Row
    BY DEF IInv, TypeOK, Ids
  <2>2. ASSUME NEW r \in Requests, CommitCreate(r) PROVE invites'[i].status = invites[i].status
    <3> DEFINE S == inflight[r].pending
               old == [j \in Ids |-> IF j \in S THEN Revoked(invites[j]) ELSE invites[j]]
    <3>1. i \notin S
      BY <2>2 DEF CommitCreate
    <3>2. \A j \in Ids : Revoked(invites[j]) \in Row
      BY <2>1 DEF Revoked, Row, Status
    <3>3. old \in [1 .. Len(invites) -> Row] /\ old[i] = invites[i]
      BY <2>1, <3>1, <3>2
    <3>4. old \in Seq(Row) /\ Len(old) = Len(invites) /\ NewRow \in Row
      BY <2>1, <3>3 DEF NewRow, Row, Status
    <3>5. invites' = Append(old, NewRow)
      BY <2>2 DEF CommitCreate
    <3> HIDE DEF old
    <3> QED
      BY <2>1, <3>3, <3>4, <3>5
  <2>3. ASSUME NEW r \in Requests, CommitAccept(r) PROVE invites'[i].status = invites[i].status
    BY <2>1, <2>3 DEF IInv, HandlersGuarded, CommitAccept, Finish, Overwrites
  <2>4. ASSUME NEW r \in Requests, CommitRevoke(r) PROVE invites'[i].status = invites[i].status
    <3>1. inflight[r].snap.status \in {"pending", "revoked"}
      BY <2>4 DEF CommitRevoke, IInv, TypeOK, HandlersGuarded, Handler, Running, Row, Status
    <3> QED
      BY <2>1, <2>4, <3>1 DEF CommitRevoke, Finish, Overwrites, Written, Row
  <2>5. ASSUME NEW j \in Ids, Expire(j) PROVE invites'[i].status = invites[i].status
    BY <2>1, <2>5 DEF Expire, Row
  <2>6. ASSUME invites' = invites PROVE invites'[i].status = invites[i].status
    BY <2>6
  <2> QED
    BY <2>2, <2>3, <2>4, <2>5, <2>6
    DEF Next, BeginCreate, BeginAccept, BeginRevoke, Start, Abort
<1> QED
  BY <1>1, Invariant, PTL DEF Spec, FateIsFinal
=============================================================================
