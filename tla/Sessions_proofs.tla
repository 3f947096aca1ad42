--------------------------- MODULE Sessions_proofs --------------------------
(***************************************************************************)
(* Proofs about Sessions, for every number of requests, every bound on the *)
(* changes and every set of passwords: IInv is inductive, and the safety   *)
(* properties of the module follow from it.                                *)
(***************************************************************************)
EXTENDS Sessions, TLAPS

LEMMA InitIInv == Init => IInv
<1> SUFFICES ASSUME Init PROVE IInv
  OBVIOUS
<1>1. user \in User /\ user.token_version = 0
  BY DEF Init, User
<1>2. TypeOK
  <2>1. chosen \in Passwords /\ status \in ClientStatus
    BY DEF Init, ClientStatus
  <2>2. changes \in 0 .. MaxChanges
    BY ConstantsAssumption DEF Init
  <2>3. inflight \in [Requests -> Handler \cup {None}]
    BY DEF Init
  <2>4. audit \in AuditLog
    BY DEF Init, AuditLog
  <2>5. /\ tokens \subseteq Token /\ revocations \in Nat /\ status = "active"
        /\ clobbered \in BOOLEAN /\ crossed \in BOOLEAN
    BY DEF Init
  <2> QED
    BY <1>1, <2>1, <2>2, <2>3, <2>4, <2>5 DEF TypeOK
<1>3. HandlersGuarded /\ Minted = {}
  BY DEF Init, HandlersGuarded, Minted, Running
<1>4. PasswordKept /\ VersionCounts
  BY <1>1, <1>3 DEF Init, PasswordKept, VersionCounts
<1>5. StatusTraced
  <2>1. status = "active" /\ \A a, b \in ClientStatus : audit[a][b] = 0
    BY DEF Init
  <2>2. \A s \in ClientStatus : Entered(s) = 0 /\ Left(s) = 0
    BY <2>1 DEF Entered, Left, ClientStatus
  <2> QED
    BY <2>1, <2>2 DEF StatusTraced
<1> QED
  BY <1>2, <1>3, <1>4, <1>5 DEF IInv

-----------------------------------------------------------------------------
\* What a handler carries, by operation.
LEMMA HandlerShape ==
  ASSUME TypeOK, NEW r \in Requests, NEW op, Running(r, op)
  PROVE  /\ inflight[r].op = op
         /\ inflight[r].snap \in User
         /\ op \in {"login", "refresh"} => inflight[r].token \in Token
         /\ op \in {"change_password", "reset"} => inflight[r].password \in Passwords
         /\ op = "set_status" => inflight[r].old \in ClientStatus /\ inflight[r].new \in ClientStatus
<1>1. inflight[r] \in Handler /\ inflight[r].op = op
  BY DEF TypeOK, Running
<1> QED
  BY <1>1 DEF Handler

\* A step that changes neither the status nor the log.
LEMMA SameTrace ==
  ASSUME StatusTraced, UNCHANGED <<status, audit, crossed>>
  PROVE  StatusTraced'
  BY DEF StatusTraced, Entered, Left

\* A change that is recorded: its entry names the new status, and says once more
\* that the one status was left and the other entered.
LEMMA EntryTraces ==
  ASSUME TypeOK, StatusTraced, NEW h, h.old \in ClientStatus, h.new \in ClientStatus,
         Record(h), status' = h.new, crossed' = (crossed \/ status # h.old)
  PROVE  audit' \in AuditLog /\ StatusTraced'
<1>1. audit \in [ClientStatus -> [ClientStatus -> Nat]]
  BY DEF TypeOK, AuditLog
<1>2. /\ audit' \in [ClientStatus -> [ClientStatus -> Nat]]
      /\ \A a, b \in ClientStatus :
           audit'[a][b] = audit[a][b] + (IF a = h.old /\ b = h.new THEN 1 ELSE 0)
  BY <1>1 DEF Record
<1>3. ASSUME NEW s \in ClientStatus
      PROVE  /\ Entered(s) \in Nat /\ Left(s) \in Nat
             /\ Entered(s)' = Entered(s) + (IF s = h.new THEN 1 ELSE 0)
             /\ Left(s)' = Left(s) + (IF s = h.old THEN 1 ELSE 0)
  <2>1. Entered(s) \in Nat /\ Entered(s)' = Entered(s) + (IF s = h.new THEN 1 ELSE 0)
    <3>1. /\ audit["active"][s] \in Nat /\ audit["hold"][s] \in Nat
          /\ audit["deactive"][s] \in Nat
      BY <1>1 DEF ClientStatus
    <3>2. /\ audit'["active"][s] = audit["active"][s]
               + (IF "active" = h.old THEN (IF s = h.new THEN 1 ELSE 0) ELSE 0)
          /\ audit'["hold"][s] = audit["hold"][s]
               + (IF "hold" = h.old THEN (IF s = h.new THEN 1 ELSE 0) ELSE 0)
          /\ audit'["deactive"][s] = audit["deactive"][s]
               + (IF "deactive" = h.old THEN (IF s = h.new THEN 1 ELSE 0) ELSE 0)
      BY <1>2 DEF ClientStatus
    <3>3. CASE h.old = "active"
      BY <3>1, <3>2, <3>3 DEF Entered
    <3>4. CASE h.old = "hold"
      BY <3>1, <3>2, <3>4 DEF Entered
    <3>5. CASE h.old = "deactive"
      BY <3>1, <3>2, <3>5 DEF Entered
    <3> QED
      BY <3>3, <3>4, <3>5 DEF ClientStatus
  <2>2. Left(s) \in Nat /\ Left(s)' = Left(s) + (IF s = h.old THEN 1 ELSE 0)
    <3>1. /\ audit[s]["active"] \in Nat /\ audit[s]["hold"] \in Nat
          /\ audit[s]["deactive"] \in Nat
      BY <1>1 DEF ClientStatus
    <3>2. /\ audit'[s]["active"] = audit[s]["active"]
               + (IF "active" = h.new THEN (IF s = h.old THEN 1 ELSE 0) ELSE 0)
          /\ audit'[s]["hold"] = audit[s]["hold"]
               + (IF "hold" = h.new THEN (IF s = h.old THEN 1 ELSE 0) ELSE 0)
          /\ audit'[s]["deactive"] = audit[s]["deactive"]
               + (IF "deactive" = h.new THEN (IF s = h.old THEN 1 ELSE 0) ELSE 0)
      BY <1>2 DEF ClientStatus
    <3>3. CASE h.new = "active"
      BY <3>1, <3>2, <3>3 DEF Left
    <3>4. CASE h.new = "hold"
      BY <3>1, <3>2, <3>4 DEF Left
    <3>5. CASE h.new = "deactive"
      BY <3>1, <3>2, <3>5 DEF Left
    <3> QED
      BY <3>3, <3>4, <3>5 DEF ClientStatus
  <2> QED
    BY <2>1, <2>2
<1>4. Entered(h.new)' > 0
  BY <1>3
<1>5. ASSUME ~ crossed', NEW s \in ClientStatus
      PROVE  Entered(s)' + (IF s = "active" THEN 1 ELSE 0) =
               Left(s)' + (IF s = status' THEN 1 ELSE 0)
  <2>1. Entered(s) + (IF s = "active" THEN 1 ELSE 0) = Left(s) + (IF s = h.old THEN 1 ELSE 0)
    BY <1>5 DEF StatusTraced, TypeOK
  <2> QED
    BY <1>3, <2>1
<1>6. /\ Entered(status)' > 0
      /\ ~ (\A s \in ClientStatus : Entered(s)' = 0)
  <2>1. Entered(h.new)' = Entered(status)'
    BY DEF Entered
  <2> QED
    BY <1>3, <1>4, <2>1
<1> QED
  BY <1>2, <1>5, <1>6 DEF StatusTraced, AuditLog

\* A handler that starts.
LEMMA StartPreserves ==
  ASSUME IInv, NEW r \in Requests, NEW h \in Handler, Start(r, h),
         changes' \in 0 .. MaxChanges,
         h.op = "set_status" => user.role = "client",
         h.op \in {"login", "refresh"} =>
           /\ h.token.ver = user.token_version /\ h.token.since = revocations
           /\ ~ clobbered => h.token.password = chosen
  PROVE  IInv'
<1> USE DEF IInv
<1>1. /\ inflight' \in [Requests -> Handler \cup {None}] /\ inflight'[r] = h
      /\ \A q \in Requests \ {r} : inflight'[q] = inflight[q]
  BY DEF Start, TypeOK
<1>2. UNCHANGED <<user, status, tokens, audit, chosen, revocations, clobbered, crossed>>
  BY DEF Start
<1>3. TypeOK'
  BY <1>1, <1>2 DEF TypeOK
<1>4. HandlersGuarded'
  BY <1>1, <1>2 DEF HandlersGuarded, Running
<1>5. VersionCounts'
  <2> SUFFICES ASSUME ~ clobbered, NEW token \in Minted'
               PROVE  /\ user.token_version = revocations
                      /\ token.ver = token.since /\ token.since <= revocations
                      /\ token.since = revocations => token.password = chosen
    BY <1>2 DEF VersionCounts
  <2>1. user.token_version = revocations /\ revocations \in Nat
    BY DEF VersionCounts, TypeOK
  <2>2. CASE token \in Minted
    BY <2>1, <2>2 DEF VersionCounts
  <2>3. CASE token \notin Minted
    <3>1. token = h.token /\ h.op \in {"login", "refresh"}
      BY <2>3, <1>1, <1>2 DEF Minted, Running
    <3> QED
      BY <3>1, <2>1
  <2> QED
    BY <2>2, <2>3
<1>6. PasswordKept'
  BY <1>2 DEF PasswordKept
<1>7. StatusTraced'
  BY <1>2, SameTrace
<1> QED
  BY <1>3, <1>4, <1>5, <1>6, <1>7

\* A handler that ends: it gives out no token but the one it has minted.
LEMMA FreePreserves ==
  ASSUME IInv, NEW r \in Requests, Free(r), user'.role = user.role,
         \A token \in tokens' \ tokens :
           /\ Running(r, "login") \/ Running(r, "refresh")
           /\ token = inflight[r].token
  PROVE  /\ inflight' \in [Requests -> Handler \cup {None}]
         /\ HandlersGuarded'
         /\ Minted' \subseteq Minted
<1> USE DEF IInv
<1>1. /\ inflight' \in [Requests -> Handler \cup {None}] /\ inflight'[r] = None
      /\ \A q \in Requests \ {r} : inflight'[q] = inflight[q]
  BY DEF Free, TypeOK
<1>2. HandlersGuarded'
  BY <1>1 DEF HandlersGuarded, Running
<1>3. Minted' \subseteq Minted
  BY <1>1 DEF Minted, Running
<1> QED
  BY <1>1, <1>2, <1>3

\* A transaction that revokes: the version it writes is the next one, unless it
\* overwrites another's, and then nothing is claimed any more.
LEMMA RevocationCounts ==
  ASSUME IInv, NEW h, h.snap \in User,
         user'.token_version = h.snap.token_version + 1,
         revocations' = revocations + 1,
         clobbered' = (clobbered \/ user.token_version # h.snap.token_version),
         Minted' \subseteq Minted
  PROVE  VersionCounts'
<1> SUFFICES ASSUME ~ clobbered'
             PROVE  /\ user'.token_version = revocations'
                    /\ \A token \in Minted' :
                         /\ token.ver = token.since
                         /\ token.since <= revocations'
                         /\ token.since = revocations' => token.password = chosen'
  BY DEF VersionCounts
<1>1. ~ clobbered /\ user.token_version = h.snap.token_version
  BY DEF IInv, TypeOK
<1>2. user.token_version = revocations /\ revocations \in Nat
  BY <1>1 DEF IInv, VersionCounts, TypeOK
<1>3. ASSUME NEW token \in Minted
      PROVE  token.ver = token.since /\ token.since <= revocations /\ token.since \in Nat
  <2>1. token \in Token
    BY HandlerShape DEF Minted, IInv, TypeOK
  <2> QED
    BY <1>1, <2>1 DEF IInv, VersionCounts, Token
<1> QED
  BY <1>1, <1>2, <1>3

-----------------------------------------------------------------------------
(* The steps. *)

LEMMA BeginLoginPreserves ==
  ASSUME IInv, NEW r \in Requests, BeginLogin(r)
  PROVE  IInv'
<1> DEFINE h == [op |-> "login", snap |-> user,
                 token |-> [ver |-> user.token_version, password |-> user.password,
                            since |-> revocations]]
<1>1. h \in Handler
  BY DEF IInv, TypeOK, Handler, Token, User
<1>2. Start(r, h) /\ changes' = changes
  BY DEF BeginLogin
<1>3. ~ clobbered => h.token.password = chosen
  BY DEF IInv, PasswordKept
<1>4. changes' \in 0 .. MaxChanges
  BY <1>2 DEF IInv, TypeOK
<1>5. /\ h.op = "login"
      /\ h.token.ver = user.token_version /\ h.token.since = revocations
  OBVIOUS
<1> HIDE DEF h
<1> QED
  BY <1>1, <1>2, <1>3, <1>4, <1>5, StartPreserves

LEMMA BeginRefreshPreserves ==
  ASSUME IInv, NEW r \in Requests, NEW token \in tokens, BeginRefresh(r, token)
  PROVE  IInv'
<1> DEFINE h == [op |-> "refresh", snap |-> user,
                 token |-> [ver |-> user.token_version, password |-> token.password,
                            since |-> revocations]]
<1>1. h \in Handler
  BY DEF IInv, TypeOK, Handler, Token, User
<1>2. Start(r, h) /\ changes' = changes
  BY DEF BeginRefresh
<1>3. ~ clobbered => h.token.password = chosen
  BY DEF IInv, VersionCounts, Minted, BeginRefresh, Accepted
<1>4. changes' \in 0 .. MaxChanges
  BY <1>2 DEF IInv, TypeOK
<1>5. /\ h.op = "refresh"
      /\ h.token.ver = user.token_version /\ h.token.since = revocations
  OBVIOUS
<1> HIDE DEF h
<1> QED
  BY <1>1, <1>2, <1>3, <1>4, <1>5, StartPreserves

\* change_password, reset and set_status start with nothing but the row.
LEMMA ChangePreserves ==
  ASSUME IInv, NEW r \in Requests, NEW h \in Handler, Change(r, h),
         h.op \notin {"login", "refresh"},
         h.op = "set_status" => user.role = "client"
  PROVE  IInv'
<1>1. Start(r, h)
  BY DEF Change
<1>2. changes' \in 0 .. MaxChanges
  BY ConstantsAssumption DEF Change, IInv, TypeOK
<1> QED
  BY <1>1, <1>2, StartPreserves

LEMMA BeginChangePreserves ==
  ASSUME IInv, NEW r \in Requests,
         \/ \E token \in tokens : BeginChangePassword(r, token)
         \/ BeginReset(r)
         \/ BeginSetStatus(r)
  PROVE  IInv'
<1>1. ASSUME NEW password \in Passwords, NEW op \in {"change_password", "reset"},
             Change(r, [op |-> op, snap |-> user, password |-> password])
      PROVE  IInv'
  <2> DEFINE h == [op |-> op, snap |-> user, password |-> password]
  <2>1. h \in Handler /\ h.op = op
    BY DEF IInv, TypeOK, Handler
  <2> HIDE DEF h
  <2> QED
    BY <1>1, <2>1, ChangePreserves DEF h
<1>2. ASSUME NEW new \in ClientStatus, user.role = "client",
             Change(r, [op |-> "set_status", snap |-> user, old |-> status, new |-> new])
      PROVE  IInv'
  <2> DEFINE h == [op |-> "set_status", snap |-> user, old |-> status, new |-> new]
  <2>1. h \in Handler /\ h.op = "set_status"
    BY DEF IInv, TypeOK, Handler
  <2>2. Change(r, h)
    BY <1>2
  <2> HIDE DEF h
  <2> QED
    BY <1>2, <2>1, <2>2, ChangePreserves
<1> QED
  BY <1>1, <1>2 DEF BeginChangePassword, BeginReset, BeginSetStatus

LEMMA CommitLoginPreserves ==
  ASSUME IInv, NEW r \in Requests, CommitLogin(r)
  PROVE  IInv'
<1> USE DEF IInv
<1> DEFINE h == inflight[r]
<1>1. /\ Running(r, "login") /\ Free(r)
      /\ tokens' = tokens \cup {h.token}
      /\ UNCHANGED <<status, audit, chosen, revocations, crossed, changes>>
  BY DEF CommitLogin
<1>2. h.snap \in User /\ h.token \in Token
  BY <1>1, HandlerShape
<1>3. /\ user' \in User /\ user'.role = user.role
      /\ user'.token_version = user.token_version
      /\ clobbered' \in BOOLEAN
      /\ clobbered => clobbered'
      /\ ~ clobbered' => user'.password = user.password
  BY <1>2 DEF CommitLogin, TypeOK, User
<1>4. /\ inflight' \in [Requests -> Handler \cup {None}] /\ HandlersGuarded'
      /\ Minted' \subseteq Minted
  BY <1>1, <1>3, FreePreserves
<1>5. TypeOK'
  BY <1>1, <1>2, <1>3, <1>4 DEF TypeOK
<1>6. PasswordKept'
  BY <1>1, <1>3 DEF PasswordKept
<1>7. VersionCounts'
  BY <1>1, <1>3, <1>4 DEF VersionCounts
<1>8. StatusTraced'
  BY <1>1, SameTrace
<1> QED
  BY <1>4, <1>5, <1>6, <1>7, <1>8

LEMMA CommitRefreshPreserves ==
  ASSUME IInv, NEW r \in Requests, CommitRefresh(r)
  PROVE  IInv'
<1> USE DEF IInv
<1>1. /\ Running(r, "refresh") /\ Free(r)
      /\ tokens' = tokens \cup {inflight[r].token}
      /\ UNCHANGED <<user, status, audit, chosen, revocations, clobbered, crossed, changes>>
  BY DEF CommitRefresh
<1>2. /\ inflight' \in [Requests -> Handler \cup {None}] /\ HandlersGuarded'
      /\ Minted' \subseteq Minted
  BY <1>1, FreePreserves
<1>3. TypeOK'
  BY <1>1, <1>2, HandlerShape DEF TypeOK
<1>4. PasswordKept' /\ VersionCounts' /\ StatusTraced'
  BY <1>1, <1>2, SameTrace DEF PasswordKept, VersionCounts
<1> QED
  BY <1>2, <1>3, <1>4

LEMMA CommitPasswordPreserves ==
  ASSUME IInv, NEW r \in Requests, CommitPassword(r)
  PROVE  IInv'
<1> USE DEF IInv
<1> DEFINE h == inflight[r]
<1>1. /\ Running(r, "change_password") \/ Running(r, "reset")
      /\ Free(r)
      /\ user' = [user EXCEPT !.password = h.password, !.outdated = FALSE,
                              !.token_version = h.snap.token_version + 1]
      /\ clobbered' = (clobbered \/ user.token_version # h.snap.token_version)
      /\ revocations' = revocations + 1
      /\ chosen' = h.password
      /\ UNCHANGED <<status, tokens, audit, crossed, changes>>
  BY DEF CommitPassword
<1>2. h.snap \in User /\ h.password \in Passwords
  BY <1>1, HandlerShape
<1>3. /\ user' \in User /\ user'.role = user.role /\ user'.password = h.password
      /\ user'.token_version = h.snap.token_version + 1
  <2> HIDE DEF h
  <2>1. h.snap.token_version + 1 \in Nat
    BY <1>2 DEF User
  <2>2. user \in User
    BY DEF TypeOK
  <2> QED
    BY <1>1, <1>2, <2>1, <2>2 DEF User
<1>4. /\ inflight' \in [Requests -> Handler \cup {None}] /\ HandlersGuarded'
      /\ Minted' \subseteq Minted
  BY <1>1, <1>3, FreePreserves
<1>5. TypeOK'
  BY <1>1, <1>2, <1>3, <1>4 DEF TypeOK
<1>6. VersionCounts'
  BY <1>1, <1>2, <1>3, <1>4, RevocationCounts
<1>7. PasswordKept' /\ StatusTraced'
  BY <1>1, <1>3, SameTrace DEF PasswordKept
<1> QED
  BY <1>4, <1>5, <1>6, <1>7

LEMMA CommitSetStatusPreserves ==
  ASSUME IInv, NEW r \in Requests, CommitSetStatus(r)
  PROVE  IInv'
<1> USE DEF IInv
<1> DEFINE h == inflight[r]
<1>1. /\ Running(r, "set_status") /\ Free(r)
      /\ status' = h.new /\ crossed' = (crossed \/ status # h.old) /\ Record(h)
      /\ UNCHANGED <<tokens, chosen, changes>>
      /\ IF h.new = "active" THEN UNCHANGED <<user, revocations, clobbered>> ELSE Revoke(h)
  BY DEF CommitSetStatus
<1>2. h.snap \in User /\ h.old \in ClientStatus /\ h.new \in ClientStatus
  BY <1>1, HandlerShape
<1>3. /\ user' \in User /\ user'.role = user.role /\ user'.password = user.password
      /\ revocations' \in Nat /\ clobbered' \in BOOLEAN
      /\ clobbered => clobbered'
  <2> HIDE DEF h
  <2>1. h.snap.token_version + 1 \in Nat
    BY <1>2 DEF User
  <2>2. user \in User /\ revocations \in Nat /\ clobbered \in BOOLEAN
    BY DEF TypeOK
  <2>3. CASE h.new = "active"
    BY <1>1, <2>2, <2>3
  <2>4. CASE h.new # "active"
    <3>1. /\ user' = [user EXCEPT !.token_version = h.snap.token_version + 1]
          /\ revocations' = revocations + 1
          /\ clobbered' = (clobbered \/ user.token_version # h.snap.token_version)
      BY <1>1, <2>4 DEF Revoke
    <3>2. user' \in User /\ user'.role = user.role /\ user'.password = user.password
      BY <2>1, <2>2, <3>1 DEF User
    <3> QED
      BY <2>2, <3>1, <3>2
  <2> QED
    BY <2>3, <2>4
<1>4. /\ inflight' \in [Requests -> Handler \cup {None}] /\ HandlersGuarded'
      /\ Minted' \subseteq Minted
  BY <1>1, <1>3, FreePreserves
<1>5. audit' \in AuditLog /\ StatusTraced'
  BY <1>1, <1>2, EntryTraces
<1>6. TypeOK'
  <2>1. user'.role # "admin"
    BY <1>1, <1>3 DEF HandlersGuarded
  <2> QED
    BY <1>1, <1>2, <1>3, <1>4, <1>5, <2>1 DEF TypeOK
<1>7. PasswordKept'
  BY <1>1, <1>3 DEF PasswordKept
<1>8. VersionCounts'
  <2>1. CASE h.new = "active"
    BY <1>1, <1>4, <2>1 DEF VersionCounts
  <2>2. CASE h.new # "active"
    <3>1. /\ user'.token_version = h.snap.token_version + 1
          /\ revocations' = revocations + 1
          /\ clobbered' = (clobbered \/ user.token_version # h.snap.token_version)
      BY <1>1, <2>2 DEF Revoke, TypeOK, User
    <3> QED
      BY <3>1, <1>2, <1>4, RevocationCounts
  <2> QED
    BY <2>1, <2>2
<1> QED
  BY <1>4, <1>5, <1>6, <1>7, <1>8

LEMMA AbortPreserves ==
  ASSUME IInv, NEW r \in Requests, Abort(r)
  PROVE  IInv'
<1>1. /\ Free(r)
      /\ UNCHANGED <<user, status, tokens, audit, chosen, revocations, clobbered, crossed,
                     changes>>
  BY DEF Abort
<1>2. /\ inflight' \in [Requests -> Handler \cup {None}] /\ HandlersGuarded'
      /\ Minted' \subseteq Minted
  BY <1>1, FreePreserves
<1> QED
  BY <1>1, <1>2, SameTrace DEF IInv, TypeOK, PasswordKept, VersionCounts

LEMMA StepIInv == IInv /\ [Next]_vars => IInv'
<1> SUFFICES ASSUME IInv, [Next]_vars
             PROVE  IInv'
  OBVIOUS
<1>1. CASE Next
  BY <1>1, BeginLoginPreserves, BeginRefreshPreserves, BeginChangePreserves, CommitLoginPreserves,
     CommitRefreshPreserves, CommitPasswordPreserves, CommitSetStatusPreserves, AbortPreserves
  DEF Next
<1>2. CASE UNCHANGED vars
  BY <1>2, SameTrace DEF vars, IInv, TypeOK, HandlersGuarded, PasswordKept, VersionCounts,
              Minted, Running
<1> QED
  BY <1>1, <1>2

-----------------------------------------------------------------------------
(* The theorems. *)

\* The inductive invariant: as long as no handler overwrites what another has
\* committed, token_version counts revocations, although there is no session
\* table and the sum is taken outside the database.
THEOREM Invariant == Spec => []IInv
  BY InitIInv, StepIInv, PTL DEF Spec

\* The state keeps its shape for any number of requests and changes.
THEOREM TypeCorrect == Spec => []TypeOK
  BY Invariant, PTL DEF IInv

\* A token whose handler loaded the user before a revocation is not accepted
\* after it, unless a revocation was lost to a race.
THEOREM Revocation == Spec => []RevocationEndsSessions
<1>1. IInv => RevocationEndsSessions
  <2> SUFFICES ASSUME IInv, ~ clobbered, NEW token \in tokens, token.since < revocations,
                      Accepted(token)
               PROVE  FALSE
    BY DEF RevocationEndsSessions
  <2>1. token.ver = token.since /\ user.token_version = revocations
    BY DEF IInv, VersionCounts, Minted
  <2>2. token \in Token /\ revocations \in Nat
    BY DEF IInv, TypeOK
  <2>3. token.since = revocations
    BY <2>1 DEF Accepted
  <2> QED
    BY <2>2, <2>3
<1> QED
  BY <1>1, Invariant, PTL

\* Through any chain of refreshes, a session that is accepted was opened with
\* the password in force, unless an update was lost.
THEOREM SessionPasswords == Spec => []SessionsFollowPassword
<1>1. IInv => SessionsFollowPassword
  BY DEF IInv, VersionCounts, Minted, SessionsFollowPassword, Accepted
<1> QED
  BY <1>1, Invariant, PTL

\* The password last set is the one that signs in, unless a login rehashed an
\* older one over it.
THEOREM PasswordStays == Spec => []PasswordKept
  BY Invariant, PTL DEF IInv

\* Whatever raced, an entry of the log names the status the account has; and
\* unless a change was saved over another, the entries add up to it.
THEOREM Traceability == Spec => []StatusTraced
  BY Invariant, PTL DEF IInv
=============================================================================
