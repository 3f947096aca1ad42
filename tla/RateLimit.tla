----------------------------- MODULE RateLimit ------------------------------
(***************************************************************************)
(* The rate limiter of the public endpoints, app/core/rate_limit.py: one   *)
(* caller's counter in Redis, which several application processes count up *)
(* and which Redis drops when its time to live has passed.                 *)
(***************************************************************************)
EXTENDS Handlers, Naturals

CONSTANTS
  Processes,   \* application processes
  Window,      \* the length of a window, in ticks
  MaxCount     \* bound on what is counted

VARIABLES
  redisUp,      \* whether Redis answers
  counter,      \* the key, or None: its count, the ticks that it has left to live
                \* (None: it stays), and how many it has lived
  connections,  \* connections[p]: the _client and the _unavailable of process p
  checks,       \* checks[r]: the check in slot r, or None: its process, and what
                \* INCR returned
  cutOff        \* history: the key has no end because a check did not get to EXPIRE

rateLimitVars == <<redisUp, counter, connections, checks, cutOff>>

-----------------------------------------------------------------------------
Counter == [count: 1 .. MaxCount, ttl: {None} \cup 1 .. Window, age: 0 .. Window + 1]

Check == [process: Processes, count: 1 .. MaxCount]

ASSUME RateLimitAssumption ==
  /\ MaxCount \in Nat
  /\ Window \in Nat \ {0}
  /\ None \notin Nat /\ None \notin Counter \cup Check

RateLimitInit ==
  /\ redisUp = TRUE
  /\ counter = None
  /\ connections = [p \in Processes |-> "new"]
  /\ checks = [r \in Requests |-> None]
  /\ cutOff = FALSE

\* _redis: the first request of a process connects it.  If that fails, the
\* process never tries again, and lets everything through.
Connect(p) ==
  /\ connections[p] = "new"
  /\ connections' = [connections EXCEPT ![p] = IF redisUp THEN "connected" ELSE "unavailable"]
  /\ UNCHANGED <<redisUp, counter, checks, cutOff>>

Count == IF counter = None THEN 1 ELSE counter.count + 1

\* INCR.  If its reply is late, the request is let through and that is all.
Incr(r, p, answered) ==
  /\ connections[p] = "connected" /\ redisUp
  /\ checks[r] = None /\ Count <= MaxCount
  /\ counter' = IF counter = None THEN [count |-> 1, ttl |-> None, age |-> 0]
                ELSE [counter EXCEPT !.count = Count]
  /\ checks' = IF answered THEN [checks EXCEPT ![r] = [process |-> p, count |-> Count]]
               ELSE checks
  /\ cutOff' = IF counter = None THEN ~ answered ELSE cutOff
  /\ UNCHANGED <<redisUp, connections>>

\* Deviation: any request renews the time to live.
IsAnyOfWindow(count) == count >= 1

IsFirstOfWindow(count) == count = 1

\* EXPIRE, unless it was not the first; then the request is let through up to
\* the limit.
Conclude(r) ==
  /\ checks[r] # None
  /\ IF IsFirstOfWindow(checks[r].count)
     THEN /\ redisUp
          /\ counter' = IF counter = None THEN None ELSE [counter EXCEPT !.ttl = Window]
          /\ cutOff' = FALSE
     ELSE UNCHANGED <<counter, cutOff>>
  /\ checks' = [checks EXCEPT ![r] = None]
  /\ UNCHANGED <<redisUp, connections>>

Endless == counter # None /\ counter.ttl = None

Missed(r) == checks[r] # None /\ IsFirstOfWindow(checks[r].count)

\* EXPIRE does not get through: the request is let through as well.
FailExpire(r) ==
  /\ Missed(r)
  /\ checks' = [checks EXCEPT ![r] = None]
  /\ cutOff' = Endless
  /\ UNCHANGED <<redisUp, counter, connections>>

\* A process ends, with the checks that it is in, and starts again.
RestartProcess(p) ==
  /\ connections[p] # "new"
  /\ connections' = [connections EXCEPT ![p] = "new"]
  /\ LET its == {r \in Requests : checks[r] # None /\ checks[r].process = p}
     IN /\ checks' = [r \in Requests |-> IF r \in its THEN None ELSE checks[r]]
        /\ cutOff' = IF \E r \in its : Missed(r) THEN Endless ELSE cutOff
  /\ UNCHANGED <<redisUp, counter>>

\* Redis goes away, with or without the key, or comes back.
SwitchRedis ==
  /\ redisUp' = ~ redisUp
  /\ counter' \in IF redisUp THEN {counter, None} ELSE {counter}
  /\ cutOff' = (cutOff /\ counter' # None)
  /\ UNCHANGED <<connections, checks>>

\* Time passes between checks: their socket times out after a fraction of a tick.
PassTime ==
  /\ counter # None
  /\ \A r \in Requests : checks[r] = None
  /\ counter.age <= Window
  /\ counter' = IF counter.ttl = 1 THEN None
                ELSE [counter EXCEPT !.ttl = IF @ = None THEN None ELSE @ - 1,
                                     !.age = @ + 1]
  /\ cutOff' = (cutOff /\ counter' # None)
  /\ UNCHANGED <<redisUp, connections, checks>>

RateLimitNext ==
  \/ \E p \in Processes : Connect(p) \/ RestartProcess(p)
  \/ \E r \in Requests :
       \/ \E p \in Processes, answered \in BOOLEAN : Incr(r, p, answered)
       \/ Conclude(r)
       \/ FailExpire(r)
  \/ SwitchRedis
  \/ PassTime

RateLimitSpec == RateLimitInit /\ [][RateLimitNext]_rateLimitVars

-----------------------------------------------------------------------------
(***************************************************************************)
(* Properties                                                              *)
(***************************************************************************)

\* The variables keep their shape.
RateLimitTypeOK ==
  /\ redisUp \in BOOLEAN /\ cutOff \in BOOLEAN
  /\ counter \in Counter \cup {None}
  /\ connections \in [Processes -> {"new", "connected", "unavailable"}]
  /\ checks \in [Requests -> Check \cup {None}]

\* A caller who is turned away is let in again when the window ends, however
\* often they try meanwhile and through whichever process: a counter never lives
\* longer than its window - unless the check that created it was cut off, or
\* failed, between INCR and EXPIRE.
WindowHonoured ==
  counter # None => counter.age <= Window \/ cutOff

-----------------------------------------------------------------------------
(***************************************************************************)
(* The inductive invariant behind it: no time passes while a check is on   *)
(* its way to EXPIRE, and once that is through the counter lives a window. *)
(***************************************************************************)

\* While a check owes an EXPIRE, the counter has not aged.
OwedAtOnce == \A r \in Requests : Missed(r) /\ counter # None => counter.age = 0

\* A counter that has an end has it within its window; one that has none still
\* waits for its EXPIRE, or was cut off.
EndsInWindow ==
  counter # None =>
    IF counter.ttl = None
    THEN cutOff \/ \E r \in Requests : Missed(r)
    ELSE counter.age + counter.ttl <= Window

RateLimitInvariant == RateLimitTypeOK /\ OwedAtOnce /\ EndsInWindow
=============================================================================
