---------------------------- MODULE SettingsCache ---------------------------
(***************************************************************************)
(* The per-process cache of one runtime setting:                           *)
(* app/core/settings_service.py, and update_setting of                     *)
(* app/api/v1/admin/settings.py, which is what changes a setting.  Keys do *)
(* not interact.  get_setting runs in request threads of several worker    *)
(* processes: it takes the time, looks the key up under the lock, reads    *)
(* the row without it and stores the result under it again.                *)
(***************************************************************************)
EXTENDS Naturals, Sequences

CONSTANTS
  Processes,   \* worker processes: each has its own _cache
  Readers,     \* threads calling get_setting
  Savers,      \* threads running update_setting
  TTL,         \* _CACHE_TTL_SECONDS
  None,        \* no entry, no call
  MaxTime,     \* bound on the clock
  MaxSaves     \* bound on the number of saves

ASSUME ConstantsAssumption ==
  /\ TTL \in Nat \ {0}
  /\ MaxTime \in Nat
  /\ MaxSaves \in Nat

VARIABLES
  now,      \* time.monotonic()
  saves,    \* saves[v]: when version v of the row was committed; the row
            \* holds version Len(saves)
  cache,    \* cache[p]: process p's entry for the key
  reader,   \* reader[r]: where thread r is in get_setting
  saver,    \* saver[w]: the save of thread w that is not invalidated yet
  acked,    \* acked[p]: newest version a finished update_setting of p saved
  overlap   \* processes where a thread held an older row when the last
            \* invalidate ran (acked and overlap are history variables)

vars == <<now, saves, cache, reader, saver, acked, overlap>>

Version == Nat

Entry == [expires: Nat, value: Version]

Thread ==
  [pc: {"lookup", "read"}, process: Processes, started: Nat]
    \cup [pc: {"store", "done"}, process: Processes, started: Nat, value: Version]

\* None is none of the values it stands in for, here and in SettingsRegister.
ASSUME NoneAssumption ==
  None \notin Nat \cup Thread \cup [started: Nat, value: Nat \cup {None}]

Saved == [process: Processes, version: Version]

Current == Len(saves)

In(r, pc) ==
  /\ reader[r] # None
  /\ reader[r].pc = pc

Init ==
  /\ now = 0
  /\ saves = <<>>
  /\ cache = [p \in Processes |-> None]
  /\ reader = [r \in Readers |-> None]
  /\ saver = [w \in Savers |-> None]
  /\ acked = [p \in Processes |-> 0]
  /\ overlap = {}

-----------------------------------------------------------------------------
(* get_setting *)

\* now = time.monotonic(), before anything is looked at.
StartGet(r, p) ==
  /\ reader[r] = None
  /\ reader' = [reader EXCEPT
       ![r] = [pc |-> "lookup", process |-> p, started |-> now]]
  /\ UNCHANGED <<now, saves, cache, saver, acked, overlap>>

Finished(h, v) ==
  [pc |-> "done", process |-> h.process, started |-> h.started, value |-> v]

\* Under the lock: an entry that expires after the call began is the answer.
Lookup(r) ==
  /\ In(r, "lookup")
  /\ LET h == reader[r]
         hit == cache[h.process]
     IN reader' = [reader EXCEPT ![r] =
          IF hit # None /\ hit.expires > h.started
            THEN Finished(h, hit.value)
            ELSE [h EXCEPT !.pc = "read"]]
  /\ UNCHANGED <<now, saves, cache, saver, acked, overlap>>

\* Without the lock: the committed row, in this request's own transaction.
ReadRow(r) ==
  /\ In(r, "read")
  /\ reader' = [reader EXCEPT ![r] =
       [pc |-> "store", process |-> reader[r].process,
        started |-> reader[r].started, value |-> Current]]
  /\ UNCHANGED <<now, saves, cache, saver, acked, overlap>>

\* Deviation: the entry expires a TTL after it is stored.
StoreLate(r) ==
  /\ In(r, "store")
  /\ LET h == reader[r] IN
       /\ cache' = [cache EXCEPT ![h.process] =
                      [expires |-> now + TTL, value |-> h.value]]
       /\ reader' = [reader EXCEPT ![r] = Finished(h, h.value)]
  /\ UNCHANGED <<now, saves, saver, acked, overlap>>

\* Under the lock again: the entry expires a TTL after the call began.
Store(r) ==
  /\ In(r, "store")
  /\ LET h == reader[r] IN
       /\ cache' = [cache EXCEPT ![h.process] =
                      [expires |-> h.started + TTL, value |-> h.value]]
       /\ reader' = [reader EXCEPT ![r] = Finished(h, h.value)]
  /\ UNCHANGED <<now, saves, saver, acked, overlap>>

\* The caller has its value.
Leave(r) ==
  /\ In(r, "done")
  /\ reader' = [reader EXCEPT ![r] = None]
  /\ UNCHANGED <<now, saves, cache, saver, acked, overlap>>

-----------------------------------------------------------------------------
(* update_setting: commit, refresh, and only then invalidate(key). *)

Commit(w, p) ==
  /\ saver[w] = None
  /\ Current < MaxSaves
  /\ saves' = Append(saves, now)
  /\ saver' = [saver EXCEPT ![w] = [process |-> p, version |-> Current + 1]]
  /\ UNCHANGED <<now, cache, reader, acked, overlap>>

\* A thread of p that has read a row older than version v and not stored it.
HoldsOlder(p, v) ==
  \E r \in Readers :
    In(r, "store") /\ reader[r].process = p /\ reader[r].value < v

\* Deviation: update_setting forgets to invalidate.
InvalidateForgotten(w) ==
  /\ saver[w] # None
  /\ LET p == saver[w].process
         v == saver[w].version
         newest == IF v > acked[p] THEN v ELSE acked[p]
     IN /\ acked' = [acked EXCEPT ![p] = newest]
        /\ overlap' = IF HoldsOlder(p, newest) THEN overlap \cup {p}
                                               ELSE overlap \ {p}
  /\ saver' = [saver EXCEPT ![w] = None]
  /\ UNCHANGED <<now, saves, cache, reader>>

Invalidate(w) ==
  /\ saver[w] # None
  /\ LET p == saver[w].process
         v == saver[w].version
         newest == IF v > acked[p] THEN v ELSE acked[p]
     IN /\ cache' = [cache EXCEPT ![p] = None]
        /\ acked' = [acked EXCEPT ![p] = newest]
        /\ overlap' = IF HoldsOlder(p, newest) THEN overlap \cup {p}
                                               ELSE overlap \ {p}
  /\ saver' = [saver EXCEPT ![w] = None]
  /\ UNCHANGED <<now, saves, reader>>

\* The refresh after the commit fails: the save stands, the request errors
\* and invalidate is never reached.
RefreshFails(w) ==
  /\ saver[w] # None
  /\ saver' = [saver EXCEPT ![w] = None]
  /\ UNCHANGED <<now, saves, cache, reader, acked, overlap>>

-----------------------------------------------------------------------------
\* A worker process is restarted: its threads and its _cache are gone.
Restart(p) ==
  /\ cache' = [cache EXCEPT ![p] = None]
  /\ reader' = [r \in Readers |->
       IF reader[r] # None /\ reader[r].process = p THEN None ELSE reader[r]]
  /\ saver' = [w \in Savers |->
       IF saver[w] # None /\ saver[w].process = p THEN None ELSE saver[w]]
  /\ overlap' = overlap \ {p}
  /\ UNCHANGED <<now, saves, acked>>

Tick ==
  /\ now < MaxTime
  /\ now' = now + 1
  /\ UNCHANGED <<saves, cache, reader, saver, acked, overlap>>

Next ==
  \/ Tick
  \/ \E p \in Processes : Restart(p)
  \/ \E r \in Readers, p \in Processes : StartGet(r, p)
  \/ \E r \in Readers : Lookup(r) \/ ReadRow(r) \/ Store(r) \/ Leave(r)
  \/ \E w \in Savers, p \in Processes : Commit(w, p)
  \/ \E w \in Savers : Invalidate(w) \/ RefreshFails(w)

Spec == Init /\ [][Next]_vars

-----------------------------------------------------------------------------
(***************************************************************************)
(* Properties                                                              *)
(***************************************************************************)

\* The variables keep their shape, and nothing claims a version that has not
\* been committed.
TypeOK ==
  /\ now \in Nat
  /\ saves \in Seq(Nat)
  /\ cache \in [Processes -> Entry \cup {None}]
  /\ reader \in [Readers -> Thread \cup {None}]
  /\ saver \in [Savers -> Saved \cup {None}]
  /\ acked \in [Processes -> Version]
  /\ overlap \subseteq Processes

\* The bound on staleness: "a stale value for a few seconds is harmless".  A
\* call of get_setting answers with a value that was committed and still
\* current less than TTL before the call began, in whatever process it runs,
\* however saves, slow reads, restarts and failed invalidations interleave.
Register == INSTANCE SettingsRegister WITH
  call <- [r \in Readers |->
            IF reader[r] = None THEN None
            ELSE [started |-> reader[r].started,
                  value |-> IF reader[r].pc = "done" THEN reader[r].value
                                                     ELSE None]]

BoundedStaleness == Register!Spec

\* A save that returned is what its process serves from then on, unless a
\* thread of that process had read the row before the save and stored it
\* after the invalidation.
SaveVisible ==
  \A p \in Processes \ overlap : cache[p] # None => cache[p].value >= acked[p]

-----------------------------------------------------------------------------
(***************************************************************************)
(* The inductive invariant behind BoundedStaleness and SaveVisible.        *)
(***************************************************************************)

\* Version v was the committed one at time t or later.
CurrentSince(v, t) == v = Current \/ saves[v + 1] >= t

EntriesRecent ==
  \A p \in Processes : cache[p] # None =>
    /\ cache[p].value <= Current
    /\ cache[p].expires <= now + TTL
    /\ cache[p].value = Current \/ saves[cache[p].value + 1] + TTL >= cache[p].expires

ThreadsRecent ==
  \A r \in Readers : reader[r] # None =>
    /\ reader[r].started <= now
    /\ reader[r].pc = "store" =>
         /\ reader[r].value <= Current
         /\ CurrentSince(reader[r].value, reader[r].started)

SavesKnown ==
  /\ \A p \in Processes : acked[p] <= Current
  /\ \A w \in Savers : saver[w] # None => saver[w].version <= Current

\* Outside overlap no thread is about to store something older than a save.
NoOlderPending ==
  \A p \in Processes \ overlap : ~ HoldsOlder(p, acked[p])

IInv == TypeOK /\ EntriesRecent /\ ThreadsRecent /\ SavesKnown
               /\ NoOlderPending /\ SaveVisible
=============================================================================
