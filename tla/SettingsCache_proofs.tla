------------------------ MODULE SettingsCache_proofs ------------------------
(***************************************************************************)
(* Proofs about SettingsCache, for every number of processes, threads,     *)
(* saves and ticks: IInv is inductive, and the cache implements            *)
(* SettingsRegister.                                                       *)
(***************************************************************************)
EXTENDS SettingsCache, TLAPS

LEMMA InitIInv == Init => IInv
  BY ConstantsAssumption
  DEF Init, IInv, TypeOK, EntriesRecent, ThreadsRecent, SavesKnown, NoOlderPending,
      SaveVisible, HoldsOlder, In, Current, Version

\* The type of a thread in each place.
LEMMA ThreadShape ==
  ASSUME TypeOK, NEW r \in Readers, NEW pc, In(r, pc)
  PROVE  /\ reader[r].process \in Processes /\ reader[r].started \in Nat
         /\ pc \in {"store", "done"} =>
              reader[r] \in [pc: {"store", "done"}, process: Processes,
                             started: Nat, value: Version]
         /\ pc \in {"lookup", "read"} =>
              reader[r] \in [pc: {"lookup", "read"}, process: Processes, started: Nat]
  BY DEF TypeOK, Thread, In

LEMMA StepTypeOK == TypeOK /\ [Next]_vars => TypeOK'
<1> SUFFICES ASSUME TypeOK, [Next]_vars PROVE TypeOK'
  OBVIOUS
<1> USE ConstantsAssumption DEF TypeOK
<1>1. CASE Tick
  BY <1>1 DEF Tick
<1>2. ASSUME NEW p \in Processes, Restart(p) PROVE TypeOK'
  BY <1>2 DEF Restart
<1>3. ASSUME NEW r \in Readers, NEW p \in Processes, StartGet(r, p) PROVE TypeOK'
  BY <1>3 DEF StartGet, Thread
<1>4. ASSUME NEW r \in Readers, Lookup(r) PROVE TypeOK'
  <2>1. reader[r] \in [pc: {"lookup", "read"}, process: Processes, started: Nat]
    BY <1>4, ThreadShape DEF Lookup
  <2>2. cache[reader[r].process] \in Entry \cup {None}
    BY <2>1
  <2>3. reader'[r] \in Thread
    BY <1>4, <2>1, <2>2 DEF Lookup, Finished, Thread, Entry
  <2> QED
    BY <1>4, <2>3 DEF Lookup
<1>5. ASSUME NEW r \in Readers, ReadRow(r) PROVE TypeOK'
  <2>1. reader[r].process \in Processes /\ reader[r].started \in Nat
    BY <1>5, ThreadShape DEF ReadRow
  <2> QED
    BY <1>5, <2>1 DEF ReadRow, Thread, Version, Current
<1>6. ASSUME NEW r \in Readers, Store(r) PROVE TypeOK'
  <2>1. reader[r] \in [pc: {"store", "done"}, process: Processes, started: Nat, value: Version]
    BY <1>6, ThreadShape DEF Store
  <2> QED
    BY <1>6, <2>1 DEF Store, Finished, Thread, Entry
<1>7. ASSUME NEW r \in Readers, Leave(r) PROVE TypeOK'
  BY <1>7 DEF Leave
<1>8. ASSUME NEW w \in Savers, NEW p \in Processes, Commit(w, p) PROVE TypeOK'
  BY <1>8 DEF Commit, Saved, Version, Current
<1>9. ASSUME NEW w \in Savers, Invalidate(w) PROVE TypeOK'
  <2>1. saver[w].process \in Processes /\ saver[w].version \in Version
    BY <1>9 DEF Invalidate, Saved
  <2> QED
    BY <1>9, <2>1 DEF Invalidate, Version
<1>10. ASSUME NEW w \in Savers, RefreshFails(w) PROVE TypeOK'
  BY <1>10 DEF RefreshFails
<1>11. CASE UNCHANGED vars
  BY <1>11 DEF vars
<1> QED
  BY <1>1, <1>2, <1>3, <1>4, <1>5, <1>6, <1>7, <1>8, <1>9, <1>10, <1>11 DEF Next
-----------------------------------------------------------------------------
(***************************************************************************)
(* IInv is inductive.  Reads and stores preserve what is known of recency  *)
(* because started is taken before the row is read; a save preserves it    *)
(* because what it supersedes was current at the moment of the save.       *)
(***************************************************************************)
LEMMA CommitPreserves ==
  ASSUME IInv, NEW w \in Savers, NEW p \in Processes, Commit(w, p), TypeOK'
  PROVE  IInv'
<1> USE ConstantsAssumption DEF IInv
<1>1. /\ Current \in Nat /\ Current' = Current + 1 /\ now' = now /\ now \in Nat
      /\ \A v \in 1 .. Current : saves'[v] = saves[v] /\ saves[v] \in Nat
      /\ saves'[Current + 1] = now
  BY DEF Commit, TypeOK, Current
<1>2. EntriesRecent'
  <2> SUFFICES ASSUME NEW q \in Processes, cache[q] # None
               PROVE  /\ cache[q].value <= Current'
                      /\ cache[q].expires <= now + TTL
                      /\ saves'[cache[q].value + 1] + TTL >= cache[q].expires
    BY <1>1 DEF Commit, EntriesRecent
  <2>1. cache[q].value \in Nat /\ cache[q].expires \in Nat
    BY DEF TypeOK, Entry, Version
  <2> QED
    BY <1>1, <2>1 DEF EntriesRecent
<1>3. ThreadsRecent'
  <2> SUFFICES ASSUME NEW r \in Readers, reader[r] # None
               PROVE  /\ reader[r].started <= now
                      /\ reader[r].pc = "store" =>
                           /\ reader[r].value <= Current'
                           /\ saves'[reader[r].value + 1] >= reader[r].started
    BY <1>1 DEF Commit, ThreadsRecent, CurrentSince
  <2>1. reader[r].started \in Nat /\ (reader[r].pc = "store" => reader[r].value \in Nat)
    BY DEF TypeOK, Thread, Version
  <2> QED
    BY <1>1, <2>1 DEF ThreadsRecent, CurrentSince
<1>4. SavesKnown'
  BY <1>1 DEF Commit, SavesKnown, TypeOK, Saved, Version
<1>5. NoOlderPending' /\ SaveVisible'
  BY DEF Commit, NoOlderPending, SaveVisible, HoldsOlder, In
<1> QED
  BY <1>2, <1>3, <1>4, <1>5

LEMMA StorePreserves ==
  ASSUME IInv, NEW r \in Readers, Store(r), TypeOK'
  PROVE  IInv'
<1> USE ConstantsAssumption DEF IInv
<1> DEFINE h == reader[r]
           e == [expires |-> h.started + TTL, value |-> h.value]
<1>1. h \in [pc: {"store", "done"}, process: Processes, started: Nat, value: Version]
  BY ThreadShape DEF Store
<1>2. h.pc = "store" /\ h # None /\ h.value <= Current
      /\ CurrentSince(h.value, h.started) /\ h.started <= now
  BY DEF Store, In, ThreadsRecent
<1>3. cache' = [cache EXCEPT ![h.process] = e] /\ UNCHANGED <<now, saves, acked, overlap, saver>>
  BY DEF Store
<1>4. h.value + 1 \in 1 .. Current \/ h.value = Current
  BY <1>1, <1>2 DEF Version, Current, TypeOK
<1>5. e.value = Current \/ saves[e.value + 1] + TTL >= e.expires
  BY <1>1, <1>2, <1>4 DEF CurrentSince, TypeOK, Current
<1>6. EntriesRecent'
  BY <1>1, <1>2, <1>3, <1>5 DEF EntriesRecent, TypeOK, Current
<1>7. \A q \in Readers : reader'[q] = reader[q] \/ (q = r /\ reader'[q] = Finished(h, h.value))
  BY DEF Store, TypeOK
<1>8. ThreadsRecent' /\ NoOlderPending'
  BY <1>1, <1>2, <1>3, <1>7 DEF ThreadsRecent, NoOlderPending, HoldsOlder, In, Finished,
     CurrentSince, Current
<1>9. SavesKnown'
  BY <1>3 DEF SavesKnown, Current
<1>10. h.process \notin overlap => h.value >= acked[h.process]
  <2>1. In(r, "store") /\ h.process \in Processes /\ h.value \in Nat
    BY <1>1 DEF Store, Version
  <2>2. h.process \notin overlap => ~ (h.value < acked[h.process])
    BY <2>1 DEF NoOlderPending, HoldsOlder
  <2>3. acked[h.process] \in Nat
    BY <2>1 DEF TypeOK, Version
  <2> QED
    BY <2>1, <2>2, <2>3
<1>11. SaveVisible'
  BY <1>1, <1>3, <1>10 DEF SaveVisible, TypeOK
<1> QED
  BY <1>6, <1>8, <1>9, <1>11

LEMMA InvalidatePreserves ==
  ASSUME IInv, NEW w \in Savers, Invalidate(w), TypeOK'
  PROVE  IInv'
<1> USE DEF IInv
<1> DEFINE p == saver[w].process
           v == saver[w].version
           newest == IF v > acked[p] THEN v ELSE acked[p]
<1>1. p \in Processes /\ v \in Nat /\ v <= Current /\ acked[p] \in Nat /\ acked[p] <= Current
  BY DEF Invalidate, TypeOK, Saved, Version, SavesKnown
<1>2. /\ cache' = [cache EXCEPT ![p] = None]
      /\ acked' = [acked EXCEPT ![p] = newest]
      /\ overlap' = IF HoldsOlder(p, newest) THEN overlap \cup {p} ELSE overlap \ {p}
      /\ saver' = [saver EXCEPT ![w] = None]
      /\ UNCHANGED <<now, saves, reader>>
  BY DEF Invalidate
<1>3. EntriesRecent' /\ ThreadsRecent'
  BY <1>2 DEF EntriesRecent, ThreadsRecent, TypeOK, CurrentSince, Current
<1>4. SavesKnown'
  BY <1>1, <1>2 DEF SavesKnown, TypeOK, Current
<1>5. NoOlderPending'
  BY <1>1, <1>2 DEF NoOlderPending, HoldsOlder, In, TypeOK
<1>6. SaveVisible'
  BY <1>1, <1>2 DEF SaveVisible, TypeOK
<1> QED
  BY <1>3, <1>4, <1>5, <1>6

LEMMA StepIInv == IInv /\ [Next]_vars => IInv'
<1> SUFFICES ASSUME IInv, [Next]_vars PROVE IInv'
  OBVIOUS
<1>1. TypeOK'
  BY StepTypeOK DEF IInv
<1> USE ConstantsAssumption DEF IInv
<1>2. CASE Tick
  <2>1. now \in Nat /\ now' = now + 1 /\ UNCHANGED <<saves, cache, reader, saver, acked, overlap>>
    BY <1>2 DEF Tick, TypeOK
  <2>2. EntriesRecent' /\ ThreadsRecent'
    BY <2>1 DEF EntriesRecent, ThreadsRecent, TypeOK, Entry, Thread, CurrentSince, Current
  <2> QED
    BY <1>1, <2>1, <2>2 DEF SavesKnown, NoOlderPending, SaveVisible, HoldsOlder, In, Current
<1>3. ASSUME NEW p \in Processes, Restart(p) PROVE IInv'
  <2>1. \A r \in Readers : reader'[r] \in {reader[r], None}
    BY <1>3 DEF Restart
  <2>2. \A r \in Readers : reader'[r] # None => reader[r] # None /\ reader[r].process # p
    BY <1>3 DEF Restart
  <2>3. \A w \in Savers : saver'[w] \in {saver[w], None}
    BY <1>3 DEF Restart
  <2>4. cache' = [cache EXCEPT ![p] = None] /\ overlap' = overlap \ {p}
        /\ UNCHANGED <<now, saves, acked>>
    BY <1>3 DEF Restart
  <2>5. EntriesRecent' /\ ThreadsRecent' /\ SavesKnown'
    BY <2>1, <2>3, <2>4 DEF EntriesRecent, ThreadsRecent, SavesKnown, TypeOK,
                            CurrentSince, Current
  <2>6. NoOlderPending' /\ SaveVisible'
    BY <2>1, <2>2, <2>4 DEF NoOlderPending, SaveVisible, HoldsOlder, In, TypeOK
  <2> QED
    BY <1>1, <2>5, <2>6
<1>4. ASSUME NEW r \in Readers,
             \/ \E p \in Processes : StartGet(r, p)
             \/ Lookup(r) \/ ReadRow(r) \/ Leave(r)
      PROVE  IInv'
  <2>1. UNCHANGED <<now, saves, cache, saver, acked, overlap>>
    BY <1>4 DEF StartGet, Lookup, ReadRow, Leave
  <2>2. \A q \in Readers : q # r => reader'[q] = reader[q]
    BY <1>4 DEF StartGet, Lookup, ReadRow, Leave, TypeOK
  <2>3. reader'[r] # None =>
          /\ reader'[r].started <= now
          /\ reader'[r].pc = "store" => reader'[r].value = Current
    <3>1. ASSUME NEW p \in Processes, StartGet(r, p)
          PROVE  reader'[r].started = now /\ reader'[r].pc = "lookup"
      BY <3>1 DEF StartGet, TypeOK
    <3>2. ASSUME Lookup(r)
          PROVE  reader'[r].started = reader[r].started /\ reader'[r].pc # "store"
      <4>1. reader[r] \in [pc: {"lookup", "read"}, process: Processes, started: Nat]
        BY <3>2, ThreadShape DEF Lookup
      <4> QED
        BY <3>2, <4>1 DEF Lookup, Finished, TypeOK
    <3>3. ASSUME ReadRow(r)
          PROVE  reader'[r].started = reader[r].started /\ reader'[r].value = Current
      BY <3>3 DEF ReadRow, TypeOK
    <3>4. ASSUME Leave(r) PROVE reader'[r] = None
      BY <3>4 DEF Leave, TypeOK
    <3>5. Lookup(r) \/ ReadRow(r) => reader[r].started <= now
      BY DEF Lookup, ReadRow, In, ThreadsRecent
    <3>6. now \in Nat
      BY DEF TypeOK
    <3> QED
      BY <1>4, <3>1, <3>2, <3>3, <3>4, <3>5, <3>6
  <2>4. ThreadsRecent'
    BY <2>1, <2>2, <2>3 DEF ThreadsRecent, CurrentSince, Current, TypeOK
  <2>5. NoOlderPending'
    BY <2>1, <2>2, <2>3 DEF NoOlderPending, HoldsOlder, In, SavesKnown, TypeOK, Current, Version
  <2> QED
    BY <1>1, <2>1, <2>4, <2>5 DEF EntriesRecent, SavesKnown, SaveVisible, Current
<1>5. ASSUME NEW w \in Savers, RefreshFails(w) PROVE IInv'
  BY <1>1, <1>5 DEF RefreshFails, EntriesRecent, ThreadsRecent, SavesKnown, NoOlderPending,
     SaveVisible, HoldsOlder, In, CurrentSince, Current, TypeOK
<1>6. CASE UNCHANGED vars
  BY <1>1, <1>6 DEF vars, EntriesRecent, ThreadsRecent, SavesKnown, NoOlderPending,
     SaveVisible, HoldsOlder, In, CurrentSince, Current
<1> QED
  BY <1>1, <1>2, <1>3, <1>4, <1>5, <1>6, CommitPreserves, StorePreserves,
     InvalidatePreserves DEF Next

\* The invariant holds in every reachable state.
THEOREM Invariant == Spec => []IInv
  BY InitIInv, StepIInv, PTL DEF Spec

\* The cache and its threads keep their shape.
THEOREM TypeCorrect == Spec => []TypeOK
  BY Invariant, PTL DEF IInv

\* Within a process a save is seen by every later lookup, unless a thread
\* read the row before the save and stored it after the invalidation.
THEOREM SavesVisible == Spec => []SaveVisible
  BY Invariant, PTL DEF IInv
-----------------------------------------------------------------------------
(***************************************************************************)
(* The refinement.  Tick and Commit are Tick and Save of the register,     *)
(* StartGet is Invoke, a lookup that hits and a store are Respond, Leave   *)
(* and Restart are Drop, and every other step leaves the register alone.   *)
(***************************************************************************)
Bar(r) ==
  IF reader[r] = None THEN None
  ELSE [started |-> reader[r].started,
        value |-> IF reader[r].pc = "done" THEN reader[r].value ELSE None]

CallBar == [r \in Readers |-> Bar(r)]

LEMMA RespondRefines ==
  ASSUME IInv, NEW r \in Readers, NEW v \in Nat,
         In(r, "lookup") \/ In(r, "store"),
         reader' = [reader EXCEPT ![r] = Finished(reader[r], v)],
         UNCHANGED <<now, saves>>,
         v <= Current,
         v = Current \/ saves[v + 1] + TTL > reader[r].started
  PROVE  Register!Respond(r)
<1>1. reader[r].process \in Processes /\ reader[r].started \in Nat
  BY ThreadShape DEF IInv
<1>2. Finished(reader[r], v) \in Thread
  BY <1>1 DEF Finished, Thread, Version
<1>3. Finished(reader[r], v) # None
  BY <1>2, NoneAssumption
<1>4. Bar(r) = [started |-> reader[r].started, value |-> None]
  BY DEF Bar, In
<1>5. Bar(r)' = [started |-> reader[r].started, value |-> v]
  <2>1. reader'[r] = Finished(reader[r], v)
    BY DEF IInv, TypeOK
  <2> QED
    BY <1>3, <2>1 DEF Bar, Finished
<1>6. \A q \in Readers : q # r => Bar(q)' = Bar(q)
  BY DEF Bar, IInv, TypeOK
<1>7. CallBar' = [CallBar EXCEPT ![r].value = v]
  <2>1. [Bar(r) EXCEPT !.value = v] = [started |-> reader[r].started, value |-> v]
    BY <1>4
  <2>2. Bar(r)' = [Bar(r) EXCEPT !.value = v]
    BY <1>5, <2>1
  <2> HIDE DEF Bar
  <2>3. CallBar[r] = Bar(r)
    BY DEF CallBar
  <2>4. CallBar' = [CallBar EXCEPT ![r] = [Bar(r) EXCEPT !.value = v]]
    BY <1>6, <2>2 DEF CallBar
  <2> QED
    BY <2>3, <2>4
<1>8. CallBar[r] # None /\ CallBar[r].value = None /\ CallBar[r].started = reader[r].started
  BY <1>1, <1>4, NoneAssumption DEF CallBar
<1>9. v \in 0 .. Current
  BY DEF Current, IInv, TypeOK
<1> QED
  BY <1>7, <1>8, <1>9 DEF Register!Respond, Register!Current, CallBar, Bar, Current

LEMMA InitRefines == Init => Register!Init
  BY DEF Init, Register!Init

\* The steps that only move a thread inside get_setting, or only concern
\* caches and savers, stutter.
LEMMA StutterRefines ==
  ASSUME UNCHANGED <<now, saves>>, \A q \in Readers : Bar(q)' = Bar(q)
  PROVE  UNCHANGED Register!vars
<1>1. CallBar' = CallBar
  BY DEF CallBar
<1> QED
  BY <1>1 DEF Register!vars, CallBar, Bar

LEMMA DropRefines ==
  ASSUME UNCHANGED <<now, saves>>, NEW R \in SUBSET Readers,
         \A q \in Readers : Bar(q)' = IF q \in R THEN None ELSE Bar(q)
  PROVE  Register!Drop(R)
<1>1. CallBar' = [q \in Readers |-> IF q \in R THEN None ELSE CallBar[q]]
  BY DEF CallBar
<1> QED
  BY <1>1 DEF Register!Drop, CallBar, Bar

LEMMA StepRefines ==
  ASSUME IInv, [Next]_vars
  PROVE  [Register!Next]_(Register!vars)
<1> USE ConstantsAssumption DEF IInv
<1>1. CASE Tick
  <2>1. UNCHANGED reader
    BY <1>1 DEF Tick
  <2>2. Register!Tick
    BY <1>1, <2>1 DEF Tick, Register!Tick
  <2> QED
    BY <2>2 DEF Register!Next
<1>2. ASSUME NEW p \in Processes, Restart(p)
      PROVE  [Register!Next]_(Register!vars)
  <2>1. PICK R \in SUBSET Readers :
          R = {r \in Readers : reader[r] # None /\ reader[r].process = p}
    OBVIOUS
  <2>2. \A q \in Readers : Bar(q)' = IF q \in R THEN None ELSE Bar(q)
    BY <1>2, <2>1 DEF Restart, Bar
  <2>3. UNCHANGED <<now, saves>>
    BY <1>2 DEF Restart
  <2>4. Register!Drop(R)
    BY <2>2, <2>3, DropRefines
  <2> QED
    BY <2>4 DEF Register!Next
<1>3. ASSUME NEW r \in Readers, NEW p \in Processes, StartGet(r, p)
      PROVE  [Register!Next]_(Register!vars)
  <2> DEFINE h == [pc |-> "lookup", process |-> p, started |-> now]
  <2>1. h \in Thread
    BY DEF Thread, TypeOK
  <2>2. reader' = [reader EXCEPT ![r] = h] /\ h # None
    BY <1>3, <2>1, NoneAssumption DEF StartGet
  <2>3. Bar(r) = None /\ Bar(r)' = [started |-> now, value |-> None]
    BY <1>3, <2>2 DEF StartGet, Bar, TypeOK
  <2>4. \A q \in Readers : q # r => Bar(q)' = Bar(q)
    BY <2>2 DEF Bar, TypeOK
  <2>5. CallBar' = [CallBar EXCEPT ![r] = [started |-> now, value |-> None]] /\ CallBar[r] = None
    BY <2>3, <2>4 DEF CallBar
  <2>6. Register!Invoke(r)
    BY <1>3, <2>5 DEF StartGet, Register!Invoke, CallBar, Bar
  <2> QED
    BY <2>6 DEF Register!Next
<1>4. ASSUME NEW r \in Readers, Lookup(r)
      PROVE  [Register!Next]_(Register!vars)
  <2> DEFINE hit == cache[reader[r].process]
  <2>1. In(r, "lookup") /\ UNCHANGED <<now, saves>>
        /\ reader[r] \in [pc: {"lookup", "read"}, process: Processes, started: Nat]
    BY <1>4, ThreadShape DEF Lookup
  <2>2. CASE hit # None /\ hit.expires > reader[r].started
    <3>1. /\ hit.value \in Nat /\ hit.value <= Current /\ hit.expires \in Nat
          /\ hit.value = Current \/ saves[hit.value + 1] + TTL >= hit.expires
      BY <2>1, <2>2 DEF EntriesRecent, TypeOK, Entry, Version
    <3>2. hit.value = Current \/ saves[hit.value + 1] \in Nat
      BY <3>1, SMTT(30) DEF TypeOK, Current
    <3>3. hit.value = Current \/ saves[hit.value + 1] + TTL > reader[r].started
      BY <2>1, <2>2, <3>1, <3>2
    <3>4. reader' = [reader EXCEPT ![r] = Finished(reader[r], hit.value)]
      BY <1>4, <2>2 DEF Lookup
    <3>5. Register!Respond(r)
      BY <2>1, <3>1, <3>3, <3>4, RespondRefines
    <3> QED
      BY <3>5 DEF Register!Next
  <2>3. CASE ~ (hit # None /\ hit.expires > reader[r].started)
    <3> DEFINE h == [reader[r] EXCEPT !.pc = "read"]
    <3>1. reader' = [reader EXCEPT ![r] = h]
      BY <1>4, <2>3 DEF Lookup
    <3>2. h \in Thread /\ h.started = reader[r].started /\ h.pc = "read"
      BY <2>1 DEF Thread
    <3>3. \A q \in Readers : Bar(q)' = Bar(q)
      BY <2>1, <3>1, <3>2, NoneAssumption DEF Bar, In, TypeOK
    <3> QED
      BY <2>1, <3>3, StutterRefines
  <2> QED
    BY <2>2, <2>3
<1>5. ASSUME NEW r \in Readers, ReadRow(r)
      PROVE  [Register!Next]_(Register!vars)
  <2> DEFINE h == [pc |-> "store", process |-> reader[r].process,
                   started |-> reader[r].started, value |-> Current]
  <2>1. In(r, "read") /\ reader[r].process \in Processes /\ reader[r].started \in Nat
    BY <1>5, ThreadShape DEF ReadRow
  <2>2. h \in Thread
    BY <2>1 DEF Thread, Version, Current, TypeOK
  <2>3. reader' = [reader EXCEPT ![r] = h] /\ h # None
    BY <1>5, <2>2, NoneAssumption DEF ReadRow
  <2>4. \A q \in Readers : Bar(q)' = Bar(q)
    BY <2>1, <2>3 DEF Bar, In, TypeOK
  <2> QED
    BY <1>5, <2>4, StutterRefines DEF ReadRow
<1>6. ASSUME NEW r \in Readers, Store(r)
      PROVE  [Register!Next]_(Register!vars)
  <2>1. reader[r] \in [pc: {"store", "done"}, process: Processes, started: Nat, value: Version]
        /\ In(r, "store")
    BY <1>6, ThreadShape DEF Store
  <2>2. reader[r].value <= Current /\ CurrentSince(reader[r].value, reader[r].started)
    BY <2>1 DEF ThreadsRecent, In
  <2>3. reader[r].value = Current \/ saves[reader[r].value + 1] \in Nat
    BY <2>1, <2>2 DEF TypeOK, Current, Version
  <2>4. reader[r].value = Current \/ saves[reader[r].value + 1] + TTL > reader[r].started
    BY <2>1, <2>2, <2>3 DEF CurrentSince
  <2>5. Register!Respond(r)
    BY <1>6, <2>1, <2>2, <2>4, RespondRefines DEF Store, Version
  <2> QED
    BY <2>5 DEF Register!Next
<1>7. ASSUME NEW r \in Readers, Leave(r)
      PROVE  [Register!Next]_(Register!vars)
  <2>1. \A q \in Readers : Bar(q)' = IF q \in {r} THEN None ELSE Bar(q)
    BY <1>7 DEF Leave, Bar, TypeOK
  <2>2. Register!Drop({r})
    BY <1>7, <2>1, DropRefines DEF Leave
  <2> QED
    BY <2>2 DEF Register!Next
<1>8. ASSUME NEW w \in Savers, NEW p \in Processes, Commit(w, p)
      PROVE  [Register!Next]_(Register!vars)
  <2>1. Register!Save
    BY <1>8 DEF Commit, Register!Save
  <2> QED
    BY <2>1 DEF Register!Next
<1>9. ASSUME NEW w \in Savers, Invalidate(w) \/ RefreshFails(w)
      PROVE  [Register!Next]_(Register!vars)
  BY <1>9, StutterRefines DEF Invalidate, RefreshFails, Bar
<1>10. CASE UNCHANGED vars
  BY <1>10, StutterRefines DEF vars, Bar
<1> QED
  BY <1>1, <1>2, <1>3, <1>4, <1>5, <1>6, <1>7, <1>8, <1>9, <1>10 DEF Next

\* The cache implements the register: no call of get_setting answers with a
\* value superseded a TTL or more before the call began.
THEOREM Staleness == Spec => BoundedStaleness
  BY InitRefines, StepRefines, Invariant, PTL DEF Spec, BoundedStaleness, Register!Spec
=============================================================================
