-------------------------- MODULE FaqIndex_proofs --------------------------
(***************************************************************************)
(* Proofs about FaqIndex, for every number of entries and of overlapping   *)
(* runs, and every size of a batch: FaqInvariant is inductive, and a step  *)
(* of the job leaves the vectors of an entry that is up to date alone.     *)
(***************************************************************************)
EXTENDS FaqIndex, TLAPS

\* A run that is in state r works on entry e.
Works(r, e) ==
  \/ r.pc \in {"retire", "retiring"} /\ e \in r.retired
  \/ r.loaded[e] # None

\* A run claims an entry by having work to do on it.
LEMMA ClaimsWork == \A j \in Jobs : \A e : Claims(j, e) <=> run[j] # None /\ Works(run[j], e)
  BY DEF Claims, Works

\* The columns of a row and the fields of a run.
LEMMA Shapes ==
  ASSUME TypeOK
  PROVE  /\ \A e \in Entries : Exists(e) =>
              /\ entries[e] \in Entry
              /\ entries[e].text \in Nat /\ entries[e].updated \in Nat
              /\ entries[e].indexed \in Nat \cup {None}
         /\ \A j \in Jobs : run[j] # None =>
              /\ run[j] \in Run
              /\ run[j].pc \in Phase /\ run[j].began \in Nat /\ run[j].began <= clock
              /\ run[j].retired \subseteq Entries
              /\ run[j].loaded \in [Entries -> Nat \cup {None}]
              /\ run[j].todo \subseteq Entries /\ run[j].embedded \subseteq Entries
              /\ run[j].locking \subseteq Vector /\ run[j].doomed \subseteq Vector
         /\ \A v \in Vector : v.faq \in Entries
  BY DEF TypeOK, Exists, Entry, Run, Vector

LEMMA InitFaq == Init => FaqInvariant
<1> SUFFICES ASSUME Init PROVE FaqInvariant
  OBVIOUS
<1>1. /\ clock = 0 /\ entries = [e \in Entries |-> None] /\ vectors = {}
      /\ run = [j \in Jobs |-> None] /\ failures = 0 /\ raced = {}
  BY DEF Init
<1>2. TypeOK
  BY <1>1, ConstantsAssumption DEF TypeOK
<1>3. (\A e \in Entries : ~ Exists(e)) /\ (\A j \in Jobs : run[j] = None)
  BY <1>1 DEF Exists
<1> QED
  BY <1>2, <1>3
  DEF FaqInvariant, RunsInOrder, LocksExclude, IndexedByNow, ClaimedOnce, ClaimsStand,
      NoneCurrentDoomed, IndexedUnlessRaced, Claims, Live

(***************************************************************************)
(* A step of a run, before its commit                                      *)
(***************************************************************************)

\* What has to be true of the state r that a run goes to.
LEMMA RunGoesOn ==
  ASSUME FaqInvariant, NEW j \in Jobs, NEW r \in Run,
         run' = [run EXCEPT ![j] = r],
         UNCHANGED <<clock, entries, vectors>>,
         r.began <= clock, failures' \in 0 .. MaxFailures, raced' \subseteq Entries,
         \A e \in r.embedded \cup r.todo : r.loaded[e] # None,
         \A e \in Entries : r.loaded[e] # None =>
           Exists(e) /\ r.pc \notin {"retire", "retiring", "load"},
         \A v \in r.locking :
           \/ r.pc = "retiring" /\ v.faq \in r.retired
           \/ r.pc = "replacing" /\ v.faq \in r.embedded,
         r.doomed \subseteq vectors,
         \A k \in Jobs \ {j} : run[k] # None => r.doomed \cap run[k].doomed = {},
         \A e \in raced \ raced' : Stale(e) /\ \A k \in Jobs \ {j} : ~ Claims(k, e),
         \A e \in Entries \ raced' : Works(r, e) =>
           /\ \A k \in Jobs \ {j} : ~ Claims(k, e)
           /\ r.pc \in {"retire", "retiring"} => ~ Live(e)
           /\ r.loaded[e] # None => Stale(e) /\ r.loaded[e] = entries[e].text
           /\ e \in r.embedded => VectorsOf(e) \subseteq r.doomed \cup r.locking,
         \A v \in r.doomed \cup r.locking : v.faq \in raced' \/ ~ Current(v.faq)
  PROVE  FaqInvariant'
<1>1. /\ run'[j] = r /\ r # None
      /\ \A k \in Jobs \ {j} : run'[k] = run[k]
  BY NoneAssumption DEF FaqInvariant, TypeOK
<1>2. TypeOK'
  BY <1>1 DEF FaqInvariant, TypeOK
<1>3. /\ \A e : Exists(e)' <=> Exists(e)
      /\ \A e : Live(e)' <=> Live(e)
      /\ \A e : Stale(e)' <=> Stale(e)
      /\ \A e : VectorsOf(e)' = VectorsOf(e)
      /\ \A e : Current(e)' <=> Current(e)
  BY DEF Exists, Live, Stale, VectorsOf, Current
<1>4. RunsInOrder'
  BY <1>1, <1>3 DEF FaqInvariant, RunsInOrder, Loads
<1>5. LocksExclude'
  BY <1>1 DEF FaqInvariant, LocksExclude
<1>6. IndexedByNow'
  BY <1>3 DEF FaqInvariant, IndexedByNow
<1>7. /\ \A e \in Entries : Claims(j, e)' <=> Works(r, e)
      /\ \A k \in Jobs \ {j}, e \in Entries : Claims(k, e)' <=> Claims(k, e)
  BY <1>1 DEF Claims, Works
<1>8. ClaimedOnce'
  BY <1>7 DEF FaqInvariant, ClaimedOnce
<1>9. ClaimsStand'
  <2> SUFFICES ASSUME NEW e \in Entries \ raced', NEW k \in Jobs, Claims(k, e)'
               PROVE  /\ run'[k].pc \in {"retire", "retiring"} => ~ Live(e)
                      /\ run'[k].loaded[e] # None =>
                           Stale(e) /\ run'[k].loaded[e] = entries[e].text
                      /\ e \in run'[k].embedded =>
                           VectorsOf(e) \subseteq run'[k].doomed \cup run'[k].locking
    BY <1>3 DEF ClaimsStand, Loads
  <2>1. CASE k = j
    BY <2>1, <1>1, <1>7
  <2>2. CASE k # j
    <3>1. Claims(k, e) /\ e \notin raced /\ run'[k] = run[k]
      BY <2>2, <1>1, <1>7
    <3> QED
      BY <3>1 DEF FaqInvariant, ClaimsStand, Loads
  <2> QED
    BY <2>1, <2>2
<1>10. NoneCurrentDoomed'
  <2> SUFFICES ASSUME NEW k \in Jobs, run'[k] # None,
                      NEW v \in run'[k].doomed \cup run'[k].locking
               PROVE  v.faq \in raced' \/ ~ Current(v.faq)
    BY <1>3 DEF NoneCurrentDoomed
  <2>1. CASE k = j
    BY <2>1, <1>1
  <2>2. CASE k # j
    <3>1. v.faq \in raced \/ ~ Current(v.faq)
      BY <2>2, <1>1 DEF FaqInvariant, NoneCurrentDoomed
    <3> QED
      BY <3>1 DEF Current
  <2> QED
    BY <2>1, <2>2
<1>11. IndexedUnlessRaced'
  <2> SUFFICES ASSUME NEW e \in Entries \ raced', Live(e), ~ Stale(e)
               PROVE  \E v \in vectors : VectorsOf(e) = {v} /\ v.text = entries[e].text
    BY <1>3 DEF IndexedUnlessRaced
  <2> QED
    BY DEF FaqInvariant, IndexedUnlessRaced
<1> QED
  BY <1>2, <1>4, <1>5, <1>6, <1>8, <1>9, <1>10, <1>11 DEF FaqInvariant

\* A run dates its work from the clock at its start.
LEMMA BeginRunPreserves ==
  ASSUME FaqInvariant, NEW j \in Jobs, BeginRun(j)
  PROVE  FaqInvariant'
<1> DEFINE retired == {e \in Entries : Retired(e)}
           r == [pc |-> IF retired = {} THEN "load" ELSE "retire",
                 began |-> clock, retired |-> retired,
                 loaded |-> [e \in Entries |-> None],
                 todo |-> {}, embedded |-> {}, locking |-> {}, doomed |-> {}]
<1>1. /\ run[j] = None /\ run' = [run EXCEPT ![j] = r]
      /\ raced' = raced \cup Shared(j, retired)
      /\ UNCHANGED <<clock, entries, vectors, failures>>
  BY DEF BeginRun
<1>2. /\ r.pc \in Phase /\ r.pc \in {"load", "retire"} /\ r.began = clock /\ r.retired = retired
      /\ r.loaded = [e \in Entries |-> None]
      /\ r.todo = {} /\ r.embedded = {} /\ r.locking = {} /\ r.doomed = {}
  BY DEF Phase
<1>3. clock \in Nat /\ raced \subseteq Entries /\ failures \in 0 .. MaxFailures
  BY DEF FaqInvariant, TypeOK
<1>4. r \in Run
  BY <1>2, <1>3 DEF Run
<1> HIDE DEF r
<1>5. raced' \subseteq Entries /\ raced \subseteq raced'
  BY <1>1, <1>3 DEF Shared
<1>6. ASSUME NEW e \in Entries \ raced', Works(r, e)
      PROVE  /\ \A k \in Jobs \ {j} : ~ Claims(k, e)
             /\ ~ Live(e) /\ r.loaded[e] = None /\ e \notin r.embedded
  <2>1. e \in retired
    BY <1>2, <1>6 DEF Works
  <2> QED
    BY <2>1, <1>1, <1>2 DEF Shared, Retired
<1> HIDE DEF retired
<1>7. /\ \A e \in Entries : r.loaded[e] = None
      /\ r.embedded \cup r.todo = {} /\ r.doomed \cup r.locking = {}
      /\ \A k \in Jobs : r.doomed \cap run[k].doomed = {}
      /\ r.doomed \subseteq vectors /\ raced \ raced' = {}
      /\ r.began <= clock /\ failures' \in 0 .. MaxFailures
  BY <1>1, <1>2, <1>3, <1>5
<1> QED
  BY <1>1, <1>2, <1>4, <1>5, <1>6, <1>7, RunGoesOn

\* A step that leaves raced alone, of a run whose claims only shrink.
LEMMA RunKeepsClaims ==
  ASSUME FaqInvariant, NEW j \in Jobs, run[j] # None, NEW r \in Run,
         run' = [run EXCEPT ![j] = r],
         UNCHANGED <<clock, entries, vectors, raced>>, failures' \in 0 .. MaxFailures,
         r.began = run[j].began, r.retired = run[j].retired, r.loaded = run[j].loaded,
         r.pc \in {"retire", "retiring"} => run[j].pc \in {"retire", "retiring"},
         r.pc = "load" => run[j].pc \in {"retire", "retiring", "load"},
         \A e \in r.embedded \cup r.todo : r.loaded[e] # None,
         \A v \in r.locking :
           \/ r.pc = "retiring" /\ v.faq \in r.retired
           \/ r.pc = "replacing" /\ v.faq \in r.embedded,
         r.doomed \subseteq vectors,
         \A k \in Jobs \ {j} : run[k] # None => r.doomed \cap run[k].doomed = {},
         \A e \in r.embedded : Claims(j, e) /\ e \notin raced =>
           VectorsOf(e) \subseteq r.doomed \cup r.locking,
         \A v \in r.doomed \cup r.locking : v.faq \in raced \/ ~ Current(v.faq)
  PROVE  FaqInvariant'
<1>1. /\ r.began <= clock /\ raced \subseteq Entries
  BY DEF FaqInvariant, TypeOK
<1>2. \A e \in Entries : r.loaded[e] # None =>
        Exists(e) /\ r.pc \notin {"retire", "retiring", "load"}
  BY DEF FaqInvariant, RunsInOrder, Loads
<1>3. ASSUME NEW e \in Entries \ raced, Works(r, e)
      PROVE  /\ \A k \in Jobs \ {j} : ~ Claims(k, e)
             /\ r.pc \in {"retire", "retiring"} => ~ Live(e)
             /\ r.loaded[e] # None => Stale(e) /\ r.loaded[e] = entries[e].text
             /\ e \in r.embedded => VectorsOf(e) \subseteq r.doomed \cup r.locking
  <2>1. Claims(j, e)
    BY <1>3, ClaimsWork DEF Works
  <2>2. \A k \in Jobs \ {j} : ~ Claims(k, e)
    BY <2>1 DEF FaqInvariant, ClaimedOnce
  <2> QED
    BY <2>1, <2>2 DEF FaqInvariant, ClaimsStand, Loads
<1> QED
  BY <1>1, <1>2, <1>3, RunGoesOn

\* The rows that the DELETE has locked are claimed from then on.
LEMMA RetireVectorsPreserves ==
  ASSUME FaqInvariant, NEW j \in Jobs, RetireVectors(j)
  PROVE  FaqInvariant'
<1> DEFINE found == UNION {VectorsOf(e) : e \in run[j].retired}
           r == [run[j] EXCEPT !.pc = "retiring", !.locking = found]
<1>1. run[j] # None /\ run[j].pc = "retire" /\ run[j] \in Run
  BY Shapes DEF RetireVectors, At, FaqInvariant
<1>2. /\ run' = [run EXCEPT ![j] = r]
      /\ UNCHANGED <<clock, entries, vectors, failures, raced>>
  BY DEF RetireVectors
<1>3. \A v \in found : v \in vectors /\ v.faq \in run[j].retired
  BY DEF VectorsOf
<1>4. found \subseteq Vector
  BY <1>3 DEF FaqInvariant, TypeOK
<1> HIDE DEF found
<1>5. /\ r \in Run
      /\ r.pc = "retiring" /\ r.began = run[j].began /\ r.retired = run[j].retired
      /\ r.loaded = run[j].loaded /\ r.todo = run[j].todo /\ r.embedded = run[j].embedded
      /\ r.locking = found /\ r.doomed = run[j].doomed
  BY <1>1, <1>4 DEF Run, Phase
<1> HIDE DEF r
<1>6. /\ \A e \in r.embedded \cup r.todo : r.loaded[e] # None
      /\ r.doomed \subseteq vectors
      /\ \A k \in Jobs \ {j} : run[k] # None => r.doomed \cap run[k].doomed = {}
      /\ failures \in 0 .. MaxFailures
  BY <1>1, <1>5 DEF FaqInvariant, RunsInOrder, Loads, LocksExclude, TypeOK
<1>7. r.embedded = {}
  <2>1. \A e \in r.embedded : e \in Entries /\ run[j].loaded[e] # None
    BY <1>1, <1>5, Shapes DEF FaqInvariant, RunsInOrder, Loads
  <2> QED
    BY <2>1, <1>1 DEF FaqInvariant, RunsInOrder, Loads
\* What it retires is not live, or raced.
<1>8. ASSUME NEW v \in r.doomed \cup r.locking
      PROVE  v.faq \in raced \/ ~ Current(v.faq)
  <2>1. CASE v \in run[j].doomed
    BY <2>1, <1>1 DEF FaqInvariant, NoneCurrentDoomed
  <2>2. CASE v \in found
    <3>1. v.faq \in run[j].retired /\ v.faq \in Entries
      BY <2>2, <1>1, <1>3, Shapes DEF FaqInvariant
    <3>2. Claims(j, v.faq)
      BY <3>1, <1>1 DEF Claims
    <3> QED
      BY <3>1, <3>2, <1>1 DEF FaqInvariant, ClaimsStand, Current
  <2> QED
    BY <2>1, <2>2, <1>5
<1> QED
  BY <1>1, <1>2, <1>3, <1>5, <1>6, <1>7, <1>8, RunKeepsClaims

\* A run that waited goes on with what the other has left.
LEMMA FinishDeletePreserves ==
  ASSUME FaqInvariant, NEW j \in Jobs, FinishDelete(j)
  PROVE  FaqInvariant'
<1> DEFINE pc == IF run[j].pc = "retiring" THEN "load"
                 ELSE IF run[j].todo = {} THEN "commit" ELSE "embed"
           doomed == run[j].doomed \cup (run[j].locking \cap vectors)
           r == [run[j] EXCEPT !.pc = pc, !.doomed = doomed, !.locking = {}]
<1>1. run[j] # None /\ run[j].pc \in {"retiring", "replacing"} /\ run[j] \in Run
  BY Shapes DEF FinishDelete, At, FaqInvariant
<1>2. /\ run' = [run EXCEPT ![j] = r]
      /\ UNCHANGED <<clock, entries, vectors, failures, raced>>
  BY DEF FinishDelete
<1>3. /\ pc \in Phase /\ pc \in {"load", "commit", "embed"}
      /\ pc = "load" => run[j].pc = "retiring"
  BY <1>1 DEF Phase
<1>4. doomed \subseteq Vector /\ doomed \subseteq vectors
      /\ doomed \subseteq run[j].doomed \cup run[j].locking
  BY <1>1, Shapes DEF FaqInvariant, LocksExclude
\* The locks of others are on other rows.
<1>5. ASSUME NEW k \in Jobs \ {j}, run[k] # None
      PROVE  doomed \cap run[k].doomed = {}
  <2>1. run[k].doomed \cap run[j].locking = {}
    BY <1>5 DEF FinishDelete, Free
  <2>2. run[j].doomed \cap run[k].doomed = {}
    BY <1>1, <1>5 DEF FaqInvariant, LocksExclude
  <2> QED
    BY <2>1, <2>2
<1>6. \A V \in SUBSET vectors : V \subseteq run[j].doomed \cup run[j].locking => V \subseteq doomed
  OBVIOUS
<1> HIDE DEF pc, doomed
<1>7. /\ r \in Run
      /\ r.pc = pc /\ r.began = run[j].began /\ r.retired = run[j].retired
      /\ r.loaded = run[j].loaded /\ r.todo = run[j].todo /\ r.embedded = run[j].embedded
      /\ r.locking = {} /\ r.doomed = doomed
  BY <1>1, <1>3, <1>4 DEF Run
<1> HIDE DEF r
<1>8. /\ \A e \in r.embedded \cup r.todo : r.loaded[e] # None
      /\ failures \in 0 .. MaxFailures
  BY <1>1, <1>7 DEF FaqInvariant, RunsInOrder, Loads, TypeOK
<1>9. ASSUME NEW e \in r.embedded, Claims(j, e), e \notin raced
      PROVE  VectorsOf(e) \subseteq r.doomed
  <2>1. e \in Entries
    BY <1>1, <1>7, Shapes DEF FaqInvariant
  <2>2. VectorsOf(e) \subseteq run[j].doomed \cup run[j].locking
    BY <1>7, <1>9, <2>1 DEF FaqInvariant, ClaimsStand
  <2>3. VectorsOf(e) \in SUBSET vectors
    BY DEF VectorsOf
  <2> QED
    BY <1>6, <1>7, <2>2, <2>3
<1>10. \A v \in r.doomed \cup r.locking : v.faq \in raced \/ ~ Current(v.faq)
  BY <1>1, <1>4, <1>7 DEF FaqInvariant, NoneCurrentDoomed
<1> QED
  BY <1>1, <1>2, <1>3, <1>4, <1>5, <1>7, <1>8, <1>9, <1>10, RunKeepsClaims

\* A batch, whether the API has answered or not, is part of what is to do.
LEMMA BatchIsTodo ==
  ASSUME NEW j, NEW B \in Batches(j)
  PROVE  B \subseteq run[j].todo
  BY DEF Batches

\* Embedding adds vectors of the wording loaded, to entries already claimed.
LEMMA EmbedBatchPreserves ==
  ASSUME FaqInvariant, NEW j \in Jobs, EmbedBatch(j)
  PROVE  FaqInvariant'
<1>1. run[j] # None /\ run[j].pc = "embed" /\ run[j] \in Run
  BY Shapes DEF EmbedBatch, At, FaqInvariant
<1>2. PICK B \in Batches(j) :
        /\ run' = [run EXCEPT ![j] =
             [run[j] EXCEPT !.pc = "replacing",
                            !.todo = @ \ B,
                            !.embedded = @ \cup B,
                            !.locking = (UNION {VectorsOf(e) : e \in B}) \ run[j].doomed]]
        /\ UNCHANGED <<clock, entries, vectors, failures, raced>>
  BY DEF EmbedBatch
<1> DEFINE found == UNION {VectorsOf(e) : e \in B}
           r == [run[j] EXCEPT !.pc = "replacing", !.todo = @ \ B, !.embedded = @ \cup B,
                               !.locking = found \ run[j].doomed]
<1>3. run' = [run EXCEPT ![j] = r]
  BY <1>2
<1>4. B \subseteq run[j].todo /\ B \subseteq Entries
  BY <1>1, BatchIsTodo, Shapes DEF FaqInvariant
<1>5. /\ \A v \in found : v \in vectors /\ v.faq \in B
      /\ \A e \in B : VectorsOf(e) \subseteq found
  BY DEF VectorsOf
<1>6. found \subseteq Vector
  BY <1>5 DEF FaqInvariant, TypeOK
<1> HIDE DEF found
<1>7. /\ r \in Run
      /\ r.pc = "replacing" /\ r.began = run[j].began /\ r.retired = run[j].retired
      /\ r.loaded = run[j].loaded /\ r.todo = run[j].todo \ B
      /\ r.embedded = run[j].embedded \cup B
      /\ r.locking = found \ run[j].doomed /\ r.doomed = run[j].doomed
  BY <1>1, <1>4, <1>6 DEF Run, Phase
<1> HIDE DEF r
<1>8. /\ \A e \in r.embedded \cup r.todo : r.loaded[e] # None
      /\ r.doomed \subseteq vectors
      /\ \A k \in Jobs \ {j} : run[k] # None => r.doomed \cap run[k].doomed = {}
      /\ failures \in 0 .. MaxFailures
  BY <1>1, <1>4, <1>7 DEF FaqInvariant, RunsInOrder, Loads, LocksExclude, TypeOK
\* Before this batch there was no DELETE that had not got its locks.
<1>9. run[j].locking = {}
  BY <1>1 DEF FaqInvariant, RunsInOrder
<1>10. ASSUME NEW e \in r.embedded, Claims(j, e), e \notin raced
       PROVE  VectorsOf(e) \subseteq r.doomed \cup r.locking
  <2>1. CASE e \in B
    BY <2>1, <1>5, <1>7
  <2>2. CASE e \in run[j].embedded
    <3>1. e \in Entries
      BY <2>2, <1>1, Shapes DEF FaqInvariant
    <3>2. VectorsOf(e) \subseteq run[j].doomed \cup run[j].locking
      BY <2>2, <3>1, <1>10 DEF FaqInvariant, ClaimsStand
    <3> QED
      BY <3>2, <1>7, <1>9
  <2> QED
    BY <2>1, <2>2, <1>7
\* What the batch replaces is stale, or raced.
<1>11. ASSUME NEW v \in r.doomed \cup r.locking
       PROVE  v.faq \in raced \/ ~ Current(v.faq)
  <2>1. CASE v \in run[j].doomed
    BY <2>1, <1>1 DEF FaqInvariant, NoneCurrentDoomed
  <2>2. CASE v \in found
    <3>1. v.faq \in Entries /\ Loads(j, v.faq)
      BY <2>2, <1>1, <1>4, <1>5 DEF FaqInvariant, RunsInOrder
    <3>2. Claims(j, v.faq)
      BY <3>1, <1>1 DEF Claims, Loads
    <3> QED
      BY <3>1, <3>2 DEF FaqInvariant, ClaimsStand, Current
  <2> QED
    BY <2>1, <2>2, <1>7
<1>12. \A v \in r.locking : v.faq \in r.embedded
  BY <1>5, <1>7
<1> QED
  BY <1>1, <1>2, <1>3, <1>7, <1>8, <1>10, <1>11, <1>12, RunKeepsClaims

\* A batch that fails leaves its entries unclaimed and as they were.
LEMMA BatchFailsPreserves ==
  ASSUME FaqInvariant, NEW j \in Jobs, BatchFails(j)
  PROVE  FaqInvariant'
<1>1. run[j] # None /\ run[j].pc = "embed" /\ run[j] \in Run
  BY Shapes DEF BatchFails, At, FaqInvariant
<1>2. PICK B \in Batches(j) :
        /\ run' = [run EXCEPT ![j] =
             [run[j] EXCEPT !.pc = IF run[j].todo = B THEN "commit" ELSE "embed",
                            !.todo = @ \ B]]
        /\ failures < MaxFailures /\ failures' = failures + 1
        /\ UNCHANGED <<clock, entries, vectors, raced>>
  BY DEF BatchFails
<1> DEFINE r == [run[j] EXCEPT !.pc = IF run[j].todo = B THEN "commit" ELSE "embed",
                               !.todo = @ \ B]
<1>3. run' = [run EXCEPT ![j] = r]
  BY <1>2
<1>4. /\ r \in Run
      /\ r.pc \in {"commit", "embed"} /\ r.began = run[j].began /\ r.retired = run[j].retired
      /\ r.loaded = run[j].loaded /\ r.todo = run[j].todo \ B
      /\ r.embedded = run[j].embedded
      /\ r.locking = run[j].locking /\ r.doomed = run[j].doomed
  BY <1>1 DEF Run, Phase
<1> HIDE DEF r
<1>5. run[j].locking = {}
  BY <1>1 DEF FaqInvariant, RunsInOrder
<1>6. /\ \A e \in r.embedded \cup r.todo : r.loaded[e] # None
      /\ r.doomed \subseteq vectors
      /\ \A k \in Jobs \ {j} : run[k] # None => r.doomed \cap run[k].doomed = {}
      /\ failures' \in 0 .. MaxFailures
  BY <1>1, <1>2, <1>4, ConstantsAssumption
  DEF FaqInvariant, RunsInOrder, Loads, LocksExclude, TypeOK
<1>7. ASSUME NEW e \in r.embedded, Claims(j, e), e \notin raced
      PROVE  VectorsOf(e) \subseteq r.doomed \cup r.locking
  <2>1. e \in Entries
    BY <1>1, <1>4, Shapes DEF FaqInvariant
  <2> QED
    BY <2>1, <1>4, <1>7 DEF FaqInvariant, ClaimsStand
<1>8. \A v \in r.doomed \cup r.locking : v.faq \in raced \/ ~ Current(v.faq)
  BY <1>1, <1>4 DEF FaqInvariant, NoneCurrentDoomed
<1> QED
  BY <1>1, <1>2, <1>3, <1>4, <1>5, <1>6, <1>7, <1>8, RunKeepsClaims

\* What a run loads is stale, and so nothing that is current.
LEMMA LoadStalePreserves ==
  ASSUME FaqInvariant, NEW j \in Jobs, LoadStale(j)
  PROVE  FaqInvariant'
<1> DEFINE stale == {e \in Entries : Stale(e)}
           pc == IF stale = {} THEN "commit" ELSE "embed"
           loaded == [e \in Entries |-> IF e \in stale THEN entries[e].text ELSE None]
           r == [run[j] EXCEPT !.pc = pc, !.loaded = loaded, !.todo = stale]
<1>1. run[j] # None /\ run[j].pc = "load" /\ run[j] \in Run /\ run[j].began <= clock
  BY Shapes DEF LoadStale, At, FaqInvariant
<1>2. /\ run' = [run EXCEPT ![j] = r]
      /\ raced' = (raced \ stale) \cup Shared(j, stale)
      /\ UNCHANGED <<clock, entries, vectors, failures>>
  BY DEF LoadStale
<1>3. \A e \in Entries : e \in stale <=> Stale(e)
  OBVIOUS
<1>4. \A e \in stale : Live(e) /\ Exists(e) /\ entries[e].text \in Nat
  BY Shapes DEF Stale, Live, FaqInvariant
<1>5. pc \in {"commit", "embed"} /\ pc \in Phase /\ stale \subseteq Entries
  BY DEF Phase
<1>6. /\ loaded \in [Entries -> Nat \cup {None}]
      /\ \A e \in Entries : loaded[e] # None => e \in stale /\ loaded[e] = entries[e].text
      /\ \A e \in stale : loaded[e] # None
  BY <1>4, NoneAssumption
<1> HIDE DEF stale, pc, loaded
<1>7. /\ r \in Run
      /\ r.pc = pc /\ r.began = run[j].began /\ r.loaded = loaded /\ r.todo = stale
      /\ r.embedded = run[j].embedded
      /\ r.locking = run[j].locking /\ r.doomed = run[j].doomed
  BY <1>1, <1>5, <1>6 DEF Run
<1> HIDE DEF r
\* It has nothing embedded yet, and no DELETE under way.
<1>8. r.embedded = {} /\ r.locking = {}
  <2>1. \A e \in run[j].embedded : e \in Entries /\ Loads(j, e)
    BY <1>1, Shapes DEF FaqInvariant, RunsInOrder
  <2> QED
    BY <2>1, <1>1, <1>7 DEF FaqInvariant, RunsInOrder
<1>9. /\ r.began <= clock /\ failures' \in 0 .. MaxFailures /\ raced' \subseteq Entries
      /\ \A e \in r.embedded \cup r.todo : r.loaded[e] # None
      /\ \A e \in Entries : r.loaded[e] # None =>
           Exists(e) /\ r.pc \notin {"retire", "retiring", "load"}
      /\ r.doomed \subseteq vectors
      /\ \A k \in Jobs \ {j} : run[k] # None => r.doomed \cap run[k].doomed = {}
  BY <1>1, <1>2, <1>4, <1>5, <1>6, <1>7, <1>8 DEF FaqInvariant, TypeOK, LocksExclude, Shared
<1>10. \A e \in raced \ raced' : Stale(e) /\ \A k \in Jobs \ {j} : ~ Claims(k, e)
  BY <1>2, <1>3, <1>5 DEF Shared
<1>11. ASSUME NEW e \in Entries \ raced', Works(r, e)
       PROVE  /\ \A k \in Jobs \ {j} : ~ Claims(k, e)
              /\ Stale(e) /\ r.loaded[e] = entries[e].text
  <2>1. e \in stale /\ r.loaded[e] = entries[e].text
    BY <1>5, <1>6, <1>7, <1>11 DEF Works
  <2> QED
    BY <2>1, <1>2, <1>3 DEF Shared
<1>12. ASSUME NEW v \in r.doomed \cup r.locking
       PROVE  v.faq \in raced' \/ ~ Current(v.faq)
  <2>1. v.faq \in raced \/ ~ Current(v.faq)
    BY <1>1, <1>7 DEF FaqInvariant, NoneCurrentDoomed
  <2> QED
    BY <2>1, <1>10 DEF Current
<1>13. r.pc \notin {"retire", "retiring"} /\ r \in Run
  BY <1>5, <1>7
<1> QED
  BY <1>2, <1>8, <1>9, <1>10, <1>11, <1>12, <1>13, RunGoesOn

\* A run that is rolled back works on nothing and holds no locks.
LEMMA AbortRunPreserves ==
  ASSUME FaqInvariant, NEW j \in Jobs, AbortRun(j)
  PROVE  FaqInvariant'
<1>1. /\ run' = [run EXCEPT ![j] = None]
      /\ failures < MaxFailures /\ failures' = failures + 1
      /\ UNCHANGED <<clock, entries, vectors, raced>>
  BY DEF AbortRun
<1>2. \A k \in Jobs : run'[k] # None => k # j /\ run'[k] = run[k]
  BY <1>1 DEF FaqInvariant, TypeOK
<1>3. TypeOK'
  BY <1>1, <1>2, ConstantsAssumption DEF FaqInvariant, TypeOK
<1>4. /\ \A e : Exists(e)' <=> Exists(e)
      /\ \A e : Live(e)' <=> Live(e)
      /\ \A e : Stale(e)' <=> Stale(e)
      /\ \A e : VectorsOf(e)' = VectorsOf(e)
      /\ \A e : Current(e)' <=> Current(e)
      /\ \A k \in Jobs : \A e : Claims(k, e)' => k # j /\ Claims(k, e) /\ run'[k] = run[k]
  BY <1>1, <1>2 DEF Exists, Live, Stale, VectorsOf, Current, Claims
<1>5. RunsInOrder'
  BY <1>2, <1>4 DEF FaqInvariant, RunsInOrder, Loads
<1>6. LocksExclude' /\ IndexedByNow'
  BY <1>1, <1>2, <1>4 DEF FaqInvariant, LocksExclude, IndexedByNow
<1>7. ClaimedOnce'
  BY <1>1, <1>4 DEF FaqInvariant, ClaimedOnce
<1>8. ClaimsStand'
  BY <1>1, <1>4 DEF FaqInvariant, ClaimsStand, Loads
<1>9. NoneCurrentDoomed'
  BY <1>1, <1>2, <1>4 DEF FaqInvariant, NoneCurrentDoomed
<1>10. IndexedUnlessRaced'
  BY <1>1, <1>4 DEF FaqInvariant, IndexedUnlessRaced
<1> QED
  BY <1>3, <1>5, <1>6, <1>7, <1>8, <1>9, <1>10 DEF FaqInvariant

(***************************************************************************)
(* The commit of a run                                                     *)
(***************************************************************************)

\* The commit writes only what the run had claimed; a current entry, unless raced,
\* keeps its vectors.
LEMMA CommitRunPreserves ==
  ASSUME FaqInvariant, NEW j \in Jobs, CommitRun(j)
  PROVE  /\ FaqInvariant'
         /\ \A e \in Entries \ raced : Current(e) => VectorsOf(e)' = VectorsOf(e)
<1> DEFINE began == run[j].began
           embedded == run[j].embedded
           doomed == run[j].doomed
           new(e) == [faq |-> e, text |-> run[j].loaded[e], at |-> began, job |-> j]
           then(e) == [entries[e] EXCEPT !.indexed = began, !.updated = began]
<1>1. /\ run[j] # None /\ run[j].pc = "commit" /\ run[j].locking = {}
      /\ began \in Nat /\ began <= clock
      /\ embedded \subseteq Entries /\ doomed \subseteq vectors
      /\ run[j].loaded \in [Entries -> Nat \cup {None}]
  BY Shapes DEF CommitRun, At, FaqInvariant, RunsInOrder, LocksExclude
<1>2. /\ vectors' = (vectors \ doomed) \cup {new(e) : e \in embedded}
      /\ entries' = [e \in Entries |-> IF e \in embedded THEN then(e) ELSE entries[e]]
      /\ run' = [run EXCEPT ![j] = None]
      /\ UNCHANGED <<clock, failures, raced>>
  BY DEF CommitRun, NewVectors
<1>3. \A k \in Jobs : run'[k] # None => k # j /\ run'[k] = run[k]
  BY <1>2 DEF FaqInvariant, TypeOK
<1>4. \A e \in embedded : Loads(j, e) /\ Exists(e) /\ Claims(j, e)
  BY <1>1 DEF FaqInvariant, RunsInOrder, Claims, Loads
<1>5. ASSUME NEW e \in embedded
      PROVE  new(e) \in Vector /\ new(e).faq = e /\ new(e).text = run[j].loaded[e]
  BY <1>1, <1>4 DEF Loads, Vector
<1>6. ASSUME NEW e \in embedded
      PROVE  /\ then(e) \in Entry /\ then(e) # None
             /\ then(e).indexed = began /\ then(e).updated = began
             /\ then(e).published = entries[e].published
             /\ then(e).deleted = entries[e].deleted /\ then(e).text = entries[e].text
  <2>1. entries[e] \in Entry
    BY <1>1, <1>4, Shapes DEF FaqInvariant
  <2>2. /\ then(e) \in Entry
        /\ then(e).indexed = began /\ then(e).updated = began
        /\ then(e).published = entries[e].published
        /\ then(e).deleted = entries[e].deleted /\ then(e).text = entries[e].text
    BY <2>1, <1>1 DEF Entry
  <2> QED
    BY <2>2, NoneAssumption
<1> HIDE DEF new, then, began, embedded, doomed
<1>7. /\ \A e \in embedded : entries'[e] = then(e)
      /\ \A e \in Entries \ embedded : entries'[e] = entries[e]
  BY <1>1, <1>2
<1>8. TypeOK'
  <2>1. entries' \in [Entries -> Entry \cup {None}]
    BY <1>2, <1>6 DEF FaqInvariant, TypeOK
  <2>2. vectors' \subseteq Vector
    BY <1>2, <1>5 DEF FaqInvariant, TypeOK
  <2> QED
    BY <2>1, <2>2, <1>2, <1>3 DEF FaqInvariant, TypeOK
<1>9. \A e \in Entries : (Exists(e)' <=> Exists(e)) /\ (Live(e)' <=> Live(e))
  BY <1>4, <1>6, <1>7 DEF Exists, Live
<1>10. /\ \A e \in embedded : ~ Stale(e)'
       /\ \A e \in Entries \ embedded : Stale(e)' <=> Stale(e)
  BY <1>1, <1>6, <1>7, <1>9, NoneAssumption DEF Stale
<1>11. /\ \A e \in embedded : VectorsOf(e)' = (VectorsOf(e) \ doomed) \cup {new(e)}
       /\ \A e \in Entries \ embedded : VectorsOf(e)' = VectorsOf(e) \ doomed
  BY <1>1, <1>2, <1>5 DEF VectorsOf
\* Of what it embedded, no other run works on anything, and every vector goes,
\* unless it is raced.
<1>12. ASSUME NEW e \in embedded, e \notin raced
       PROVE  /\ \A k \in Jobs \ {j} : ~ Claims(k, e)
              /\ VectorsOf(e) \subseteq doomed
              /\ Stale(e) /\ run[j].loaded[e] = entries[e].text
  <2>1. e \in Entries /\ Claims(j, e) /\ Loads(j, e)
    BY <1>1, <1>4
  <2> QED
    BY <2>1, <1>1, <1>12 DEF FaqInvariant, ClaimedOnce, ClaimsStand, embedded, doomed
\* What is up to date has none of its vectors deleted.
<1>13. ASSUME NEW e \in Entries \ raced, Current(e)
       PROVE  e \notin embedded /\ VectorsOf(e)' = VectorsOf(e)
  <2>1. e \notin embedded
    BY <1>12, <1>13 DEF Current
  <2>2. \A v \in VectorsOf(e) : v \notin doomed
    BY <1>1, <1>13 DEF FaqInvariant, NoneCurrentDoomed, VectorsOf, doomed
  <2> QED
    BY <2>1, <2>2, <1>11
<1>14. \A k \in Jobs \ {j} : run[k] # None => run[k].doomed \cap doomed = {}
  BY <1>1 DEF FaqInvariant, LocksExclude, doomed
<1>15. RunsInOrder'
  BY <1>3, <1>9 DEF FaqInvariant, RunsInOrder, Loads
<1>16. LocksExclude'
  <2> SUFFICES ASSUME NEW k \in Jobs, run'[k] # None
               PROVE  /\ run'[k].doomed \subseteq vectors'
                      /\ \A i \in Jobs \ {k} :
                           run'[i] # None => run'[k].doomed \cap run'[i].doomed = {}
    BY DEF LocksExclude
  <2>1. k # j /\ run'[k] = run[k] /\ run[k].doomed \subseteq vectors
    BY <1>3 DEF FaqInvariant, LocksExclude
  <2> QED
    BY <2>1, <1>2, <1>3, <1>14 DEF FaqInvariant, LocksExclude
<1>17. IndexedByNow'
  BY <1>1, <1>2, <1>6, <1>7, <1>9 DEF FaqInvariant, IndexedByNow
<1>18. \A k \in Jobs : \A e : Claims(k, e)' => k # j /\ Claims(k, e) /\ run'[k] = run[k]
  BY <1>3 DEF Claims
<1>19. ClaimedOnce'
  BY <1>2, <1>18 DEF FaqInvariant, ClaimedOnce
<1>20. ClaimsStand'
  <2> SUFFICES ASSUME NEW e \in Entries \ raced, NEW k \in Jobs, Claims(k, e)'
               PROVE  /\ run'[k].pc \in {"retire", "retiring"} => ~ Live(e)'
                      /\ run'[k].loaded[e] # None =>
                           Stale(e)' /\ run'[k].loaded[e] = entries'[e].text
                      /\ e \in run'[k].embedded =>
                           VectorsOf(e)' \subseteq run'[k].doomed \cup run'[k].locking
    BY <1>2 DEF ClaimsStand, Loads
  <2>1. k # j /\ Claims(k, e) /\ run'[k] = run[k] /\ e \notin embedded
    BY <1>12, <1>18
  <2>2. /\ Stale(e)' <=> Stale(e)
        /\ Live(e)' <=> Live(e)
        /\ entries'[e] = entries[e] /\ VectorsOf(e)' \subseteq VectorsOf(e)
    BY <2>1, <1>7, <1>9, <1>10, <1>11
  <2> QED
    BY <2>1, <2>2 DEF FaqInvariant, ClaimsStand, Loads
<1>21. NoneCurrentDoomed'
  <2> SUFFICES ASSUME NEW k \in Jobs, run'[k] # None,
                      NEW v \in run'[k].doomed \cup run'[k].locking,
                      v.faq \notin raced, Current(v.faq)'
               PROVE  FALSE
    BY <1>2 DEF NoneCurrentDoomed
  <2>1. /\ k # j /\ run[k] # None /\ run'[k] = run[k]
        /\ v \in run[k].doomed \cup run[k].locking
    BY <1>3
  <2>2. v.faq \in Entries
    BY <2>1, Shapes DEF FaqInvariant
  <2> DEFINE e == v.faq
  <2>3. CASE e \notin embedded
    <3>1. Current(e)
      BY <2>2, <2>3, <1>9, <1>10 DEF Current
    <3> QED
      BY <3>1, <2>1 DEF FaqInvariant, NoneCurrentDoomed
  <2>4. CASE e \in embedded
    <3>1. ~ Claims(k, e) /\ VectorsOf(e) \subseteq doomed
      BY <2>1, <2>4, <1>12
    <3>2. CASE v \in run[k].doomed
      <4>1. v \in VectorsOf(e)
        BY <3>2, <2>1 DEF FaqInvariant, LocksExclude, VectorsOf
      <4> QED
        BY <4>1, <3>1, <3>2, <2>1, <1>14
    <3>3. CASE v \in run[k].locking
      <4>1. \/ run[k].pc = "retiring" /\ e \in run[k].retired
            \/ e \in run[k].embedded
        BY <3>3, <2>1 DEF FaqInvariant, RunsInOrder
      <4>2. e \in run[k].embedded => Loads(k, e)
        BY <2>1 DEF FaqInvariant, RunsInOrder
      <4> QED
        BY <4>1, <4>2, <3>1, <2>1 DEF Claims, Loads
    <3> QED
      BY <3>2, <3>3, <2>1
  <2> QED
    BY <2>3, <2>4
<1>22. IndexedUnlessRaced'
  <2> SUFFICES ASSUME NEW e \in Entries \ raced, Live(e)', ~ Stale(e)'
               PROVE  \E v \in vectors' : VectorsOf(e)' = {v} /\ v.text = entries'[e].text
    BY <1>2 DEF IndexedUnlessRaced
  <2>1. CASE e \in embedded
    <3>1. VectorsOf(e)' = {new(e)} /\ new(e).text = entries[e].text
      BY <2>1, <1>5, <1>11, <1>12
    <3>2. new(e) \in vectors' /\ entries'[e].text = entries[e].text
      BY <2>1, <1>2, <1>6, <1>7
    <3> QED
      BY <3>1, <3>2
  <2>2. CASE e \notin embedded
    <3>1. Current(e) /\ entries'[e] = entries[e]
      BY <2>2, <1>7, <1>9, <1>10 DEF Current
    <3>2. PICK v \in vectors : VectorsOf(e) = {v} /\ v.text = entries[e].text
      BY <3>1 DEF FaqInvariant, IndexedUnlessRaced, Current
    <3>3. VectorsOf(e)' = {v}
      BY <3>1, <3>2, <1>13
    <3>4. v \in vectors'
      BY <3>3 DEF VectorsOf
    <3> QED
      BY <3>1, <3>2, <3>3, <3>4
  <2> QED
    BY <2>1, <2>2
<1>23. FaqInvariant'
  BY <1>8, <1>15, <1>16, <1>17, <1>19, <1>20, <1>21, <1>22 DEF FaqInvariant
<1> QED
  BY <1>13, <1>23

(***************************************************************************)
(* The admin's writes                                                      *)
(***************************************************************************)

\* A row that was written is stale, if it is live at all, and raced if a run
\* works on it.
LEMMA WritePreserves ==
  ASSUME FaqInvariant, NEW e \in Entries, NEW entry \in Entry,
         entry.indexed # None => entry.indexed <= clock,
         Write(e, entry)
  PROVE  FaqInvariant'
<1> DEFINE row == [entry EXCEPT !.updated = clock + 1]
<1>1. /\ clock \in Nat /\ clock' = clock + 1 /\ entries' = [entries EXCEPT ![e] = row]
      /\ raced' = IF \E j \in Jobs : Claims(j, e) THEN raced \cup {e} ELSE raced
      /\ UNCHANGED <<vectors, run, failures>>
  BY DEF Write, FaqInvariant, TypeOK
<1>2. row \in Entry /\ row.updated = clock + 1 /\ row.indexed = entry.indexed
  BY <1>1 DEF Entry
<1>3. row # None /\ entry.indexed \in Nat \cup {None}
  BY <1>2, NoneAssumption DEF Entry
<1> HIDE DEF row
<1>4. entries'[e] = row /\ \A f \in Entries \ {e} : entries'[f] = entries[f]
  BY <1>1 DEF FaqInvariant, TypeOK
<1>5. /\ \A f \in Entries \ {e} : /\ Exists(f)' <=> Exists(f)
                                  /\ Live(f)' <=> Live(f)
                                  /\ Stale(f)' <=> Stale(f)
                                  /\ Current(f)' <=> Current(f)
      /\ \A f : VectorsOf(f)' = VectorsOf(f)
      /\ \A j, f : Claims(j, f)' <=> Claims(j, f)
  BY <1>1, <1>4 DEF Exists, Live, Stale, Current, VectorsOf, Claims
<1>6. Exists(e)' /\ (Live(e)' => Stale(e)')
  <2>1. Exists(e)'
    BY <1>3, <1>4 DEF Exists
  <2>2. row.indexed = None \/ row.updated > row.indexed
    BY <1>1, <1>2, <1>3
  <2>3. entries'[e].indexed = None \/ entries'[e].updated > entries'[e].indexed
    BY <2>2, <1>4
  <2> QED
    BY <2>1, <2>3 DEF Stale
<1>7. TypeOK'
  <2>1. \A j \in Jobs : run[j] # None => run[j].began <= clock + 1
    BY <1>1, Shapes DEF FaqInvariant
  <2> QED
    BY <2>1, <1>1, <1>2 DEF FaqInvariant, TypeOK
<1>8. RunsInOrder'
  BY <1>1, <1>5, <1>6 DEF FaqInvariant, RunsInOrder, Loads
<1>9. LocksExclude'
  BY <1>1 DEF FaqInvariant, LocksExclude
<1>10. IndexedByNow'
  <2> SUFFICES ASSUME NEW f \in Entries, Exists(f)', entries'[f].indexed # None
               PROVE  entries'[f].indexed <= clock + 1
    BY <1>1 DEF IndexedByNow
  <2>1. CASE f = e
    BY <2>1, <1>1, <1>2, <1>3, <1>4
  <2>2. CASE f # e
    <3>1. Exists(f) /\ entries'[f] = entries[f]
      BY <2>2, <1>4, <1>5
    <3>2. entries[f].indexed \in Nat /\ entries[f].indexed <= clock
      BY <3>1, Shapes DEF FaqInvariant, IndexedByNow
    <3> QED
      BY <3>1, <3>2, <1>1
  <2> QED
    BY <2>1, <2>2
<1>11. ClaimedOnce'
  BY <1>1, <1>5 DEF FaqInvariant, ClaimedOnce
<1>12. ClaimsStand'
  <2> SUFFICES ASSUME NEW f \in Entries \ raced', NEW j \in Jobs, Claims(j, f)
               PROVE  /\ run[j].pc \in {"retire", "retiring"} => ~ Live(f)'
                      /\ run[j].loaded[f] # None =>
                           Stale(f)' /\ run[j].loaded[f] = entries'[f].text
                      /\ f \in run[j].embedded =>
                           VectorsOf(f) \subseteq run[j].doomed \cup run[j].locking
    BY <1>1, <1>5 DEF ClaimsStand, Loads
  <2>1. f # e /\ f \notin raced
    BY <1>1
  <2> QED
    BY <2>1, <1>4, <1>5 DEF FaqInvariant, ClaimsStand, Loads
<1>13. NoneCurrentDoomed'
  <2> SUFFICES ASSUME NEW j \in Jobs, run[j] # None, NEW v \in run[j].doomed \cup run[j].locking
               PROVE  v.faq \in raced' \/ ~ Current(v.faq)'
    BY <1>1 DEF NoneCurrentDoomed
  <2>1. v.faq \in Entries
    BY Shapes DEF FaqInvariant
  <2>2. CASE v.faq = e
    BY <2>2, <1>6 DEF Current
  <2>3. CASE v.faq # e
    BY <2>1, <2>3, <1>1, <1>5 DEF FaqInvariant, NoneCurrentDoomed
  <2> QED
    BY <2>2, <2>3
<1>14. IndexedUnlessRaced'
  <2> SUFFICES ASSUME NEW f \in Entries \ raced', Live(f)', ~ Stale(f)'
               PROVE  \E v \in vectors : VectorsOf(f) = {v} /\ v.text = entries'[f].text
    BY <1>1, <1>5 DEF IndexedUnlessRaced
  <2>1. f # e /\ f \notin raced
    BY <1>1, <1>6
  <2> QED
    BY <2>1, <1>4, <1>5 DEF FaqInvariant, IndexedUnlessRaced
<1> QED
  BY <1>7, <1>8, <1>9, <1>10, <1>11, <1>12, <1>13, <1>14 DEF FaqInvariant

\* An edit of an entry that a run has claimed races it; any edit dates the entry
\* after all that is indexed.
LEMMA AdminPreserves ==
  ASSUME FaqInvariant, NEW e \in Entries, NEW published \in BOOLEAN,
         CreateFaq(e, published) \/ UpdateFaq(e, published) \/ DeleteFaq(e) \/ RestoreFaq(e)
  PROVE  FaqInvariant'
<1>1. clock \in Nat
  BY DEF FaqInvariant, TypeOK
<1>2. Exists(e) => /\ entries[e] \in Entry
                   /\ entries[e].indexed # None => entries[e].indexed <= clock
  BY Shapes DEF FaqInvariant, IndexedByNow
<1>3. CASE CreateFaq(e, published)
  <2> DEFINE entry == [text |-> clock + 1, published |-> published, deleted |-> FALSE,
                       updated |-> clock + 1, indexed |-> None]
  <2>1. entry \in Entry /\ entry.indexed = None /\ Write(e, entry)
    BY <1>1, <1>3 DEF CreateFaq, Entry
  <2> HIDE DEF entry
  <2> QED
    BY <2>1, WritePreserves
<1>4. CASE UpdateFaq(e, published)
  <2>1. PICK text \in {entries[e].text, clock + 1} :
          Write(e, [entries[e] EXCEPT !.text = text, !.published = published])
    BY <1>4 DEF UpdateFaq
  <2> DEFINE entry == [entries[e] EXCEPT !.text = text, !.published = published]
  <2>2. Exists(e)
    BY <1>4 DEF UpdateFaq
  <2>3. entry \in Entry /\ entry.indexed = entries[e].indexed
    <3>1. entries[e] \in Entry /\ text \in Nat
      BY <1>1, <1>2, <2>2, Shapes DEF FaqInvariant
    <3> QED
      BY <3>1 DEF Entry
  <2>4. Write(e, entry)
    BY <2>1
  <2> HIDE DEF entry
  <2> QED
    BY <2>2, <2>3, <2>4, <1>2, WritePreserves
<1>5. CASE DeleteFaq(e)
  <2> DEFINE entry == [entries[e] EXCEPT !.deleted = TRUE, !.published = FALSE]
  <2>1. /\ entry \in Entry /\ entry.indexed = entries[e].indexed
    BY <1>2, <1>5 DEF DeleteFaq, Entry
  <2>2. Write(e, entry)
    BY <1>5 DEF DeleteFaq
  <2> HIDE DEF entry
  <2> QED
    BY <2>1, <2>2, <1>2, <1>5, WritePreserves DEF DeleteFaq
<1>6. CASE RestoreFaq(e)
  <2> DEFINE entry == [entries[e] EXCEPT !.deleted = FALSE, !.indexed = None]
  <2>1. /\ entry \in Entry /\ entry.indexed = None
    BY <1>2, <1>6 DEF RestoreFaq, Entry
  <2>2. Write(e, entry)
    BY <1>6 DEF RestoreFaq
  <2> HIDE DEF entry
  <2> QED
    BY <2>1, <2>2, WritePreserves
<1> QED
  BY <1>3, <1>4, <1>5, <1>6

LEMMA UnchangedFaq == FaqInvariant /\ UNCHANGED vars => FaqInvariant'
<1> SUFFICES ASSUME FaqInvariant, UNCHANGED vars PROVE FaqInvariant'
  OBVIOUS
<1>1. TypeOK'
  BY DEF vars, FaqInvariant, TypeOK
<1>2. /\ \A e : Exists(e)' <=> Exists(e)
      /\ \A e : Live(e)' <=> Live(e)
      /\ \A e : Stale(e)' <=> Stale(e)
      /\ \A e : VectorsOf(e)' = VectorsOf(e)
      /\ \A e : Current(e)' <=> Current(e)
      /\ \A k, e : Claims(k, e)' <=> Claims(k, e)
  BY DEF vars, Exists, Live, Stale, VectorsOf, Current, Claims
<1>3. RunsInOrder' /\ LocksExclude' /\ IndexedByNow'
  BY <1>2 DEF vars, FaqInvariant, RunsInOrder, LocksExclude, IndexedByNow, Loads
<1>4. ClaimedOnce' /\ ClaimsStand' /\ NoneCurrentDoomed'
  BY <1>2 DEF vars, FaqInvariant, ClaimedOnce, ClaimsStand, NoneCurrentDoomed, Loads
<1>5. IndexedUnlessRaced'
  BY <1>2 DEF vars, FaqInvariant, IndexedUnlessRaced
<1> QED
  BY <1>1, <1>3, <1>4, <1>5 DEF FaqInvariant

LEMMA NextFaq == FaqInvariant /\ [Next]_vars => FaqInvariant'
<1> SUFFICES ASSUME FaqInvariant, [Next]_vars PROVE FaqInvariant'
  OBVIOUS
<1>1. ASSUME NEW j \in Jobs, BeginRun(j) \/ RunStep(j) \/ BatchFails(j) \/ AbortRun(j)
      PROVE  FaqInvariant'
  BY <1>1, BeginRunPreserves, RetireVectorsPreserves, FinishDeletePreserves, LoadStalePreserves,
     EmbedBatchPreserves, CommitRunPreserves, BatchFailsPreserves, AbortRunPreserves
  DEF RunStep
<1> QED
  BY <1>1, AdminPreserves, UnchangedFaq DEF Next

-----------------------------------------------------------------------------
\* FaqInvariant holds in every reachable state.
THEOREM FaqInvariantHolds == Spec => []FaqInvariant
  BY InitFaq, NextFaq, PTL DEF Spec

\* Rows, vectors and runs keep their shape, and no run is ahead of the clock.
THEOREM TypeCorrect == Spec => []TypeOK
<1>1. FaqInvariant => TypeOK
  BY DEF FaqInvariant
<1> QED
  BY <1>1, FaqInvariantHolds, PTL

\* reindex: an entry that chat can find and that is not waiting has exactly the
\* vector of its wording, whatever overlaps, unless it was raced.
THEOREM VectorsMatch == Spec => []IndexedUnlessRaced
<1>1. FaqInvariant => IndexedUnlessRaced
  BY DEF FaqInvariant
<1> QED
  BY <1>1, FaqInvariantHolds, PTL

\* "current -> left completely alone": no step of any run, nor of an admin,
\* changes the vectors of an entry that is up to date.
THEOREM LeftAlone == Spec => CurrentLeftAlone
<1> DEFINE Kept == \A e \in Entries :
                     Live(e) /\ ~ Stale(e) /\ e \notin raced => VectorsOf(e)' = VectorsOf(e)
<1>1. ASSUME FaqInvariant, [Next]_vars
      PROVE  Kept
  <2>1. CASE vectors' = vectors
    BY <2>1 DEF VectorsOf
  <2>2. ASSUME NEW j \in Jobs, CommitRun(j)
        PROVE  Kept
    BY <1>1, <2>2, CommitRunPreserves DEF Current
  <2> QED
    BY <1>1, <2>1, <2>2
    DEF Next, RunStep, vars, BeginRun, RetireVectors, FinishDelete, LoadStale, EmbedBatch,
        BatchFails, AbortRun, CreateFaq, UpdateFaq, DeleteFaq, RestoreFaq, Write
<1> QED
  BY <1>1, FaqInvariantHolds, PTL DEF Spec, CurrentLeftAlone
=============================================================================
