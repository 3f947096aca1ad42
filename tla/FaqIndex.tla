------------------------------ MODULE FaqIndex ------------------------------
(***************************************************************************)
(* FAQ entries and their vectors: app/services/rag/indexer.py, run nightly *)
(* by Celery and by hand from scripts/run_job.py, against the admin's      *)
(* edits of app/api/v1/admin/faq.py.                                       *)
(*                                                                         *)
(* A run is one READ COMMITTED transaction that lasts as long as its calls *)
(* to the embedding API.  Its DELETEs take row locks at once and are       *)
(* visible to others at the commit; its INSERTs and UPDATEs are only       *)
(* flushed by the commit (the session does not autoflush).  An admin's     *)
(* write is one short transaction, and one step.                           *)
(***************************************************************************)
EXTENDS Naturals, FiniteSets

CONSTANTS
  Entries,      \* FAQ entries
  Jobs,         \* concurrent runs of the re-index job
  BatchSize,    \* BATCH_SIZE
  None,         \* no entry, no run, SQL NULL
  MaxClock,     \* bound on the number of admin writes
  MaxFailures   \* bound on failed embedding calls and aborted runs

ASSUME ConstantsAssumption ==
  /\ BatchSize \in Nat \ {0}
  /\ MaxClock \in Nat
  /\ MaxFailures \in Nat

VARIABLES
  clock,      \* the database clock: the timestamp of the latest admin write
  entries,    \* entries[e]: the committed row
  vectors,    \* the committed rows of faq_embeddings
  run,        \* run[j]: the transaction of job j, or None
  failures,   \* failed calls and runs so far
  raced       \* entries written, or claimed by a second run, while a run had
              \* them loaded (history variable)

vars == <<clock, entries, vectors, run, failures, raced>>

-----------------------------------------------------------------------------
(* The rows.  A text is named by the instant it was written at. *)

Entry == [text: Nat, published: BOOLEAN, deleted: BOOLEAN,
          updated: Nat, indexed: Nat \cup {None}]

\* A vector: the entry it belongs to, the text it was computed from and when
\* the run that stored it began.
Vector == [faq: Entries, text: Nat, at: Nat, job: Jobs]

Exists(e) == entries[e] # None

\* What retrieval.search joins against: neither deleted nor unpublished.
Live(e) == Exists(e) /\ entries[e].published /\ ~ entries[e].deleted

Stale(e) ==
  /\ Live(e)
  /\ entries[e].indexed = None \/ entries[e].updated > entries[e].indexed

VectorsOf(e) == {v \in vectors : v.faq = e}

Retired(e) == Exists(e) /\ ~ Live(e) /\ VectorsOf(e) # {}

\* Chat finds entry e under its present wording.
Findable(e) == \E v \in VectorsOf(e) : v.text = entries[e].text

\* Entry e is marked as indexed although it was written, or claimed by a second
\* run, while a run worked on it: what it is found under may not be its wording.
Overtaken(e) == e \in raced /\ ~ Stale(e)

-----------------------------------------------------------------------------
(* The transaction of a run. *)

Phase == {"retire", "retiring", "load", "embed", "replacing", "commit"}

\* began: now() for the whole transaction.  retired: what _retired_entry_ids
\* returned.  loaded: the text each stale entry was loaded with.
\* todo: entries not yet sent to the API.  embedded: entries that have a new
\* vector.  locking: the rows a DELETE in progress selected.  doomed: the rows
\* deleted so far.
Run == [pc: Phase, began: Nat, retired: SUBSET Entries,
        loaded: [Entries -> Nat \cup {None}],
        todo: SUBSET Entries, embedded: SUBSET Entries,
        locking: SUBSET Vector, doomed: SUBSET Vector]

\* No row and no run is None.
ASSUME NoneAssumption == None \notin Nat /\ None \notin Entry \cup Run

At(j, pc) == run[j] # None /\ run[j].pc = pc

\* Job j works on entry e: it will delete or replace its vectors.
Claims(j, e) ==
  /\ run[j] # None
  /\ \/ run[j].pc \in {"retire", "retiring"} /\ e \in run[j].retired
     \/ run[j].loaded[e] # None

\* The entries among S that a run other than j works on too.
Shared(j, S) == {e \in S : \E k \in Jobs \ {j} : Claims(k, e)}

\* A row another transaction has deleted and not committed cannot be locked.
Free(j) ==
  \A k \in Jobs \ {j} : run[k] # None => run[k].doomed \cap run[j].locking = {}

\* Deviation: the run takes its timestamp from a clock that is ahead.
BeginRunAhead(j) ==
  /\ run[j] = None
  /\ LET retired == {e \in Entries : Retired(e)}
     IN /\ run' = [run EXCEPT ![j] =
             [pc |-> IF retired = {} THEN "load" ELSE "retire",
              began |-> clock + 1, retired |-> retired,
              loaded |-> [e \in Entries |-> None],
              todo |-> {}, embedded |-> {}, locking |-> {}, doomed |-> {}]]
        /\ raced' = raced \cup Shared(j, retired)
  /\ UNCHANGED <<clock, entries, vectors, failures>>

\* Deviation: only deleted entries lose their vectors, not unpublished ones.
BeginRunDeletedOnly(j) ==
  /\ run[j] = None
  /\ LET retired == {e \in Entries : Retired(e) /\ entries[e].deleted}
     IN /\ run' = [run EXCEPT ![j] =
             [pc |-> IF retired = {} THEN "load" ELSE "retire",
              began |-> clock, retired |-> retired,
              loaded |-> [e \in Entries |-> None],
              todo |-> {}, embedded |-> {}, locking |-> {}, doomed |-> {}]]
        /\ raced' = raced \cup Shared(j, retired)
  /\ UNCHANGED <<clock, entries, vectors, failures>>

\* reindex begins: the entries that have vectors and should not.
BeginRun(j) ==
  /\ run[j] = None
  /\ LET retired == {e \in Entries : Retired(e)}
     IN /\ run' = [run EXCEPT ![j] =
             [pc |-> IF retired = {} THEN "load" ELSE "retire",
              began |-> clock, retired |-> retired,
              loaded |-> [e \in Entries |-> None],
              todo |-> {}, embedded |-> {}, locking |-> {}, doomed |-> {}]]
        /\ raced' = raced \cup Shared(j, retired)
  /\ UNCHANGED <<clock, entries, vectors, failures>>

\* The DELETE of their vectors begins: it sees what is committed now.
RetireVectors(j) ==
  /\ At(j, "retire")
  /\ run' = [run EXCEPT ![j].pc = "retiring",
                        ![j].locking = UNION {VectorsOf(e) : e \in run[j].retired}]
  /\ UNCHANGED <<clock, entries, vectors, failures, raced>>

\* Deviation: the vectors of an edited entry are appended, not replaced.
FinishDeleteAppend(j) ==
  /\ At(j, "retiring") \/ At(j, "replacing")
  /\ Free(j)
  /\ run' = [run EXCEPT
       ![j].pc = IF @ = "retiring" THEN "load"
                 ELSE IF run[j].todo = {} THEN "commit" ELSE "embed",
       ![j].doomed = IF run[j].pc = "retiring" THEN @ \cup run[j].locking ELSE @,
       ![j].locking = {}]
  /\ UNCHANGED <<clock, entries, vectors, failures, raced>>

\* The DELETE has its row locks: rows that went meanwhile are passed over.
FinishDelete(j) ==
  /\ At(j, "retiring") \/ At(j, "replacing")
  /\ Free(j)
  /\ run' = [run EXCEPT
       ![j].pc = IF @ = "retiring" THEN "load"
                 ELSE IF run[j].todo = {} THEN "commit" ELSE "embed",
       ![j].doomed = @ \cup (run[j].locking \cap vectors),
       ![j].locking = {}]
  /\ UNCHANGED <<clock, entries, vectors, failures, raced>>

\* Deviation: the whole pool is embedded again, every night.
LoadAll(j) ==
  /\ At(j, "load")
  /\ LET stale == {e \in Entries : Live(e)}
     IN /\ run' = [run EXCEPT ![j].pc = IF stale = {} THEN "commit" ELSE "embed",
                              ![j].loaded = [e \in Entries |->
                                IF e \in stale THEN entries[e].text ELSE None],
                              ![j].todo = stale]
        /\ raced' = (raced \ stale) \cup Shared(j, stale)
  /\ UNCHANGED <<clock, entries, vectors, failures>>

\* _stale_entries.
LoadStale(j) ==
  /\ At(j, "load")
  /\ LET stale == {e \in Entries : Stale(e)}
     IN /\ run' = [run EXCEPT ![j].pc = IF stale = {} THEN "commit" ELSE "embed",
                              ![j].loaded = [e \in Entries |->
                                IF e \in stale THEN entries[e].text ELSE None],
                              ![j].todo = stale]
        /\ raced' = (raced \ stale) \cup Shared(j, stale)
  /\ UNCHANGED <<clock, entries, vectors, failures>>

\* The next entries to send.  The code takes them in the order of updated_at;
\* any order is a batch here.
Batches(j) ==
  {B \in SUBSET run[j].todo :
     Cardinality(B) = IF Cardinality(run[j].todo) < BatchSize
                        THEN Cardinality(run[j].todo) ELSE BatchSize}

\* The API has answered: the batch's old vectors are deleted and its new ones
\* added to the session.
EmbedBatch(j) ==
  /\ At(j, "embed")
  /\ \E B \in Batches(j) :
       run' = [run EXCEPT ![j].pc = "replacing",
                          ![j].todo = @ \ B,
                          ![j].embedded = @ \cup B,
                          ![j].locking = (UNION {VectorsOf(e) : e \in B}) \ run[j].doomed]
  /\ UNCHANGED <<clock, entries, vectors, failures, raced>>

\* The API has failed three times: the batch stays stale, the run goes on.
BatchFails(j) ==
  /\ At(j, "embed")
  /\ failures < MaxFailures
  /\ failures' = failures + 1
  /\ \E B \in Batches(j) :
       run' = [run EXCEPT ![j].pc = IF run[j].todo = B THEN "commit" ELSE "embed",
                          ![j].todo = @ \ B]
  /\ UNCHANGED <<clock, entries, vectors, raced>>

NewVectors(j) ==
  {[faq |-> e, text |-> run[j].loaded[e], at |-> run[j].began, job |-> j] :
     e \in run[j].embedded}

\* Deviation: an entry whose batch failed is marked as indexed too.
CommitRunMarksAll(j) ==
  /\ At(j, "commit")
  /\ vectors' = (vectors \ run[j].doomed) \cup NewVectors(j)
  /\ entries' = [e \in Entries |->
       IF run[j].loaded[e] # None
         THEN [entries[e] EXCEPT !.indexed = run[j].began,
                                 !.updated = run[j].began]
         ELSE entries[e]]
  /\ run' = [run EXCEPT ![j] = None]
  /\ UNCHANGED <<clock, failures, raced>>

\* The flush and the commit.  The UPDATE that sets indexed_at carries the
\* mapper's onupdate, updated_at = now(); the trigger leaves a row alone when
\* only indexed_at changed, so both columns become the start of the run.
CommitRun(j) ==
  /\ At(j, "commit")
  /\ vectors' = (vectors \ run[j].doomed) \cup NewVectors(j)
  /\ entries' = [e \in Entries |->
       IF e \in run[j].embedded
         THEN [entries[e] EXCEPT !.indexed = run[j].began,
                                 !.updated = run[j].began]
         ELSE entries[e]]
  /\ run' = [run EXCEPT ![j] = None]
  /\ UNCHANGED <<clock, failures, raced>>

\* No API key, a lost connection, the task's time limit, a restarted worker or
\* a database deadlock: the transaction is rolled back.
AbortRun(j) ==
  /\ run[j] # None
  /\ failures < MaxFailures
  /\ failures' = failures + 1
  /\ run' = [run EXCEPT ![j] = None]
  /\ UNCHANGED <<clock, entries, vectors, raced>>

-----------------------------------------------------------------------------
(* The admin's writes.  The trigger dates each with clock_timestamp(). *)

\* Row e becomes entry; a run that has the old row loaded does not notice.
Write(e, entry) ==
  /\ clock < MaxClock
  /\ clock' = clock + 1
  /\ entries' = [entries EXCEPT ![e] = [entry EXCEPT !.updated = clock + 1]]
  /\ raced' = IF \E j \in Jobs : Claims(j, e) THEN raced \cup {e} ELSE raced
  /\ UNCHANGED <<vectors, run, failures>>

CreateFaq(e, published) ==
  /\ ~ Exists(e)
  /\ Write(e, [text |-> clock + 1, published |-> published, deleted |-> FALSE,
               updated |-> clock + 1, indexed |-> None])

\* update_faq: a new wording or not, published or not (a deleted entry may be
\* edited too; a change of category alone still moves updated_at).
UpdateFaq(e, published) ==
  /\ Exists(e)
  /\ \E text \in {entries[e].text, clock + 1} :
       Write(e, [entries[e] EXCEPT !.text = text, !.published = published])

DeleteFaq(e) ==
  /\ Exists(e)
  /\ Write(e, [entries[e] EXCEPT !.deleted = TRUE, !.published = FALSE])

\* Restoring brings an entry back unpublished.
RestoreFaq(e) ==
  /\ Exists(e)
  /\ entries[e].deleted \/ entries[e].indexed # None
  /\ Write(e, [entries[e] EXCEPT !.deleted = FALSE, !.indexed = None])

-----------------------------------------------------------------------------
Init ==
  /\ clock = 0
  /\ entries = [e \in Entries |-> None]
  /\ vectors = {}
  /\ run = [j \in Jobs |-> None]
  /\ failures = 0
  /\ raced = {}

RunStep(j) ==
  \/ RetireVectors(j)
  \/ FinishDelete(j)
  \/ LoadStale(j)
  \/ EmbedBatch(j)
  \/ CommitRun(j)

Next ==
  \/ \E j \in Jobs : BeginRun(j) \/ RunStep(j) \/ BatchFails(j) \/ AbortRun(j)
  \/ \E e \in Entries :
       \/ \E published \in BOOLEAN :
            CreateFaq(e, published) \/ UpdateFaq(e, published)
       \/ DeleteFaq(e)
       \/ RestoreFaq(e)

Spec == Init /\ [][Next]_vars

\* Beat starts a run every night, and a run that is not refused a lock goes on.
FairSpec ==
  /\ Spec
  /\ \A j \in Jobs : WF_vars(BeginRun(j)) /\ WF_vars(RunStep(j))

-----------------------------------------------------------------------------
(***************************************************************************)
(* Properties                                                              *)
(***************************************************************************)

\* Rows, vectors and runs keep their shape, and a run dates its work by the
\* database's clock, never ahead of it.
TypeOK ==
  /\ clock \in Nat
  /\ entries \in [Entries -> Entry \cup {None}]
  /\ vectors \subseteq Vector
  /\ run \in [Jobs -> Run \cup {None}]
  /\ failures \in 0 .. MaxFailures
  /\ raced \subseteq Entries
  /\ \A j \in Jobs : run[j] # None => run[j].began <= clock

\* An entry that chat can find and that is not waiting to be embedded has
\* exactly one vector, computed from its present wording - unless it was
\* edited, or claimed by a second run, while a run had it loaded.
IndexedUnlessRaced ==
  \A e \in Entries \ raced :
    Live(e) /\ ~ Stale(e) =>
      \E v \in vectors : VectorsOf(e) = {v} /\ v.text = entries[e].text

\* "current -> left completely alone": no step changes the vectors of an entry
\* that is live and not stale.
CurrentLeftAlone ==
  [][\A e \in Entries :
       Live(e) /\ ~ Stale(e) /\ e \notin raced => VectorsOf(e)' = VectorsOf(e)]_vars

\* "a late edit cannot sit unindexed": whatever batches and runs fail and however
\* two runs overlap, chat finds a live entry under its present wording in the end,
\* or it is not live any more - unless it was overtaken.
CatchesUp ==
  \A e \in Entries :
    Live(e) /\ ~ Findable(e) ~> Findable(e) \/ ~ Live(e) \/ Overtaken(e)

\* The vectors of a deleted or unpublished entry are eventually removed, those
\* a run adds after the deletion included.
OrphansRemoved == \A e \in Entries : Retired(e) ~> ~ Retired(e)

\* What update_faq's comment says of an edit: updated_at "moves ahead of
\* indexed_at, which is exactly what marks the entry stale for the next
\* incremental run".  So an entry whose wording is not the one its vectors
\* were computed from is stale.  The commit of a run breaks it.
EditMarksStale ==
  \A e \in Entries :
    Live(e) /\ (\E v \in VectorsOf(e) : v.text # entries[e].text) => Stale(e)
-----------------------------------------------------------------------------
(***************************************************************************)
(* The inductive invariant behind them: an entry that is not raced is      *)
(* worked on by one run at most, which finds it as it loaded it, and a run *)
(* deletes no vector of an entry that is up to date.                       *)
(***************************************************************************)

Current(e) == Live(e) /\ ~ Stale(e)

Loads(j, e) == run[j].loaded[e] # None

\* A run holds what its step says: it has loaded nothing before it loads, sends
\* what it has loaded, and a DELETE is after the vectors it was issued for.
RunsInOrder ==
  \A j \in Jobs : run[j] # None =>
    /\ \A e \in run[j].embedded \cup run[j].todo : Loads(j, e)
    /\ \A e \in Entries : Loads(j, e) =>
         Exists(e) /\ run[j].pc \notin {"retire", "retiring", "load"}
    /\ \A v \in run[j].locking :
         \/ run[j].pc = "retiring" /\ v.faq \in run[j].retired
         \/ run[j].pc = "replacing" /\ v.faq \in run[j].embedded

\* A row lock is held by one run, on a row that is there.
LocksExclude ==
  \A j \in Jobs : run[j] # None =>
    /\ run[j].doomed \subseteq vectors
    /\ \A k \in Jobs \ {j} : run[k] # None => run[j].doomed \cap run[k].doomed = {}

\* Nothing was indexed in the future.
IndexedByNow == \A e \in Entries : Exists(e) /\ entries[e].indexed # None => entries[e].indexed <= clock

ClaimedOnce ==
  \A e \in Entries \ raced, j, k \in Jobs : Claims(j, e) /\ Claims(k, e) => j = k

\* What a run works on is still as the run found it.
ClaimsStand ==
  \A e \in Entries \ raced, j \in Jobs : Claims(j, e) =>
    /\ run[j].pc \in {"retire", "retiring"} => ~ Live(e)
    /\ Loads(j, e) => Stale(e) /\ run[j].loaded[e] = entries[e].text
    /\ e \in run[j].embedded => VectorsOf(e) \subseteq run[j].doomed \cup run[j].locking

NoneCurrentDoomed ==
  \A j \in Jobs : run[j] # None =>
    \A v \in run[j].doomed \cup run[j].locking : v.faq \in raced \/ ~ Current(v.faq)

FaqInvariant ==
  /\ TypeOK /\ RunsInOrder /\ LocksExclude /\ IndexedByNow
  /\ ClaimedOnce /\ ClaimsStand /\ NoneCurrentDoomed
  /\ IndexedUnlessRaced
=============================================================================
