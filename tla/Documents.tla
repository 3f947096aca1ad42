----------------------------- MODULE Documents ------------------------------
(***************************************************************************)
(* The documents of one client, direction and file name, and their files   *)
(* in object storage: app/services/document_service.py with the upload and *)
(* archive handlers of app/api/v1/admin/documents.py and                   *)
(* app/api/v1/portal/documents.py.                                         *)
(*                                                                         *)
(* An upload writes to two stores that share no transaction.  It loads the *)
(* version before it, puts the new file, in overwrite mode deletes the old *)
(* one, and then commits the row: a step each, since other requests run,   *)
(* and this one may fail, between any two of them.                         *)
(***************************************************************************)
EXTENDS Handlers, Naturals, Sequences

CONSTANTS
  DocTypes,   \* DocumentType
  MaxPuts     \* bound on the files put into storage

ASSUME DocumentsAssumption ==
  /\ MaxPuts \in Nat
  /\ None \notin Nat

VARIABLES
  docs,       \* the committed rows, in the order they were committed
  objects,    \* the keys that storage holds a file under
  puts,       \* files put so far: every put is under a new key
  inflight,   \* inflight[r]: the upload running in slot r, or None
  raced,      \* rows whose upload had not seen every row committed before
  torn        \* rows whose file was deleted by an upload that then failed
              \* (raced, torn and an upload's known are history variables)

documentsVars == <<docs, objects, puts, inflight, raced, torn>>

-----------------------------------------------------------------------------
DocumentIds == DOMAIN docs

Document == [doc_type: DocTypes, version: Nat \ {0}, supersedes: Nat \cup {None},
             key: Nat, archived: BOOLEAN]

\* previous: the row _previous_version returned.  keep: the setting
\* document_versioning reads "keep".  pc: what the upload does next.
Upload == [pc: {"put", "erase", "commit"}, previous: Nat \cup {None}, version: Nat \ {0},
           keep: BOOLEAN, key: Nat, known: Nat]

ASSUME UploadAssumption == None \notin Upload

Listed == {i \in DocumentIds : ~ docs[i].archived}

\* Rows _previous_version may return: the highest version that is not archived,
\* whatever its doc_type.
Newest == {i \in Listed : \A j \in Listed : docs[j].version <= docs[i].version}

\* The lists there are: my_documents shows every row that is not archived, and
\* list_documents those of one doc_type if asked to, and archived ones too.
Listings ==
  {{i \in DocumentIds : (docs[i].archived => include_archived) /\ docs[i].doc_type \in doc_types} :
     include_archived \in BOOLEAN, doc_types \in {DocTypes} \cup {{t} : t \in DocTypes}}

\* A list shows as superseded what another row of the same list replaces.
Superseded(listing) == {docs[i].supersedes : i \in listing} \ {None}

\* What it shows as current.
Current(listing) == listing \ Superseded(listing)

UploadAt(r, pc) == inflight[r] # None /\ inflight[r].pc = pc

DocumentsInit ==
  /\ docs = <<>>
  /\ objects = {}
  /\ puts = 0
  /\ inflight = [r \in Requests |-> None]
  /\ raced = {}
  /\ torn = {}

-----------------------------------------------------------------------------
\* store, up to the put.
BeginStore(r, previous) ==
  /\ inflight[r] = None
  /\ \E keep \in BOOLEAN :
       inflight' = [inflight EXCEPT ![r] =
         [pc |-> "put", previous |-> previous,
          version |-> IF previous = None THEN 1 ELSE docs[previous].version + 1,
          keep |-> keep, key |-> 0, known |-> Len(docs)]]
  /\ UNCHANGED <<docs, objects, puts, raced, torn>>

\* Deviation: any version that is not archived is taken for the latest.
BeginUploadAnyVersion(r) ==
  IF Listed = {} THEN BeginStore(r, None) ELSE \E i \in Listed : BeginStore(r, i)

BeginUpload(r) ==
  IF Listed = {} THEN BeginStore(r, None) ELSE \E i \in Newest : BeginStore(r, i)

PutFile(r) ==
  /\ UploadAt(r, "put")
  /\ puts < MaxPuts
  /\ puts' = puts + 1
  /\ objects' = objects \cup {puts'}
  /\ LET replaces == ~ inflight[r].keep /\ inflight[r].previous # None IN
       inflight' = [inflight EXCEPT ![r].key = puts',
                                    ![r].pc = IF replaces THEN "erase" ELSE "commit"]
  /\ UNCHANGED <<docs, raced, torn>>

\* Overwrite: the old file goes before the commit.  S3Storage.delete swallows
\* its errors, so it may stay.
EraseFile(r) ==
  /\ UploadAt(r, "erase")
  /\ objects' \in {objects, objects \ {docs[inflight[r].previous].key}}
  /\ inflight' = [inflight EXCEPT ![r].pc = "commit"]
  /\ UNCHANGED <<docs, puts, raced, torn>>

FreeUpload(r) == inflight' = [inflight EXCEPT ![r] = None]

\* The type the file was sent with is not looked at before.
NewDocument(h, doc_type, version) ==
  [doc_type |-> doc_type, version |-> version, supersedes |-> h.previous,
   key |-> h.key, archived |-> FALSE]

\* The new row, and with it the archiving of the row it overwrites.
InsertDocument(h, row) ==
  /\ docs' = Append([i \in DocumentIds |-> IF ~ h.keep /\ i = h.previous
                                     THEN [docs[i] EXCEPT !.archived = TRUE]
                                     ELSE docs[i]], row)
  /\ raced' = IF h.known < Len(docs) THEN raced \cup {Len(docs) + 1} ELSE raced
  /\ UNCHANGED <<objects, puts, torn>>

\* Deviation: versions count from 0.
CommitUploadFromZero(r) ==
  /\ UploadAt(r, "commit")
  /\ \E doc_type \in DocTypes :
       InsertDocument(inflight[r], NewDocument(inflight[r], doc_type, inflight[r].version - 1))
  /\ FreeUpload(r)

\* Deviation: the overwritten row is left on the list.
CommitUploadListed(r) ==
  /\ UploadAt(r, "commit")
  /\ \E doc_type \in DocTypes :
       InsertDocument([inflight[r] EXCEPT !.keep = TRUE], NewDocument(inflight[r], doc_type, inflight[r].version))
  /\ FreeUpload(r)

CommitUpload(r) ==
  /\ UploadAt(r, "commit")
  /\ \E doc_type \in DocTypes :
       InsertDocument(inflight[r], NewDocument(inflight[r], doc_type, inflight[r].version))
  /\ FreeUpload(r)

\* The put is refused, the database fails or the process stops: the row is
\* rolled back, what was done in storage is not.
AbortUpload(r) ==
  /\ inflight[r] # None
  /\ LET h == inflight[r]
         erased == /\ h.pc = "commit" /\ ~ h.keep /\ h.previous # None
                   /\ docs[h.previous].key \notin objects
     IN torn' = IF erased THEN torn \cup {h.previous} ELSE torn
  /\ FreeUpload(r)
  /\ UNCHANGED <<docs, objects, puts, raced>>

\* An archive, "rather than a destruction": one short transaction.
ArchiveDocument(i) ==
  /\ ~ docs[i].archived
  /\ docs' = [docs EXCEPT ![i].archived = TRUE]
  /\ UNCHANGED <<objects, puts, inflight, raced, torn>>

DocumentsNext ==
  \/ \E r \in Requests :
       BeginUpload(r) \/ PutFile(r) \/ EraseFile(r) \/ CommitUpload(r) \/ AbortUpload(r)
  \/ \E i \in DocumentIds : ArchiveDocument(i)

DocumentsSpec == DocumentsInit /\ [][DocumentsNext]_documentsVars

-----------------------------------------------------------------------------
(***************************************************************************)
(* Properties                                                              *)
(***************************************************************************)

\* The variables keep their shape; no two rows share a file, and every version
\* is 1 or more.
DocumentsTypeOK ==
  /\ docs \in Seq(Document)
  /\ puts \in 0 .. MaxPuts
  /\ objects \subseteq 1 .. puts
  /\ inflight \in [Requests -> Upload \cup {None}]
  /\ raced \subseteq DocumentIds
  /\ torn \subseteq DocumentIds
  /\ \A i \in DocumentIds : docs[i].key \in 1 .. puts
  /\ \A i, j \in DocumentIds : docs[i].key = docs[j].key => i = j

\* "an overwrite silently destroys the version someone may have already relied
\* on": a file is gone only when a committed later version took its row off
\* the list, or while the upload that does so is between the two - or when
\* that upload failed there.
GoneIsReplaced ==
  \A i \in DocumentIds \ torn : docs[i].key \notin objects =>
    \/ docs[i].archived /\ \E j \in DocumentIds : docs[j].supersedes = i
    \/ \E r \in Requests : UploadAt(r, "commit") /\ ~ inflight[r].keep /\ inflight[r].previous = i

\* Every upload continues the history: its version is above every listed
\* earlier one, and it points back at the latest of them - unless another was
\* committed after it had looked for the previous version.
HistoryChained ==
  \A j \in DocumentIds \ raced : \A i \in Listed : i < j =>
    /\ docs[i].version < docs[j].version
    /\ docs[j].supersedes # None
    /\ docs[i].version <= docs[docs[j].supersedes].version

\* "True when a newer version of the same filename exists": in no list does a row
\* that is not archived read as current beside one uploaded after it - unless the
\* row that replaces it is left out of that list, being archived or of another
\* doc_type, or some upload had not seen another.
CurrentIsNewest ==
  raced = {} =>
    \A listing \in Listings : \A i \in Current(listing) :
      \/ docs[i].archived
      \/ \A j \in listing : j <= i
      \/ \E j \in DocumentIds \ listing : docs[j].supersedes = i

-----------------------------------------------------------------------------
(***************************************************************************)
(* The inductive invariant behind the properties.                          *)
(***************************************************************************)

\* What an upload found as it began still bounds the rows that are listed of
\* those it knew.
Knows(h) ==
  /\ h.known <= Len(docs)
  /\ h.previous # None => /\ h.previous \in DocumentIds
                          /\ h.version = docs[h.previous].version + 1
  /\ h.pc = "erase" => ~ h.keep /\ h.previous # None
  /\ \A i \in Listed : i <= h.known =>
       /\ h.previous # None
       /\ docs[i].version <= docs[h.previous].version
       /\ raced = {} => i <= h.previous

UploadsKnow == \A r \in Requests : inflight[r] # None => Knows(inflight[r])

\* The file an upload has put is there, and nobody else's.
Stored(r) == inflight[r] # None /\ inflight[r].pc # "put"

FilesPut ==
  \A r \in Requests : Stored(r) =>
    /\ inflight[r].key \in objects
    /\ \A i \in DocumentIds : docs[i].key # inflight[r].key
    /\ \A q \in Requests : Stored(q) /\ inflight[q].key = inflight[r].key => q = r

\* A row replaces an earlier one, and none that is still listed lies between.
ChainOrdered ==
  \A j \in DocumentIds :
    /\ docs[j].supersedes # None => docs[j].supersedes \in 1 .. (j - 1)
    /\ raced = {} =>
         \A i \in Listed : i < j => docs[j].supersedes # None /\ i <= docs[j].supersedes

DocumentsInvariant ==
  DocumentsTypeOK /\ UploadsKnow /\ FilesPut /\ GoneIsReplaced /\ HistoryChained /\ ChainOrdered
=============================================================================
