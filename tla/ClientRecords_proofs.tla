------------------------- MODULE ClientRecords_proofs -----------------------
(***************************************************************************)
(* Proofs about what is kept of a client - Documents, Assignments and      *)
(* Profile - for every number of overlapping requests, files, users and    *)
(* fields: each has an inductive invariant, from which its safety          *)
(* properties follow.                                                      *)
(***************************************************************************)
EXTENDS MCClientRecords, TLAPS

(***************************************************************************)
(* Documents                                                               *)
(***************************************************************************)

LEMMA InitDocuments == DocumentsInit => DocumentsInvariant
<1> SUFFICES ASSUME DocumentsInit PROVE DocumentsInvariant
  OBVIOUS
<1>1. docs \in Seq(Document) /\ Len(docs) = 0 /\ DocumentIds = {} /\ Listed = {}
  BY DEF DocumentsInit, DocumentIds, Listed
<1>2. /\ \A r \in Requests : inflight[r] = None
      /\ inflight \in [Requests -> Upload \cup {None}]
  BY DEF DocumentsInit
<1>3. DocumentsTypeOK
  BY <1>1, <1>2, DocumentsAssumption DEF DocumentsInit, DocumentsTypeOK
<1>4. UploadsKnow /\ FilesPut /\ GoneIsReplaced /\ HistoryChained /\ ChainOrdered
  BY <1>1, <1>2 DEF UploadsKnow, FilesPut, Stored, GoneIsReplaced, HistoryChained, ChainOrdered
<1> QED
  BY <1>3, <1>4 DEF DocumentsInvariant

\* The rows are numbered as they were committed.
LEMMA RowsNumbered ==
  ASSUME DocumentsTypeOK
  PROVE  /\ DocumentIds = 1 .. Len(docs) /\ Len(docs) \in Nat
         /\ \A i \in DocumentIds : docs[i] \in Document
         /\ Listed \subseteq DocumentIds
  BY DEF DocumentsTypeOK, DocumentIds, Listed

\* An upload that is not at its commit may be changed in every way but its file:
\* the properties of the committed rows do not depend on it.
LEMMA SlotChanges ==
  ASSUME DocumentsInvariant, NEW r \in Requests, NEW h \in Upload \cup {None},
         inflight' = [inflight EXCEPT ![r] = h], ~ UploadAt(r, "commit"),
         h # None => Knows(h),
         UNCHANGED <<docs, raced, torn>>
  PROVE  /\ inflight' \in [Requests -> Upload \cup {None}]
         /\ inflight'[r] = h /\ \A q \in Requests \ {r} : inflight'[q] = inflight[q]
         /\ UploadsKnow' /\ HistoryChained' /\ ChainOrdered'
         /\ objects \subseteq objects' => GoneIsReplaced'
<1> USE DEF DocumentsInvariant
<1>1. /\ inflight' \in [Requests -> Upload \cup {None}]
      /\ inflight'[r] = h /\ \A q \in Requests \ {r} : inflight'[q] = inflight[q]
  BY DEF DocumentsTypeOK
<1>2. UploadsKnow'
  BY <1>1 DEF UploadsKnow, Knows, DocumentIds, Listed
<1>3. HistoryChained' /\ ChainOrdered'
  BY DEF HistoryChained, ChainOrdered, DocumentIds, Listed
<1>4. ASSUME objects \subseteq objects'
      PROVE  GoneIsReplaced'
  BY <1>1, <1>4 DEF GoneIsReplaced, UploadAt, DocumentIds
<1> QED
  BY <1>1, <1>2, <1>3, <1>4

\* An upload starts from the newest listed version, or from none.
LEMMA BeginStorePreserves ==
  ASSUME DocumentsInvariant, NEW r \in Requests, NEW previous,
         \/ previous = None /\ Listed = {}
         \/ previous \in Newest,
         BeginStore(r, previous)
  PROVE  DocumentsInvariant'
<1> USE DEF DocumentsInvariant
<1>1. PICK keep \in BOOLEAN :
        inflight' = [inflight EXCEPT ![r] =
          [pc |-> "put", previous |-> previous,
           version |-> IF previous = None THEN 1 ELSE docs[previous].version + 1,
           keep |-> keep, key |-> 0, known |-> Len(docs)]]
  BY DEF BeginStore
<1> DEFINE h == [pc |-> "put", previous |-> previous,
                 version |-> IF previous = None THEN 1 ELSE docs[previous].version + 1,
                 keep |-> keep, key |-> 0, known |-> Len(docs)]
<1>2. /\ previous = None \/ previous \in Listed
      /\ previous # None => /\ previous \in DocumentIds /\ previous \in Nat
                            /\ docs[previous].version \in Nat \ {0}
      /\ Len(docs) \in Nat
  BY RowsNumbered DEF Newest, Document
<1>3. h \in Upload
  BY <1>2 DEF Upload
<1>4. Knows(h)
  <2> SUFFICES ASSUME NEW i \in Listed
               PROVE  /\ previous # None
                      /\ docs[i].version <= docs[previous].version
                      /\ raced = {} => i <= previous
    BY <1>2 DEF Knows
  <2>1. previous \in Newest /\ docs[i].version <= docs[previous].version
    BY DEF Newest
  <2>2. previous # None
    BY <2>1, RowsNumbered, DocumentsAssumption DEF Newest
  <2>3. ASSUME raced = {}, ~ (i <= previous)
        PROVE  FALSE
    <3>1. /\ i \in DocumentIds /\ i \in Nat /\ previous \in Listed /\ previous \in Nat
          /\ docs[i].version \in Nat /\ docs[previous].version \in Nat
      BY <1>2, <2>2, RowsNumbered DEF Document
    <3>2. docs[previous].version < docs[i].version
      BY <2>3, <3>1 DEF HistoryChained
    <3> QED
      BY <2>1, <3>1, <3>2
  <2> QED
    BY <2>1, <2>2, <2>3
<1>5. inflight[r] = None /\ UNCHANGED <<docs, objects, puts, raced, torn>>
  BY DEF BeginStore
<1>6. inflight' = [inflight EXCEPT ![r] = h] /\ h.pc = "put"
  BY <1>1
<1> HIDE DEF h
<1>7. /\ inflight' \in [Requests -> Upload \cup {None}]
      /\ inflight'[r] = h /\ \A q \in Requests \ {r} : inflight'[q] = inflight[q]
      /\ UploadsKnow' /\ HistoryChained' /\ ChainOrdered' /\ GoneIsReplaced'
  BY <1>3, <1>4, <1>5, <1>6, SlotChanges DEF UploadAt
<1>8. DocumentsTypeOK'
  BY <1>5, <1>7 DEF DocumentsTypeOK, DocumentIds
<1>9. FilesPut'
  BY <1>5, <1>6, <1>7 DEF FilesPut, Stored, DocumentIds
<1> QED
  BY <1>7, <1>8, <1>9

\* The file is there before the row that names it, under a key nobody else has.
LEMMA PutFilePreserves ==
  ASSUME DocumentsInvariant, NEW r \in Requests, PutFile(r)
  PROVE  DocumentsInvariant'
<1> USE DEF DocumentsInvariant
<1> DEFINE old == inflight[r]
           pc == IF ~ old.keep /\ old.previous # None THEN "erase" ELSE "commit"
           h == [old EXCEPT !.key = puts', !.pc = pc]
<1>1. /\ UploadAt(r, "put") /\ old \in Upload /\ Knows(old) /\ old.pc = "put"
  BY DEF PutFile, UploadAt, UploadsKnow, DocumentsTypeOK
<1>2. /\ puts \in Nat /\ puts' = puts + 1 /\ puts' \in 0 .. MaxPuts
      /\ objects' = objects \cup {puts'}
      /\ UNCHANGED <<docs, raced, torn>>
  BY DocumentsAssumption DEF PutFile, DocumentsTypeOK
<1>3. inflight' = [inflight EXCEPT ![r] = h]
  BY <1>1 DEF PutFile, DocumentsTypeOK
<1>4. h \in Upload /\ h.key = puts' /\ h.pc = pc
  <2>1. pc \in {"erase", "commit"} /\ puts' \in Nat
    BY <1>2
  <2> HIDE DEF pc
  <2> QED
    BY <1>1, <2>1 DEF Upload
<1>5. Knows(h)
  BY <1>1 DEF Knows, Upload
<1> HIDE DEF h
<1>6. /\ inflight' \in [Requests -> Upload \cup {None}]
      /\ inflight'[r] = h /\ \A q \in Requests \ {r} : inflight'[q] = inflight[q]
      /\ UploadsKnow' /\ HistoryChained' /\ ChainOrdered' /\ GoneIsReplaced'
  BY <1>1, <1>2, <1>3, <1>4, <1>5, SlotChanges DEF UploadAt
<1>7. DocumentsTypeOK'
  <2>1. /\ 1 .. puts \subseteq 1 .. puts' /\ puts' \in 1 .. puts'
        /\ objects \subseteq 1 .. puts /\ \A i \in DocumentIds : docs[i].key \in 1 .. puts
    BY <1>2 DEF DocumentsTypeOK
  <2>2. objects' \subseteq 1 .. puts' /\ \A i \in DocumentIds : docs[i].key \in 1 .. puts'
    BY <1>2, <2>1
  <2> QED
    BY <1>2, <1>6, <2>2 DEF DocumentsTypeOK, DocumentIds
<1>8. FilesPut'
  <2>1. \A i \in DocumentIds : docs[i].key # puts'
    BY <1>2 DEF DocumentsTypeOK
  <2>2. \A q \in Requests : Stored(q) => inflight[q].key # puts'
    BY <1>2 DEF FilesPut, DocumentsTypeOK
  <2> QED
    BY <1>2, <1>4, <1>6, <2>1, <2>2 DEF FilesPut, Stored, DocumentIds
<1> QED
  BY <1>6, <1>7, <1>8

\* Overwriting takes the file of a version that the upload is about to replace.
LEMMA EraseFilePreserves ==
  ASSUME DocumentsInvariant, NEW r \in Requests, EraseFile(r)
  PROVE  DocumentsInvariant'
<1> USE DEF DocumentsInvariant
<1> DEFINE old == inflight[r]
           h == [old EXCEPT !.pc = "commit"]
<1>1. /\ UploadAt(r, "erase") /\ old \in Upload /\ Knows(old) /\ old.pc = "erase"
  BY DEF EraseFile, UploadAt, UploadsKnow, DocumentsTypeOK
<1>2. /\ ~ old.keep /\ old.previous \in DocumentIds
      /\ objects' \in {objects, objects \ {docs[old.previous].key}}
      /\ UNCHANGED <<docs, puts, raced, torn>>
  BY <1>1 DEF Knows, EraseFile
<1>3. inflight' = [inflight EXCEPT ![r] = h]
  BY <1>1 DEF EraseFile, DocumentsTypeOK
<1>4. /\ h \in Upload /\ h.pc = "commit" /\ h.key = old.key
      /\ h.previous = old.previous /\ ~ h.keep
  BY <1>1, <1>2 DEF Upload
<1>5. Knows(h)
  BY <1>1 DEF Knows, Upload
<1>6. h # None
  BY <1>4, UploadAssumption
<1> HIDE DEF h
<1>7. /\ inflight' \in [Requests -> Upload \cup {None}]
      /\ inflight'[r] = h /\ \A q \in Requests \ {r} : inflight'[q] = inflight[q]
      /\ UploadsKnow' /\ HistoryChained' /\ ChainOrdered'
  BY <1>1, <1>2, <1>3, <1>4, <1>5, SlotChanges DEF UploadAt
<1>8. DocumentsTypeOK'
  BY <1>2, <1>7 DEF DocumentsTypeOK, DocumentIds
<1>9. FilesPut'
  <2>1. /\ \A q \in Requests : Stored(q)' <=> Stored(q)
        /\ \A q \in Requests : Stored(q) => inflight'[q].key = inflight[q].key
    BY <1>1, <1>4, <1>6, <1>7 DEF Stored, UploadAt
  <2>2. \A q \in Requests : Stored(q) => inflight[q].key \in objects'
    BY <1>2 DEF FilesPut
  <2> QED
    BY <1>2, <2>1, <2>2 DEF FilesPut, DocumentIds
<1>10. GoneIsReplaced'
  <2> SUFFICES ASSUME NEW i \in DocumentIds \ torn, docs[i].key \notin objects'
               PROVE  \/ docs[i].archived /\ \E j \in DocumentIds : docs[j].supersedes = i
                      \/ \E q \in Requests : /\ UploadAt(q, "commit")'
                                             /\ ~ inflight'[q].keep /\ inflight'[q].previous = i
    BY <1>2 DEF GoneIsReplaced, DocumentIds
  <2>1. CASE i = old.previous
    BY <2>1, <1>4, <1>6, <1>7 DEF UploadAt
  <2>2. CASE i # old.previous
    <3>1. docs[i].key \notin objects
      BY <1>2, <2>2 DEF DocumentsTypeOK
    <3> QED
      BY <3>1, <1>1, <1>7 DEF GoneIsReplaced, UploadAt
  <2> QED
    BY <2>1, <2>2
<1> QED
  BY <1>7, <1>8, <1>9, <1>10

-----------------------------------------------------------------------------
\* A commit keeps every row but for the archiving of the one it overwrites, and
\* adds its own after them.
LEMMA RowsInserted ==
  ASSUME DocumentsInvariant, NEW h \in Upload, Knows(h), NEW row \in Document,
         InsertDocument(h, row)
  PROVE  /\ docs' \in Seq(Document)
         /\ Len(docs') = Len(docs) + 1 /\ DocumentIds' = 1 .. (Len(docs) + 1)
         /\ docs'[Len(docs) + 1] = row
         /\ \A i \in DocumentIds :
              /\ docs'[i].version = docs[i].version
              /\ docs'[i].supersedes = docs[i].supersedes
              /\ docs'[i].key = docs[i].key
              /\ docs'[i].archived <=> docs[i].archived \/ (~ h.keep /\ i = h.previous)
<1> DEFINE kept == [i \in DocumentIds |-> IF ~ h.keep /\ i = h.previous
                                            THEN [docs[i] EXCEPT !.archived = TRUE]
                                            ELSE docs[i]]
<1>1. /\ DocumentIds = 1 .. Len(docs) /\ Len(docs) \in Nat
      /\ \A i \in DocumentIds : docs[i] \in Document
  BY RowsNumbered DEF DocumentsInvariant
<1>2. \A i \in DocumentIds :
        /\ kept[i] \in Document
        /\ kept[i].version = docs[i].version
        /\ kept[i].supersedes = docs[i].supersedes
        /\ kept[i].key = docs[i].key
        /\ kept[i].archived <=> docs[i].archived \/ (~ h.keep /\ i = h.previous)
  BY <1>1 DEF Document
<1>3. docs' = Append(kept, row)
  BY DEF InsertDocument
<1>4. DOMAIN kept = 1 .. Len(docs)
  BY <1>1
<1> HIDE DEF kept
<1>5. kept = [i \in 1 .. Len(docs) |-> kept[i]]
  BY <1>1, <1>4 DEF kept
<1>6. kept \in Seq(Document) /\ Len(kept) = Len(docs)
  <2>1. kept \in [1 .. Len(docs) -> Document]
    BY <1>1, <1>2, <1>5
  <2> QED
    BY <1>1, <1>4, <2>1
<1>7. /\ docs' \in Seq(Document) /\ Len(docs') = Len(docs) + 1
      /\ docs'[Len(docs) + 1] = row
      /\ \A i \in 1 .. Len(docs) : docs'[i] = kept[i]
  BY <1>1, <1>3, <1>6
<1>8. DocumentIds' = 1 .. (Len(docs) + 1)
  BY <1>1, <1>7 DEF DocumentIds
<1> QED
  BY <1>1, <1>2, <1>7, <1>8

\* The new row is numbered above the version it was begun from, and the old one
\* leaves the list with the file it lost.
LEMMA CommitUploadPreserves ==
  ASSUME DocumentsInvariant, NEW r \in Requests, CommitUpload(r)
  PROVE  DocumentsInvariant'
<1> USE DEF DocumentsInvariant
<1>0. PICK type \in DocTypes :
        InsertDocument(inflight[r], NewDocument(inflight[r], type, inflight[r].version))
  BY DEF CommitUpload
<1> DEFINE h == inflight[r]
           n == Len(docs) + 1
           row == NewDocument(h, type, h.version)
<1>1. /\ h \in Upload /\ Knows(h) /\ UploadAt(r, "commit") /\ h # None /\ h.pc = "commit"
      /\ InsertDocument(h, row)
  BY <1>0 DEF CommitUpload, UploadAt, UploadsKnow, DocumentsTypeOK
<1>2. /\ inflight' \in [Requests -> Upload \cup {None}] /\ inflight'[r] = None
      /\ \A q \in Requests \ {r} : inflight'[q] = inflight[q]
  BY DEF CommitUpload, FreeUpload, DocumentsTypeOK
<1>3. /\ h.key \in objects /\ objects \subseteq 1 .. puts /\ puts \in Nat
      /\ UNCHANGED <<objects, puts, torn>>
      /\ raced' = IF h.known < Len(docs) THEN raced \cup {n} ELSE raced
  BY <1>1 DEF FilesPut, Stored, DocumentsTypeOK, InsertDocument
<1>4. row \in Document
  BY <1>1 DEF NewDocument, Document, Upload
<1>5. /\ row.version = h.version /\ row.supersedes = h.previous /\ row.key = h.key
      /\ ~ row.archived
  BY DEF NewDocument
<1>6. /\ Len(docs) \in Nat /\ DocumentIds = 1 .. Len(docs) /\ Listed \subseteq DocumentIds
      /\ \A i \in DocumentIds : docs[i] \in Document
  BY RowsNumbered
<1>7. /\ docs' \in Seq(Document) /\ Len(docs') = n /\ DocumentIds' = DocumentIds \cup {n}
      /\ n \notin DocumentIds /\ n \in Nat /\ docs'[n] = row
      /\ \A i \in DocumentIds :
           /\ docs'[i].version = docs[i].version
           /\ docs'[i].supersedes = docs[i].supersedes
           /\ docs'[i].key = docs[i].key
           /\ docs'[i].archived <=> docs[i].archived \/ (~ h.keep /\ i = h.previous)
  <2> HIDE DEF row, h
  <2> QED
    BY <1>1, <1>4, <1>6, RowsInserted
<1>8. Listed' \subseteq Listed \cup {n}
  BY <1>7 DEF Listed
<1>9. /\ h.known \in Nat /\ h.known <= Len(docs)
      /\ h.previous # None =>
           h.previous \in DocumentIds /\ h.version = docs[h.previous].version + 1
      /\ \A i \in Listed : i <= h.known =>
           /\ h.previous # None
           /\ docs[i].version <= docs[h.previous].version
           /\ raced = {} => i <= h.previous
  BY <1>1 DEF Knows, Upload
<1>10. \A j \in DocumentIds : docs[j].supersedes # None => docs[j].supersedes \in DocumentIds
  BY <1>6 DEF ChainOrdered
<1> HIDE DEF row, h, n
<1>11. DocumentsTypeOK'
  <2>1. raced' \subseteq DocumentIds' /\ torn' \subseteq DocumentIds'
    BY <1>3, <1>7 DEF DocumentsTypeOK
  <2>2. \A i \in DocumentIds' : docs'[i].key \in 1 .. puts'
    <3>1. (\A i \in DocumentIds : docs[i].key \in 1 .. puts) /\ objects \subseteq 1 .. puts
      BY DEF DocumentsTypeOK
    <3> QED
      BY <3>1, <1>3, <1>5, <1>7
  <2>3. \A i \in DocumentIds : docs[i].key # h.key
    BY <1>1 DEF FilesPut, Stored, h
  <2>4. \A i, j \in DocumentIds' : docs'[i].key = docs'[j].key => i = j
    BY <2>3, <1>5, <1>7 DEF DocumentsTypeOK
  <2> QED
    BY <1>2, <1>3, <1>7, <2>1, <2>2, <2>4 DEF DocumentsTypeOK
<1>12. UploadsKnow'
  <2> SUFFICES ASSUME NEW q \in Requests, inflight'[q] # None PROVE Knows(inflight[q])'
    BY DEF UploadsKnow
  <2>1. q # r /\ inflight'[q] = inflight[q] /\ inflight[q] \in Upload /\ Knows(inflight[q])
    BY <1>2 DEF UploadsKnow, DocumentsTypeOK
  <2>2. raced' = {} => raced = {}
    BY <1>3
  <2> DEFINE k == inflight[q]
  <2>3. /\ k.known \in Nat /\ k.known <= Len(docs)
        /\ k.previous # None =>
             k.previous \in DocumentIds /\ k.version = docs[k.previous].version + 1
        /\ k.pc = "erase" => ~ k.keep /\ k.previous # None
        /\ \A i \in Listed : i <= k.known =>
             /\ k.previous # None
             /\ docs[i].version <= docs[k.previous].version
             /\ raced = {} => i <= k.previous
    BY <2>1 DEF Knows, Upload
  <2>4. \A i \in Listed' : i <= k.known => i \in Listed /\ i \in DocumentIds
    BY <1>6, <1>7, <1>8, <2>3 DEF n
  <2> HIDE DEF k
  <2>5. /\ k.known <= Len(docs')
        /\ k.previous # None =>
             k.previous \in DocumentIds' /\ k.version = docs'[k.previous].version + 1
    BY <1>6, <1>7, <2>3 DEF n
  <2>6. \A i \in Listed' : i <= k.known =>
             /\ k.previous # None
             /\ docs'[i].version <= docs'[k.previous].version
             /\ raced' = {} => i <= k.previous
    BY <1>7, <2>2, <2>3, <2>4
  <2>7. inflight'[q] = k
    BY <2>1 DEF k
  <2> QED
    BY <2>3, <2>5, <2>6, <2>7 DEF Knows
<1>13. FilesPut'
  <2> SUFFICES ASSUME NEW q \in Requests, Stored(q)'
               PROVE  /\ inflight'[q].key \in objects'
                      /\ \A i \in DocumentIds' : docs'[i].key # inflight'[q].key
                      /\ \A p \in Requests :
                           Stored(p)' /\ inflight'[p].key = inflight'[q].key => p = q
    BY DEF FilesPut
  <2>1. q # r /\ Stored(q) /\ inflight'[q] = inflight[q]
    BY <1>2 DEF Stored
  <2>2. \A p \in Requests : Stored(p)' => Stored(p) /\ inflight'[p] = inflight[p]
    BY <1>2 DEF Stored
  <2>3. Stored(r) /\ inflight[q].key # h.key
    BY <2>1, <1>1 DEF FilesPut, Stored, h
  <2> QED
    BY <2>1, <2>2, <2>3, <1>3, <1>5, <1>7 DEF FilesPut
<1>14. GoneIsReplaced'
  <2> SUFFICES ASSUME NEW i \in DocumentIds' \ torn, docs'[i].key \notin objects
               PROVE  \/ docs'[i].archived /\ \E j \in DocumentIds' : docs'[j].supersedes = i
                      \/ \E q \in Requests : /\ UploadAt(q, "commit")'
                                             /\ ~ inflight'[q].keep /\ inflight'[q].previous = i
    BY <1>3 DEF GoneIsReplaced
  <2>1. i \in DocumentIds /\ docs[i].key \notin objects
    BY <1>3, <1>5, <1>7
  <2>2. CASE docs[i].archived /\ \E j \in DocumentIds : docs[j].supersedes = i
    BY <2>1, <2>2, <1>7
  <2>3. CASE \E q \in Requests : /\ UploadAt(q, "commit") /\ ~ inflight[q].keep
                                 /\ inflight[q].previous = i
    <3>1. PICK q \in Requests : UploadAt(q, "commit") /\ ~ inflight[q].keep
                                /\ inflight[q].previous = i
      BY <2>3
    <3>2. CASE q = r
      BY <3>1, <3>2, <2>1, <1>5, <1>7 DEF h
    <3>3. CASE q # r
      BY <3>1, <3>3, <1>2 DEF UploadAt
    <3> QED
      BY <3>2, <3>3
  <2> QED
    BY <2>1, <2>2, <2>3 DEF GoneIsReplaced
<1>15. HistoryChained'
  <2> SUFFICES ASSUME NEW j \in DocumentIds' \ raced', NEW i \in Listed', i < j
               PROVE  /\ docs'[i].version < docs'[j].version
                      /\ docs'[j].supersedes # None
                      /\ docs'[i].version <= docs'[docs'[j].supersedes].version
    BY DEF HistoryChained
  <2>1. CASE j = n
    <3>1. i \in Listed /\ i \in DocumentIds /\ i <= h.known
      BY <2>1, <1>3, <1>6, <1>7, <1>8, <1>9 DEF n
    <3>2. /\ h.previous # None /\ h.previous \in DocumentIds
          /\ docs[i].version <= docs[h.previous].version
          /\ h.version = docs[h.previous].version + 1
      BY <3>1, <1>9
    <3>3. docs[i].version \in Nat /\ docs[h.previous].version \in Nat
      BY <3>1, <3>2, <1>6 DEF Document
    <3>4. docs[i].version < docs[h.previous].version + 1
      BY <3>2, <3>3
    <3>5. docs'[j].version = h.version /\ docs'[j].supersedes = h.previous
      BY <2>1, <1>5, <1>7
    <3>6. /\ docs'[i].version = docs[i].version
          /\ docs'[h.previous].version = docs[h.previous].version
      BY <3>1, <3>2, <1>7
    <3> QED
      BY <3>2, <3>4, <3>5, <3>6
  <2>2. CASE j # n
    <3>1. j \in DocumentIds \ raced /\ i \in Listed /\ i \in DocumentIds
      BY <2>2, <1>3, <1>6, <1>7, <1>8 DEF n
    <3>2. /\ docs[i].version < docs[j].version
          /\ docs[j].supersedes # None
          /\ docs[i].version <= docs[docs[j].supersedes].version
      BY <3>1 DEF HistoryChained
    <3> QED
      BY <3>1, <3>2, <1>7, <1>10
  <2> QED
    BY <2>1, <2>2
<1>16. ChainOrdered'
  <2> SUFFICES ASSUME NEW j \in DocumentIds'
               PROVE  /\ docs'[j].supersedes # None => docs'[j].supersedes \in 1 .. (j - 1)
                      /\ raced' = {} => \A i \in Listed' : i < j =>
                           docs'[j].supersedes # None /\ i <= docs'[j].supersedes
    BY DEF ChainOrdered
  <2>1. CASE j = n
    <3>1. h.previous # None => h.previous \in 1 .. (n - 1)
      BY <1>6, <1>9 DEF n
    <3>2. ASSUME raced' = {}, NEW i \in Listed', i < j
          PROVE  h.previous # None /\ i <= h.previous
      <4>1. raced = {} /\ ~ (h.known < Len(docs))
        BY <3>2, <1>3
      <4>2. i \in Listed /\ i \in DocumentIds /\ i <= h.known
        BY <4>1, <2>1, <3>2, <1>6, <1>7, <1>8, <1>9 DEF n
      <4> QED
        BY <4>1, <4>2, <1>9
    <3> QED
      BY <2>1, <3>1, <3>2, <1>5, <1>7
  <2>2. CASE j # n
    <3>1. j \in DocumentIds /\ (raced' = {} => raced = {})
      BY <2>2, <1>3, <1>7
    <3>2. \A i \in Listed' : i < j => i \in Listed
      BY <3>1, <1>6, <1>8 DEF n
    <3> QED
      BY <3>1, <3>2, <1>7 DEF ChainOrdered
  <2> QED
    BY <2>1, <2>2
<1> QED
  BY <1>11, <1>12, <1>13, <1>14, <1>15, <1>16

\* An upload that fails after its erasure leaves a torn file behind.
LEMMA AbortUploadPreserves ==
  ASSUME DocumentsInvariant, NEW r \in Requests, AbortUpload(r)
  PROVE  DocumentsInvariant'
<1> USE DEF DocumentsInvariant
<1> DEFINE h == inflight[r]
           erased == /\ h.pc = "commit" /\ ~ h.keep /\ h.previous # None
                     /\ docs[h.previous].key \notin objects
<1>1. /\ h # None /\ h \in Upload /\ Knows(h)
      /\ torn' = IF erased THEN torn \cup {h.previous} ELSE torn
      /\ UNCHANGED <<docs, objects, puts, raced>>
  BY DEF AbortUpload, DocumentsTypeOK, UploadsKnow
<1>2. /\ inflight' \in [Requests -> Upload \cup {None}] /\ inflight'[r] = None
      /\ \A q \in Requests \ {r} : inflight'[q] = inflight[q]
  BY DEF AbortUpload, FreeUpload, DocumentsTypeOK
<1>3. h.previous # None => h.previous \in DocumentIds
  BY <1>1 DEF Knows
<1> HIDE DEF h
<1>4. DocumentsTypeOK'
  BY <1>1, <1>2, <1>3 DEF DocumentsTypeOK, DocumentIds
<1>5. UploadsKnow'
  BY <1>1, <1>2 DEF UploadsKnow, Knows, DocumentIds, Listed
<1>6. FilesPut'
  BY <1>1, <1>2 DEF FilesPut, Stored, DocumentIds
<1>7. GoneIsReplaced'
  <2> SUFFICES ASSUME NEW i \in DocumentIds \ torn', docs[i].key \notin objects
               PROVE  \/ docs[i].archived /\ \E j \in DocumentIds : docs[j].supersedes = i
                      \/ \E q \in Requests : /\ UploadAt(q, "commit")'
                                             /\ ~ inflight'[q].keep /\ inflight'[q].previous = i
    BY <1>1 DEF GoneIsReplaced, DocumentIds
  <2>1. ~ (UploadAt(r, "commit") /\ ~ h.keep /\ h.previous = i)
    <3> SUFFICES ASSUME h.pc = "commit", ~ h.keep, h.previous = i PROVE FALSE
      BY DEF UploadAt, h
    <3>1. i # None
      BY RowsNumbered, DocumentsAssumption
    <3> QED
      BY <3>1, <1>1
  <2>2. i \notin torn
    BY <1>1
  <2> QED
    BY <2>1, <2>2, <1>2 DEF GoneIsReplaced, UploadAt, h
<1>8. HistoryChained' /\ ChainOrdered'
  BY <1>1 DEF HistoryChained, ChainOrdered, DocumentIds, Listed
<1> QED
  BY <1>4, <1>5, <1>6, <1>7, <1>8

\* Archiving takes a row off the list and touches no file.
LEMMA ArchiveDocumentPreserves ==
  ASSUME DocumentsInvariant, NEW i \in DocumentIds, ArchiveDocument(i)
  PROVE  DocumentsInvariant'
<1> USE DEF DocumentsInvariant
<1>1. /\ docs' = [docs EXCEPT ![i].archived = TRUE]
      /\ UNCHANGED <<objects, puts, inflight, raced, torn>>
  BY DEF ArchiveDocument
<1>2. /\ DocumentIds = 1 .. Len(docs) /\ Len(docs) \in Nat
      /\ \A j \in DocumentIds : docs[j] \in Document
      /\ docs \in Seq(Document)
  BY RowsNumbered DEF DocumentsTypeOK
<1>3. /\ docs' \in Seq(Document) /\ Len(docs') = Len(docs) /\ DocumentIds' = DocumentIds
      /\ \A j \in DocumentIds :
           /\ docs'[j].version = docs[j].version
           /\ docs'[j].supersedes = docs[j].supersedes
           /\ docs'[j].key = docs[j].key
           /\ docs[j].archived => docs'[j].archived
  <2> DEFINE row == [docs[i] EXCEPT !.archived = TRUE]
  <2>1. /\ row \in Document /\ row.archived
        /\ row.version = docs[i].version /\ row.supersedes = docs[i].supersedes
        /\ row.key = docs[i].key
    BY <1>2 DEF Document
  <2>2. docs' = [docs EXCEPT ![i] = row]
    BY <1>1
  <2> HIDE DEF row
  <2>3. /\ docs' \in Seq(Document) /\ Len(docs') = Len(docs)
        /\ \A j \in 1 .. Len(docs) : docs'[j] = IF j = i THEN row ELSE docs[j]
    BY <1>2, <2>1, <2>2
  <2>4. DocumentIds' = DocumentIds
    BY <1>2, <2>3 DEF DocumentIds
  <2> QED
    BY <1>2, <2>1, <2>3, <2>4
<1>4. Listed' \subseteq Listed
  BY <1>3 DEF Listed
<1>5. DocumentsTypeOK'
  BY <1>1, <1>3 DEF DocumentsTypeOK
<1>6. UploadsKnow'
  <2> SUFFICES ASSUME NEW q \in Requests, inflight[q] # None PROVE Knows(inflight[q])'
    BY <1>1 DEF UploadsKnow
  <2>1. Knows(inflight[q])
    BY DEF UploadsKnow
  <2> DEFINE k == inflight[q]
  <2>2. inflight'[q] = k
    BY <1>1
  <2> HIDE DEF k
  <2>3. Knows(k)
    BY <2>1 DEF k
  <2> QED
    BY <1>1, <1>2, <1>3, <1>4, <2>2, <2>3 DEF Knows, Listed
<1>7. FilesPut'
  BY <1>1, <1>3 DEF FilesPut, Stored
<1>8. GoneIsReplaced'
  BY <1>1, <1>3 DEF GoneIsReplaced, UploadAt
<1>9. HistoryChained'
  <2>1. \A j \in DocumentIds : docs[j].supersedes # None => docs[j].supersedes \in DocumentIds
    BY <1>2 DEF ChainOrdered
  <2> QED
    BY <2>1, <1>1, <1>2, <1>3, <1>4 DEF HistoryChained, Listed
<1>10. ChainOrdered'
  BY <1>1, <1>3, <1>4 DEF ChainOrdered
<1> QED
  BY <1>5, <1>6, <1>7, <1>8, <1>9, <1>10

LEMMA NextDocuments ==
  DocumentsInvariant /\ [DocumentsNext]_documentsVars => DocumentsInvariant'
<1> SUFFICES ASSUME DocumentsInvariant, [DocumentsNext]_documentsVars PROVE DocumentsInvariant'
  OBVIOUS
<1>1. ASSUME NEW r \in Requests, BeginUpload(r)
      PROVE  DocumentsInvariant'
  BY <1>1, BeginStorePreserves DEF BeginUpload
<1>2. ASSUME NEW r \in Requests, PutFile(r)
      PROVE  DocumentsInvariant'
  BY <1>2, PutFilePreserves
<1>3. ASSUME NEW r \in Requests, EraseFile(r)
      PROVE  DocumentsInvariant'
  BY <1>3, EraseFilePreserves
<1>4. ASSUME NEW r \in Requests, CommitUpload(r)
      PROVE  DocumentsInvariant'
  BY <1>4, CommitUploadPreserves
<1>5. ASSUME NEW r \in Requests, AbortUpload(r)
      PROVE  DocumentsInvariant'
  BY <1>5, AbortUploadPreserves
<1>6. ASSUME NEW i \in DocumentIds, ArchiveDocument(i)
      PROVE  DocumentsInvariant'
  BY <1>6, ArchiveDocumentPreserves
<1>7. CASE UNCHANGED documentsVars
  BY <1>7 DEF documentsVars, DocumentsInvariant, DocumentsTypeOK, UploadsKnow, Knows, FilesPut,
       Stored, GoneIsReplaced, UploadAt, HistoryChained, ChainOrdered, DocumentIds, Listed
<1> QED
  BY <1>1, <1>2, <1>3, <1>4, <1>5, <1>6, <1>7 DEF DocumentsNext

\* However uploads and archives overlap, fail or stop half-way, the rows, the
\* files and what every upload knows of them stay in step.
THEOREM DocumentsInvariantHolds == DocumentsSpec => []DocumentsInvariant
  BY InitDocuments, NextDocuments, PTL DEF DocumentsSpec

\* document_service.store: a file is destroyed only for a version that replaces
\* it, however many uploads of that name run at once.
THEOREM FilesGoneAreReplaced == DocumentsSpec => []GoneIsReplaced
<1>1. DocumentsInvariant => GoneIsReplaced
  BY DEF DocumentsInvariant
<1> QED
  BY <1>1, DocumentsInvariantHolds, PTL

\* _previous_version and store: each upload that saw what was committed before it
\* has a higher version than any of it, and points back at the latest.
THEOREM HistoryIsChained == DocumentsSpec => []HistoryChained
<1>1. DocumentsInvariant => HistoryChained
  BY DEF DocumentsInvariant
<1> QED
  BY <1>1, DocumentsInvariantHolds, PTL

\* A row that is not archived and is not the last is replaced by the very next row:
\* if a list shows it as current, that one is not in the list.
LEMMA CurrentFromInvariant == DocumentsInvariant => CurrentIsNewest
<1> SUFFICES ASSUME DocumentsInvariant, raced = {}, NEW listing \in Listings,
                    NEW i \in Current(listing), ~ docs[i].archived,
                    NEW j \in listing, ~ (j <= i)
             PROVE  \E k \in DocumentIds \ listing : docs[k].supersedes = i
  BY DEF CurrentIsNewest
<1> USE DEF DocumentsInvariant
<1>1. DocumentIds = 1 .. Len(docs) /\ Len(docs) \in Nat
  BY RowsNumbered
<1>2. listing \subseteq DocumentIds
  BY DEF Listings
<1>3. i \in listing /\ i \in DocumentIds /\ j \in DocumentIds /\ i \in Listed /\ i # None
  BY <1>1, <1>2, DocumentsAssumption DEF Current, Listed
<1>4. i + 1 \in DocumentIds /\ i < i + 1
  BY <1>1, <1>3
<1>5. docs[i + 1].supersedes = i
  <2>1. /\ docs[i + 1].supersedes # None /\ i <= docs[i + 1].supersedes
        /\ docs[i + 1].supersedes \in 1 .. ((i + 1) - 1)
    BY <1>3, <1>4 DEF ChainOrdered
  <2> QED
    BY <2>1, <1>1, <1>3
<1>6. i + 1 \notin listing
  BY <1>3, <1>5 DEF Current, Superseded
<1> QED
  BY <1>4, <1>5, <1>6

\* Whatever my_documents and list_documents are asked to list, they show as current,
\* of the rows that are not archived, none but the last, as long as its
\* replacement is in the list and every upload has seen the others.
THEOREM CurrentVersions == DocumentsSpec => []CurrentIsNewest
  BY CurrentFromInvariant, DocumentsInvariantHolds, PTL

-----------------------------------------------------------------------------
(***************************************************************************)
(* Profile                                                                 *)
(***************************************************************************)

LEMMA InitProfile == ProfileInit => ProfileInvariant
<1> SUFFICES ASSUME ProfileInit PROVE ProfileInvariant
  OBVIOUS
<1>1. /\ profile = [k \in Keys |-> None] /\ answered = profile /\ overlapped = {}
      /\ saves = [r \in Requests |-> None] /\ None \in Held
  BY DEF ProfileInit, Held
<1> QED
  BY <1>1 DEF ProfileInvariant, ProfileTypeOK, SavesEdited, ValuesKept

\* A slot changes, to a save that is as it should be or to none.
LEMMA SaveSlotChanges ==
  ASSUME ProfileInvariant, NEW r \in Requests, NEW h, saves' = [saves EXCEPT ![r] = h],
         h # None =>
           /\ h \in Save
           /\ \A k \in DOMAIN h.given \cap ExtraKeys : h.json[k] = h.given[k]
           /\ \A k \in ExtraKeys \ DOMAIN h.given : h.json[k] = h.loaded[k],
         profile' \in [Keys -> Held], answered' \in [Keys -> Held], overlapped' \subseteq Keys
  PROVE  ProfileTypeOK' /\ SavesEdited'
<1>1. /\ DOMAIN saves' = Requests /\ saves'[r] = h
      /\ \A q \in Requests \ {r} : saves'[q] = saves[q]
  BY DEF ProfileInvariant, SavesEdited
<1>2. ProfileTypeOK'
  BY <1>1 DEF ProfileInvariant, ProfileTypeOK
<1>3. SavesEdited'
  BY <1>1 DEF ProfileInvariant, SavesEdited
<1> QED
  BY <1>2, <1>3

\* A save knows what it loaded and what it is to change.
LEMMA BeginSavePreserves ==
  ASSUME ProfileInvariant, NEW r \in Requests,
         NEW K \in SUBSET Keys, NEW given \in [K -> Held], BeginSave(r, given, Edited(given))
  PROVE  ProfileInvariant'
<1> DEFINE h == [loaded |-> profile, given |-> given, json |-> Edited(given)]
<1>1. /\ saves' = [saves EXCEPT ![r] = h]
      /\ UNCHANGED <<profile, answered, overlapped>>
  BY DEF BeginSave
<1>2. profile \in [Keys -> Held] /\ answered \in [Keys -> Held] /\ overlapped \subseteq Keys
  BY DEF ProfileInvariant, ProfileTypeOK
<1>3. DOMAIN given = K /\ ExtraKeys \subseteq Keys
  BY DEF Keys
<1>4. Edited(given) \in [ExtraKeys -> Held]
  BY <1>2, <1>3 DEF Edited
<1>5. given \in UNION {[L -> Held] : L \in SUBSET Keys}
  OBVIOUS
<1>6. h \in Save
  BY <1>2, <1>4, <1>5 DEF Save
<1>7. /\ h.loaded = profile /\ h.given = given
      /\ \A k \in ExtraKeys : h.json[k] = IF k \in K THEN given[k] ELSE profile[k]
  BY <1>3 DEF Edited
<1> HIDE DEF h
<1>8. ProfileTypeOK' /\ SavesEdited'
  BY <1>1, <1>2, <1>3, <1>6, <1>7, SaveSlotChanges
<1>9. ValuesKept'
  BY <1>1 DEF ProfileInvariant, ValuesKept
<1> QED
  BY <1>8, <1>9 DEF ProfileInvariant

\* A save writes its own keys; another key can only go with the JSON column.
LEMMA CommitSavePreserves ==
  ASSUME ProfileInvariant, NEW r \in Requests, CommitSave(r)
  PROVE  ProfileInvariant'
<1> DEFINE h == saves[r]
           given == DOMAIN h.given
<1>1. /\ h # None /\ h \in Save
      /\ \A k \in given \cap ExtraKeys : h.json[k] = h.given[k]
      /\ \A k \in ExtraKeys \ given : h.json[k] = h.loaded[k]
  BY DEF CommitSave, ProfileInvariant, ProfileTypeOK, SavesEdited
<1>2. /\ h.loaded \in [Keys -> Held] /\ h.json \in [ExtraKeys -> Held]
      /\ given \subseteq Keys /\ \A k \in given : h.given[k] \in Held
  <2>1. PICK K \in SUBSET Keys : h.given \in [K -> Held]
    BY <1>1 DEF Save
  <2> QED
    BY <2>1, <1>1 DEF Save
<1>3. /\ profile' = [k \in Keys |-> Store(h, k)]
      /\ overlapped' = overlapped \cup {k \in ExtraKeys \cup given : profile[k] # h.loaded[k]}
      /\ answered' = [k \in Keys |->
           IF k \in overlapped' THEN None ELSE IF k \in given THEN h.given[k] ELSE answered[k]]
      /\ saves' = [saves EXCEPT ![r] = None]
  BY DEF CommitSave
<1> HIDE DEF h
<1>4. /\ profile \in [Keys -> Held] /\ answered \in [Keys -> Held] /\ overlapped \subseteq Keys
      /\ Keys = ClientColumns \cup ExtraKeys /\ None \in Held
  BY DEF ProfileInvariant, ProfileTypeOK, Keys, Held
<1>5. profile' \in [Keys -> Held]
  <2>1. \A k \in Keys : Store(h, k) \in Held
    BY <1>2, <1>4 DEF Store, Written
  <2> QED
    BY <1>3, <2>1
<1>6. answered' \in [Keys -> Held] /\ overlapped' \subseteq Keys
  BY <1>2, <1>3, <1>4
<1>7. ProfileTypeOK' /\ SavesEdited'
  BY <1>3, <1>5, <1>6, SaveSlotChanges
<1>8. ValuesKept'
  <2> SUFFICES ASSUME NEW k \in Keys, k \notin overlapped' PROVE profile'[k] = answered'[k]
    BY DEF ValuesKept
  <2>1. /\ profile[k] = answered[k] /\ profile'[k] = Store(h, k)
        /\ answered'[k] = IF k \in given THEN h.given[k] ELSE answered[k]
    BY <1>3 DEF ProfileInvariant, ValuesKept
\* It saw what it writes, or keeps in the JSON.
  <2>2. k \in ExtraKeys \cup given => profile[k] = h.loaded[k]
    BY <1>3
  <2>3. CASE k \in ClientColumns
    BY <2>1, <2>2, <2>3 DEF Store, Written
  <2>4. CASE k \notin ClientColumns
    <3>1. k \in ExtraKeys
      BY <2>4, <1>4
    <3>2. h.json[k] = IF k \in given THEN h.given[k] ELSE h.loaded[k]
      BY <3>1, <1>1 DEF h
    <3>3. Store(h, k) = h.json[k]
      BY <2>2, <2>4, <3>1, <1>2 DEF Store
    <3> QED
      BY <2>1, <2>2, <3>1, <3>2, <3>3
  <2> QED
    BY <2>3, <2>4
<1> QED
  BY <1>7, <1>8 DEF ProfileInvariant

LEMMA NextProfile == ProfileInvariant /\ [ProfileNext]_profileVars => ProfileInvariant'
<1> SUFFICES ASSUME ProfileInvariant, [ProfileNext]_profileVars PROVE ProfileInvariant'
  OBVIOUS
<1>1. ASSUME NEW r \in Requests, NEW K \in SUBSET Keys, NEW submitted \in [K -> Held],
             BeginProfileUpdate(r, submitted)
      PROVE  ProfileInvariant'
  <2>1. PICK form \in ProfileForms :
          BeginSave(r, [k \in {x \in DOMAIN submitted : form[x] # "inactive"} |-> submitted[k]],
            Edited([k \in {x \in DOMAIN submitted : form[x] # "inactive"} |-> submitted[k]]))
    BY <1>1 DEF BeginProfileUpdate
  <2> DEFINE L == {x \in DOMAIN submitted : form[x] # "inactive"}
             given == [k \in L |-> submitted[k]]
  <2>2. L \in SUBSET Keys /\ given \in [L -> Held]
    OBVIOUS
  <2>3. BeginSave(r, given, Edited(given))
    BY <2>1
  <2> HIDE DEF L, given
  <2> QED
    BY <2>2, <2>3, BeginSavePreserves
<1>2. ASSUME NEW r \in Requests, NEW K \in SUBSET Keys, NEW submitted \in [K -> Held],
             BeginClientUpdate(r, submitted)
      PROVE  ProfileInvariant'
  BY <1>2, BeginSavePreserves DEF BeginClientUpdate
<1>3. ASSUME NEW r \in Requests, CommitSave(r)
      PROVE  ProfileInvariant'
  BY <1>3, CommitSavePreserves
<1>4. ASSUME NEW r \in Requests, AbortSave(r)
      PROVE  ProfileInvariant'
  <2>1. saves' = [saves EXCEPT ![r] = None] /\ UNCHANGED <<profile, answered, overlapped>>
    BY <1>4 DEF AbortSave
  <2>2. profile \in [Keys -> Held] /\ answered \in [Keys -> Held] /\ overlapped \subseteq Keys
    BY DEF ProfileInvariant, ProfileTypeOK
  <2>3. ProfileTypeOK' /\ SavesEdited'
    BY <2>1, <2>2, SaveSlotChanges
  <2> QED
    BY <2>1, <2>3 DEF ProfileInvariant, ValuesKept
<1>5. CASE UNCHANGED profileVars
  BY <1>5 DEF profileVars, ProfileInvariant, ProfileTypeOK, SavesEdited, ValuesKept
<1> QED
  BY <1>1, <1>2, <1>3, <1>4, <1>5 DEF ProfileNext

\* profile_service.update_values and update_client: a value stays what the last
\* save that names it made it, for every set of fields, whatever forms editors
\* make and however many saves run at once.
THEOREM ProfileValuesKept == ProfileSpec => []ValuesKept
<1>1. ProfileInvariant => ValuesKept
  BY DEF ProfileInvariant
<1> QED
  BY <1>1, InitProfile, NextProfile, PTL DEF ProfileSpec

-----------------------------------------------------------------------------
(***************************************************************************)
(* Assignments                                                             *)
(***************************************************************************)

LEMMA InitAssignments == AssignmentsInit => AssignmentsInvariant
<1> SUFFICES ASSUME AssignmentsInit PROVE AssignmentsInvariant
  OBVIOUS
<1>1. /\ manager = [c \in Clients |-> None] /\ log = [c \in Clients |-> <<>>]
      /\ notes = [n \in Notes |-> None] /\ work = [r \in Requests |-> None] /\ clobbered = {}
  BY DEF AssignmentsInit
<1>2. \A r \in Requests : \A kind : ~ Doing(r, kind)
  BY <1>1 DEF Doing
<1>3. AssignmentsTypeOK
  <2>1. log \in [Clients -> Seq(Entry)]
    BY <1>1
  <2>2. \A r \in Requests : LockedBy(r) = {}
    BY <1>2 DEF LockedBy
  <2>3. manager \in [Clients -> Managers \cup {None}] /\ notes \in [Notes -> Clients \cup {None}]
    BY <1>1
  <2>4. work \in [Requests -> Assignment \cup Noting \cup {None}] /\ clobbered \subseteq Clients
    BY <1>1
  <2> QED
    BY <2>1, <2>2, <2>3, <2>4 DEF AssignmentsTypeOK
<1>4. ManagerTraced
  <2>1. [i \in DOMAIN <<>> |-> <<>>[i].new] = <<>>
    OBVIOUS
  <2>2. Follow(<<>>, None)
    BY <2>1 DEF Follow
  <2> QED
    BY <1>1, <2>2 DEF ManagerTraced
<1>5. ManagerNamed /\ NotingNamed /\ ListsOnTrack
  BY <1>1, <1>2 DEF ManagerNamed, NotingNamed, ListsOnTrack
<1> QED
  BY <1>3, <1>4, <1>5 DEF AssignmentsInvariant

\* What a request carries, by kind.
LEMMA WorkShape ==
  ASSUME AssignmentsTypeOK, NEW r \in Requests
  PROVE  /\ Doing(r, "assign") => work[r] \in Assignment
         /\ Doing(r, "note") => work[r] \in Noting
  BY DEF AssignmentsTypeOK, Doing, Assignment, Noting

\* A slot changes and nothing else: the invariant holds of what it holds now.
LEMMA WorkSlotChanges ==
  ASSUME AssignmentsInvariant, NEW r \in Requests,
         NEW h \in Assignment \cup Noting \cup {None},
         work' = [work EXCEPT ![r] = h],
         manager' = manager, log' = log, clobbered' = clobbered,
         notes' \in [Notes -> Clients \cup {None}],
         h # None /\ h.kind = "assign" =>
           /\ \A other \in Requests \ {r} : h.done \cap LockedBy(other) = {}
           /\ ListOnTrack(h),
         h # None /\ h.kind = "note" /\ ManagerClientScope = "assigned" /\ h.by \in Managers =>
           h.by \in Named(h.client)
  PROVE  AssignmentsInvariant'
<1> USE DEF AssignmentsInvariant
<1>1. /\ work' \in [Requests -> Assignment \cup Noting \cup {None}] /\ work'[r] = h
      /\ \A q \in Requests \ {r} : work'[q] = work[q]
  BY DEF AssignmentsTypeOK
<1>2. /\ \A q \in Requests \ {r} : \A kind : Doing(q, kind)' <=> Doing(q, kind)
      /\ \A kind : Doing(r, kind)' <=> h # None /\ h.kind = kind
  BY <1>1 DEF Doing
<1>3. /\ \A q \in Requests \ {r} : LockedBy(q)' = LockedBy(q)
      /\ LockedBy(r)' = IF h # None /\ h.kind = "assign" THEN h.done ELSE {}
  BY <1>1, <1>2 DEF LockedBy
<1>4. AssignmentsTypeOK'
  <2>1. \A q, p \in Requests : q # p => LockedBy(q)' \cap LockedBy(p)' = {}
    BY <1>3 DEF AssignmentsTypeOK
  <2> QED
    BY <1>1, <2>1 DEF AssignmentsTypeOK
<1>5. ManagerTraced' /\ ManagerNamed'
  BY DEF ManagerTraced, ManagerNamed, Named
<1>6. NotingNamed'
  BY <1>1, <1>2 DEF NotingNamed, Named
<1>7. ListsOnTrack'
  BY <1>1, <1>2 DEF ListsOnTrack, ListOnTrack, HeldBy
<1> QED
  BY <1>4, <1>5, <1>6, <1>7

\* A piece of work that ends, and has changed no manager, ends quietly.
LEMMA SlotFreed ==
  ASSUME AssignmentsInvariant, NEW r \in Requests, FreeWork(r),
         manager' = manager, log' = log, clobbered' = clobbered,
         notes' \in [Notes -> Clients \cup {None}]
  PROVE  AssignmentsInvariant'
  BY WorkSlotChanges DEF FreeWork

\* An assignment keeps the manager it found on the row it locks.
LEMMA BeginAssignPreserves ==
  ASSUME AssignmentsInvariant, NEW r \in Requests, NEW client \in Clients,
         NEW to \in Managers \cup {None}, BeginAssign(r, client, to)
  PROVE  AssignmentsInvariant'
<1> DEFINE h == [kind |-> "assign", pc |-> "write", list |-> None, wanted |-> {},
                 from |-> Loaded({client}), to |-> to, adds |-> {client}, drops |-> {},
                 done |-> {}, disturbed |-> FALSE]
<1>1. /\ work' = [work EXCEPT ![r] = h] /\ UNCHANGED <<manager, log, notes, clobbered>>
  BY DEF BeginAssign, StartWork
<1>2. manager \in [Clients -> Managers \cup {None}] /\ notes \in [Notes -> Clients \cup {None}]
  BY DEF AssignmentsInvariant, AssignmentsTypeOK
<1>3. Loaded({client}) \in [Clients -> Managers \cup {None}]
  BY <1>2 DEF Loaded
<1>4. h \in Assignment
  BY <1>3 DEF Assignment
<1>5. h.kind = "assign" /\ h.done = {} /\ ListOnTrack(h)
  BY DEF ListOnTrack
<1> HIDE DEF h
<1> QED
  BY <1>1, <1>2, <1>4, <1>5, WorkSlotChanges

\* A list locks nothing when it begins.
LEMMA BeginListPreserves ==
  ASSUME AssignmentsInvariant, NEW r \in Requests, NEW to \in Managers,
         NEW wanted \in SUBSET Clients, BeginList(r, to, wanted)
  PROVE  AssignmentsInvariant'
<1> DEFINE h == [kind |-> "assign", pc |-> "current", list |-> to, wanted |-> wanted,
                 from |-> Loaded(wanted), to |-> to, adds |-> {}, drops |-> {}, done |-> {},
                 disturbed |-> FALSE]
<1>1. /\ work' = [work EXCEPT ![r] = h] /\ UNCHANGED <<manager, log, notes, clobbered>>
  BY DEF BeginList, StartWork
<1>2. manager \in [Clients -> Managers \cup {None}] /\ notes \in [Notes -> Clients \cup {None}]
  BY DEF AssignmentsInvariant, AssignmentsTypeOK
<1>3. Loaded(wanted) \in [Clients -> Managers \cup {None}]
  BY <1>2 DEF Loaded
<1>4. h \in Assignment
  BY <1>3 DEF Assignment
<1>5. h.kind = "assign" /\ h.done = {} /\ ListOnTrack(h)
  BY DEF ListOnTrack
<1> HIDE DEF h
<1> QED
  BY <1>1, <1>2, <1>4, <1>5, WorkSlotChanges

\* What is to be written is the differences between the clients wanted and those
\* held.
LEMMA ReadCurrentPreserves ==
  ASSUME AssignmentsInvariant, NEW r \in Requests, ReadCurrent(r)
  PROVE  AssignmentsInvariant'
<1> DEFINE old == work[r]
           held == {c \in Clients : manager[c] = old.list}
           h == Differences(old, held)
<1>1. /\ Doing(r, "assign") /\ old \in Assignment /\ old.pc = "current" /\ ListOnTrack(old)
      /\ UNCHANGED <<manager, log, notes, clobbered>>
      /\ notes \in [Notes -> Clients \cup {None}]
  BY WorkShape DEF ReadCurrent, AssignmentsInvariant, AssignmentsTypeOK, ListsOnTrack
<1>2. FreeWork(r) \/ work' = [work EXCEPT ![r] = h]
  BY DEF ReadCurrent
<1>3. CASE FreeWork(r)
  BY <1>1, <1>3, SlotFreed
<1>4. CASE work' = [work EXCEPT ![r] = h]
  <2> DEFINE adds == old.wanted \ held
             drops == held \ old.wanted
             from == [c \in Clients |-> IF c \in adds THEN old.from[c]
                                        ELSE IF c \in drops THEN old.to ELSE None]
  <2>1. /\ old.from \in [Clients -> Managers \cup {None}] /\ old.to \in Managers \cup {None}
        /\ old.list \in Managers \cup {None} /\ old.wanted \subseteq Clients
        /\ old.kind = "assign"
    BY <1>1 DEF Assignment
  <2>2. adds \subseteq Clients /\ drops \subseteq Clients
    BY <2>1
  <2>3. from \in [Clients -> Managers \cup {None}]
    BY <2>1
  <2>4. h = [old EXCEPT !.pc = "write", !.adds = adds, !.drops = drops, !.from = from]
    BY DEF Differences, ToWrite
  <2> HIDE DEF from, h
  <2>5. /\ h \in Assignment /\ h.kind = "assign" /\ h.pc = "write" /\ h.list = old.list
        /\ h.to = old.to /\ h.wanted = old.wanted /\ h.done = old.done
        /\ h.adds = adds /\ h.drops = drops
    BY <1>1, <2>2, <2>3, <2>4 DEF Assignment
  <2>6. ListOnTrack(h)
    BY <1>1, <2>1, <2>5 DEF ListOnTrack, HeldBy
  <2>7. \A other \in Requests \ {r} : h.done \cap LockedBy(other) = {}
    BY <1>1, <2>5 DEF AssignmentsInvariant, AssignmentsTypeOK, LockedBy
  <2> QED
    BY <1>1, <1>4, <2>5, <2>6, <2>7, WorkSlotChanges
<1> QED
  BY <1>2, <1>3, <1>4

\* A list takes the next row only when nobody else has it.
LEMMA WriteRowPreserves ==
  ASSUME AssignmentsInvariant, NEW r \in Requests, NEW client \in Clients, WriteRow(r, client)
  PROVE  AssignmentsInvariant'
<1> DEFINE old == work[r]
           h == [old EXCEPT !.adds = @ \ {client}, !.drops = @ \ {client},
                            !.done = @ \cup {client}]
<1>1. /\ Doing(r, "assign") /\ old \in Assignment /\ old.pc = "write" /\ ListOnTrack(old)
      /\ client \in old.adds \/ (old.adds = {} /\ client \in old.drops)
      /\ \A other \in Requests \ {r} : client \notin LockedBy(other)
      /\ UNCHANGED <<manager, log, notes, clobbered>>
      /\ notes \in [Notes -> Clients \cup {None}]
  BY WorkShape DEF WriteRow, Upcoming, AssignmentsInvariant, AssignmentsTypeOK, ListsOnTrack
<1>2. work' = [work EXCEPT ![r] = h]
  BY <1>1 DEF WriteRow, AssignmentsInvariant, AssignmentsTypeOK
<1>3. /\ h \in Assignment /\ h.kind = "assign" /\ h.pc = "write" /\ h.list = old.list
      /\ h.to = old.to /\ h.wanted = old.wanted /\ h.disturbed = old.disturbed
      /\ h.adds = old.adds \ {client} /\ h.drops = old.drops \ {client}
      /\ h.done = old.done \cup {client}
  BY <1>1 DEF Assignment
<1> HIDE DEF h
<1>4. ListOnTrack(h)
  BY <1>1, <1>3 DEF ListOnTrack
<1>5. \A other \in Requests \ {r} : h.done \cap LockedBy(other) = {}
  BY <1>1, <1>3 DEF AssignmentsInvariant, AssignmentsTypeOK, LockedBy
<1> QED
  BY <1>1, <1>2, <1>3, <1>4, <1>5, WorkSlotChanges

\* Who may write a note about a client, when managers see only their own, is an
\* administrator, the client's manager or the client.
LEMMA ScopeOfManager ==
  ASSUME ManagerClientScope = "assigned", NEW u \in Managers, NEW c \in Clients
  PROVE  Allows(ScopeOf(u), c) <=> u \in Active /\ manager[c] = u
  BY UsersAssumption DEF Allows, ScopeOf, ResolveClientScope, OnlyClients, EveryClient

\* A manager who begins a note is in scope, and so named in the log.
LEMMA BeginNotePreserves ==
  ASSUME AssignmentsInvariant, NEW r \in Requests, NEW u \in Users, NEW note \in Notes,
         NEW client \in Clients, NEW new \in {client, None}, BeginNote(r, u, note, client, new)
  PROVE  AssignmentsInvariant'
<1> DEFINE h == [kind |-> "note", note |-> note, client |-> client, old |-> notes[note],
                 new |-> new, by |-> u]
<1>1. /\ work' = [work EXCEPT ![r] = h] /\ UNCHANGED <<manager, log, notes, clobbered>>
      /\ Allows(ScopeOf(u), client)
  BY DEF BeginNote, StartWork
<1>2. notes \in [Notes -> Clients \cup {None}]
  BY DEF AssignmentsInvariant, AssignmentsTypeOK
<1>3. h \in Noting
  BY <1>2 DEF Noting
<1>4. h.kind = "note" /\ h.by = u /\ h.client = client
  OBVIOUS
<1>5. ASSUME ManagerClientScope = "assigned", u \in Managers
      PROVE  u \in Named(client)
  <2>1. manager[client] = u
    BY <1>1, <1>5, ScopeOfManager
  <2>2. u # None
    BY AssignmentsAssumption DEF Users
  <2> QED
    BY <2>1, <2>2 DEF AssignmentsInvariant, ManagerNamed
<1> HIDE DEF h
<1> QED
  BY <1>1, <1>2, <1>3, <1>4, <1>5, WorkSlotChanges

\* A note that commits or fails leaves the log as it is.
LEMMA CommitNotePreserves ==
  ASSUME AssignmentsInvariant, NEW r \in Requests, CommitNote(r)
  PROVE  AssignmentsInvariant'
<1>1. Doing(r, "note") /\ work[r] \in Noting
  BY WorkShape DEF CommitNote, AssignmentsInvariant
<1>2. notes' \in [Notes -> Clients \cup {None}]
  BY <1>1 DEF CommitNote, AssignmentsInvariant, AssignmentsTypeOK, Noting
<1> QED
  BY <1>2, SlotFreed DEF CommitNote

\* One more entry, that starts from the holder, ends with the new one.
LEMMA EntryFollows ==
  ASSUME NEW entries \in Seq(Entry), NEW holder, Follow(entries, holder), NEW new
  PROVE  Follow(Append(entries, [old |-> holder, new |-> new]), new)
<1> DEFINE n == Len(entries)
           after == Append(entries, [old |-> holder, new |-> new])
           past == [i \in 1 .. n |-> entries[i].new]
           later == [i \in 1 .. (n + 1) |-> after[i].new]
<1>1. n \in Nat /\ DOMAIN entries = 1 .. n
  OBVIOUS
<1>2. /\ DOMAIN after = 1 .. (n + 1)
      /\ \A i \in 1 .. n : after[i] = entries[i]
      /\ after[n + 1] = [old |-> holder, new |-> new]
  BY <1>1
<1> DEFINE held == <<None>> \o past
           next == <<None>> \o later
<1> HIDE DEF n, after
<1>3. /\ Len(held) = n + 1 /\ held[1] = None
      /\ \A i \in 1 .. n : held[i + 1] = entries[i].new
  <2>1. past \in Seq({entries[i].new : i \in 1 .. n}) /\ Len(past) = n
    BY <1>1
  <2>2. \A i \in 1 .. n : past[i] = entries[i].new
    OBVIOUS
  <2> HIDE DEF past
  <2> QED
    BY <1>1, <2>1, <2>2
<1>4. /\ Len(next) = n + 2 /\ next[1] = None
      /\ \A i \in 1 .. (n + 1) : next[i + 1] = after[i].new
  <2>1. later \in Seq({after[i].new : i \in 1 .. (n + 1)}) /\ Len(later) = n + 1
    BY <1>1
  <2>2. \A i \in 1 .. (n + 1) : later[i] = after[i].new
    OBVIOUS
  <2> HIDE DEF later
  <2> QED
    BY <1>1, <2>1, <2>2
<1>5. /\ \A i \in 1 .. n : entries[i].old = held[i]
      /\ holder = held[n + 1]
  BY <1>1, <1>3 DEF Follow, n
<1> HIDE DEF held, next
<1>6. \A i \in 1 .. (n + 1) : next[i] = held[i]
  <2> SUFFICES ASSUME NEW i \in 1 .. (n + 1) PROVE next[i] = held[i]
    OBVIOUS
  <2>1. CASE i = 1
    BY <2>1, <1>3, <1>4
  <2>2. CASE i # 1
    <3>1. i - 1 \in 1 .. n /\ i - 1 \in 1 .. (n + 1) /\ (i - 1) + 1 = i
      BY <2>2, <1>1
    <3>2. next[(i - 1) + 1] = entries[i - 1].new /\ held[(i - 1) + 1] = entries[i - 1].new
      BY <3>1, <1>2, <1>3, <1>4
    <3> QED
      BY <3>1, <3>2
  <2> QED
    BY <2>1, <2>2
<1>7. \A i \in 1 .. (n + 1) : after[i].old = next[i]
  <2>1. \A i \in 1 .. n : after[i].old = next[i]
    BY <1>1, <1>2, <1>5, <1>6
  <2>2. after[n + 1].old = next[n + 1]
    BY <1>1, <1>2, <1>5, <1>6
  <2> QED
    BY <1>1, <2>1, <2>2
<1>8. next[n + 2] = new
  <2>1. n + 1 \in 1 .. (n + 1) /\ (n + 1) + 1 = n + 2
    BY <1>1
  <2> QED
    BY <2>1, <1>2, <1>4
<1> QED
  BY <1>2, <1>4, <1>7, <1>8 DEF Follow, next, after

\* The clients a finished list has to write are all written: whom it clears was
\* held and is not wanted, whom it adds is wanted and was not held.
LEMMA FinishedList ==
  ASSUME AssignmentsInvariant, NEW r \in Requests, CommitAssign(r),
         work[r].list # None, ~ work[r].disturbed
  PROVE  {c \in Clients : manager'[c] = work[r].list} = work[r].wanted
<1> DEFINE h == work[r]
           held == HeldBy(h.list)
<1>1. /\ Doing(r, "assign") /\ h \in Assignment /\ h.pc = "write" /\ ListOnTrack(h)
      /\ h.adds = {} /\ h.drops = {}
      /\ manager' = [c \in Clients |-> IF c \in h.done THEN Assigned(h, c) ELSE manager[c]]
  BY WorkShape DEF CommitAssign, Finished, Upcoming, AssignmentsInvariant, ListsOnTrack
<1>2. /\ h.to = h.list /\ h.list # None /\ h.wanted \subseteq Clients
      /\ h.done \cap h.wanted = h.wanted \ held
      /\ h.done \ h.wanted = held \ h.wanted
  BY <1>1 DEF ListOnTrack, Assignment
<1>3. held = {c \in Clients : manager[c] = h.list}
  BY DEF HeldBy
<1>4. ASSUME NEW c \in Clients
      PROVE  manager'[c] = h.list <=> c \in h.wanted
  <2>1. manager'[c] = IF c \in h.done THEN Assigned(h, c) ELSE manager[c]
    BY <1>1
  <2>2. Assigned(h, c) = IF c \in h.wanted THEN h.list ELSE None
    BY <1>2 DEF Assigned
  <2> HIDE DEF h, held
  <2> QED
    BY <2>1, <2>2, <1>2, <1>3
<1> QED
  BY <1>2, <1>4

\* What a commit writes as the previous manager is the manager there is: its row
\* has been locked since it was read.
LEMMA CommitAssignPreserves ==
  ASSUME AssignmentsInvariant, NEW r \in Requests, CommitAssign(r)
  PROVE  AssignmentsInvariant'
<1> USE DEF AssignmentsInvariant
<1> DEFINE h == work[r]
<1>1. /\ Doing(r, "assign") /\ h \in Assignment
      /\ manager' = [c \in Clients |-> IF c \in h.done THEN Assigned(h, c) ELSE manager[c]]
      /\ log' = Entries(h)
      /\ clobbered' = clobbered \cup {c \in h.done : manager[c] # h.from[c]}
      /\ work' = [q \in Requests |->
                    IF q = r THEN None
                    ELSE IF Doing(q, "assign") /\ h.done # {}
                         THEN [work[q] EXCEPT !.disturbed = TRUE]
                         ELSE work[q]]
      /\ notes' = notes
  BY WorkShape DEF CommitAssign, Finished
<1>2. /\ h.from \in [Clients -> Managers \cup {None}] /\ h.to \in Managers \cup {None}
      /\ h.done \subseteq Clients
  BY <1>1 DEF Assignment
<1>3. manager \in [Clients -> Managers \cup {None}] /\ log \in [Clients -> Seq(Entry)]
  BY DEF AssignmentsTypeOK
<1>4. \A c \in Clients : Assigned(h, c) \in Managers \cup {None}
  BY <1>2 DEF Assigned
<1> HIDE DEF h
<1>5. ASSUME NEW q \in Requests
      PROVE  /\ work'[q] \in Assignment \cup Noting \cup {None}
             /\ Doing(q, "note")' => Doing(q, "note") /\ work'[q] = work[q]
             /\ Doing(q, "assign")' => /\ Doing(q, "assign") /\ work'[q].done = work[q].done
                                       /\ h.done = {} \/ work'[q].disturbed
                                       /\ h.done = {} => work'[q] = work[q]
                                       /\ work'[q].list = work[q].list
                                       /\ work'[q].to = work[q].to
                                       /\ work'[q].pc = work[q].pc
  <2>1. CASE q = r
    BY <1>1, <2>1 DEF Doing
  <2>2. CASE q # r /\ Doing(q, "assign") /\ h.done # {}
    <3>1. work[q] \in Assignment
      BY <2>2, WorkShape
    <3>2. work'[q] = [work[q] EXCEPT !.disturbed = TRUE]
      BY <1>1, <2>2
    <3>3. work'[q] \in Assignment /\ work'[q].kind = "assign"
      BY <3>1, <3>2 DEF Assignment
    <3>4. /\ work'[q].done = work[q].done /\ work'[q].disturbed
          /\ work'[q].list = work[q].list /\ work'[q].to = work[q].to /\ work'[q].pc = work[q].pc
      BY <3>1, <3>2 DEF Assignment
    <3> QED
      BY <2>2, <3>3, <3>4 DEF Doing
  <2>3. CASE q # r /\ ~ (Doing(q, "assign") /\ h.done # {})
    <3>1. work'[q] = work[q]
      BY <1>1, <2>3
    <3> QED
      BY <2>3, <3>1 DEF Doing, AssignmentsTypeOK
  <2> QED
    BY <2>1, <2>2, <2>3
<1>6. \A c \in Clients :
        /\ manager'[c] = IF c \in h.done THEN Assigned(h, c) ELSE manager[c]
        /\ log'[c] = IF c \in h.done
                       THEN Append(log[c], [old |-> h.from[c], new |-> Assigned(h, c)])
                       ELSE log[c]
  BY <1>1 DEF Entries
<1>7. AssignmentsTypeOK'
  <2>1. manager' \in [Clients -> Managers \cup {None}]
    BY <1>1, <1>3, <1>4
  <2>2. log' \in [Clients -> Seq(Entry)]
    <3>1. \A c \in Clients : [old |-> h.from[c], new |-> Assigned(h, c)] \in Entry
      BY <1>2, <1>4 DEF Entry
    <3>2. ASSUME NEW c \in Clients
          PROVE  log'[c] \in Seq(Entry)
      <4> DEFINE entry == [old |-> h.from[c], new |-> Assigned(h, c)]
      <4>1. entry \in Entry /\ log[c] \in Seq(Entry)
        BY <1>3, <3>1
      <4>2. log'[c] = IF c \in h.done THEN Append(log[c], entry) ELSE log[c]
        BY <1>6
      <4> HIDE DEF entry
      <4> QED
        BY <4>1, <4>2
    <3>3. log' = [c \in Clients |-> log'[c]]
      BY <1>1 DEF Entries
    <3> QED
      BY <3>2, <3>3
  <2>3. work' \in [Requests -> Assignment \cup Noting \cup {None}]
    <3>1. work' = [q \in Requests |-> work'[q]]
      BY <1>1
    <3> QED
      BY <1>5, <3>1
  <2>4. \A q, p \in Requests : q # p => LockedBy(q)' \cap LockedBy(p)' = {}
    <3>1. \A q \in Requests : LockedBy(q)' \subseteq LockedBy(q)
      BY <1>5 DEF LockedBy
    <3> QED
      BY <3>1 DEF AssignmentsTypeOK
  <2>5. clobbered' \subseteq Clients /\ notes' \in [Notes -> Clients \cup {None}]
    BY <1>1, <1>2 DEF AssignmentsTypeOK
  <2> QED
    BY <2>1, <2>2, <2>3, <2>4, <2>5 DEF AssignmentsTypeOK
<1>8. ManagerTraced'
  <2> SUFFICES ASSUME NEW c \in Clients, c \notin clobbered'
               PROVE  Follow(log'[c], manager'[c])
    BY DEF ManagerTraced
  <2>1. Follow(log[c], manager[c]) /\ log[c] \in Seq(Entry)
    BY <1>1, <1>3 DEF ManagerTraced
  <2>2. CASE c \in h.done
    <3>1. h.from[c] = manager[c]
      BY <1>1, <2>2
    <3> QED
      BY <3>1, <2>1, <2>2, <1>6, EntryFollows
  <2>3. CASE c \notin h.done
    BY <2>1, <2>3, <1>6
  <2> QED
    BY <2>2, <2>3
\* Entries are only added, and the new manager is in the one added.
<1>9. \A c \in Clients : /\ Named(c) \subseteq Named(c)'
                         /\ c \in h.done => manager'[c] \in Named(c)'
  <2> SUFFICES ASSUME NEW c \in Clients
               PROVE  /\ Named(c) \subseteq Named(c)'
                      /\ c \in h.done => manager'[c] \in Named(c)'
    OBVIOUS
  <2>1. CASE c \in h.done
    <3> DEFINE entry == [old |-> h.from[c], new |-> Assigned(h, c)]
               n == Len(log[c])
    <3>1. log'[c] = Append(log[c], entry) /\ log[c] \in Seq(Entry) /\ entry.new = manager'[c]
      BY <2>1, <1>3, <1>6
    <3> HIDE DEF entry
    <3>2. /\ n \in Nat /\ DOMAIN log[c] = 1 .. n /\ DOMAIN log'[c] = 1 .. (n + 1)
          /\ \A i \in 1 .. n : log'[c][i] = log[c][i]
          /\ log'[c][n + 1] = entry
      BY <3>1
    <3>3. n + 1 \in DOMAIN log'[c] /\ DOMAIN log[c] \subseteq DOMAIN log'[c]
      BY <3>2
    <3> HIDE DEF n
    <3>4. manager'[c] \in Named(c)'
      BY <3>1, <3>2, <3>3 DEF Named
    <3>5. Named(c) \subseteq Named(c)'
      BY <3>2, <3>3 DEF Named
    <3> QED
      BY <3>4, <3>5
  <2>2. CASE c \notin h.done
    BY <2>2, <1>6 DEF Named
  <2> QED
    BY <2>1, <2>2
<1>10. ManagerNamed'
  BY <1>6, <1>9 DEF ManagerNamed
<1>11. NotingNamed'
  <2> SUFFICES ASSUME ManagerClientScope = "assigned", NEW q \in Requests, Doing(q, "note")',
                      work'[q].by \in Managers
               PROVE  work'[q].by \in Named(work[q].client)'
    BY DEF NotingNamed
  <2>1. Doing(q, "note") /\ work'[q] = work[q] /\ work[q] \in Noting
    BY <1>5, WorkShape
  <2>2. work[q].by \in Named(work[q].client) /\ work[q].client \in Clients
    BY <2>1 DEF NotingNamed, Noting
  <2>3. PICK c \in Clients : c = work[q].client
    BY <2>2
  <2>4. work'[q].by \in Named(c)' /\ work'[q].client = c
    BY <2>1, <2>2, <2>3, <1>9
  <2>5. work'[q].by \in Named(work[q].client)'
    BY <2>4 DEF Named
  <2> QED
    BY <2>5
<1>12. ListsOnTrack'
  <2> SUFFICES ASSUME NEW q \in Requests, Doing(q, "assign")' PROVE ListOnTrack(work[q])'
    BY DEF ListsOnTrack
  <2>1. Doing(q, "assign") /\ ListOnTrack(work[q])
    BY <1>5 DEF ListsOnTrack
  <2>2. CASE h.done = {}
    <3>1. manager' = manager /\ work'[q] = work[q]
      BY <2>2, <1>1, <1>3, <1>5
    <3> QED
      BY <2>1, <3>1 DEF ListOnTrack, HeldBy
  <2>3. CASE h.done # {}
    BY <2>1, <2>3, <1>5 DEF ListOnTrack
  <2> QED
    BY <2>2, <2>3
<1> QED
  BY <1>7, <1>8, <1>10, <1>11, <1>12

LEMMA NextAssignments ==
  AssignmentsInvariant /\ [AssignmentsNext]_assignmentsVars => AssignmentsInvariant'
<1> SUFFICES ASSUME AssignmentsInvariant, [AssignmentsNext]_assignmentsVars
             PROVE  AssignmentsInvariant'
  OBVIOUS
<1>1. notes \in [Notes -> Clients \cup {None}]
  BY DEF AssignmentsInvariant, AssignmentsTypeOK
<1>2. ASSUME NEW r \in Requests, NEW c \in Clients, NEW m \in Managers \cup {None},
             BeginAssign(r, c, m)
      PROVE  AssignmentsInvariant'
  BY <1>2, BeginAssignPreserves
<1>3. ASSUME NEW r \in Requests, NEW m \in Managers, NEW w \in SUBSET Clients, BeginList(r, m, w)
      PROVE  AssignmentsInvariant'
  BY <1>3, BeginListPreserves
<1>4. ASSUME NEW r \in Requests, ReadCurrent(r)
      PROVE  AssignmentsInvariant'
  BY <1>4, ReadCurrentPreserves
<1>5. ASSUME NEW r \in Requests, NEW c \in Clients, WriteRow(r, c)
      PROVE  AssignmentsInvariant'
  BY <1>5, WriteRowPreserves
<1>6. ASSUME NEW r \in Requests, CommitAssign(r)
      PROVE  AssignmentsInvariant'
  BY <1>6, CommitAssignPreserves
<1>7. ASSUME NEW r \in Requests, DeadlockVictim(r) \/ AbortWork(r)
      PROVE  AssignmentsInvariant'
  BY <1>1, <1>7, SlotFreed DEF DeadlockVictim, AbortWork
<1>8. ASSUME NEW r \in Requests, NEW u \in Users, NEW n \in Notes, NEW c \in Clients,
             NEW new \in {c, None}, BeginNote(r, u, n, c, new)
      PROVE  AssignmentsInvariant'
  BY <1>8, BeginNotePreserves
<1>9. ASSUME NEW r \in Requests, CommitNote(r)
      PROVE  AssignmentsInvariant'
  BY <1>9, CommitNotePreserves
<1>10. CASE UNCHANGED assignmentsVars
  BY <1>10 DEF assignmentsVars, AssignmentsInvariant, AssignmentsTypeOK, ManagerTraced,
       ManagerNamed, NotingNamed, Named, ListsOnTrack, ListOnTrack, HeldBy, Doing, LockedBy
<1> QED
  BY <1>2, <1>3, <1>4, <1>5, <1>6, <1>7, <1>8, <1>9, <1>10 DEF AssignmentsNext

\* Rows, entries, locks and the requests that write them stay in step, however
\* assignments overlap, wait for each other or are given up.
THEOREM AssignmentsInvariantHolds == AssignmentsSpec => []AssignmentsInvariant
  BY InitAssignments, NextAssignments, PTL DEF AssignmentsSpec

\* client_service.assign_manager: the entries of a client lead to the manager it
\* has, unless two overlapping requests wrote that manager.
THEOREM ManagersTraced == AssignmentsSpec => []ManagerTraced
<1>1. AssignmentsInvariant => ManagerTraced
  BY DEF AssignmentsInvariant
<1> QED
  BY <1>1, AssignmentsInvariantHolds, PTL

\* A manager is listed, may open and is written to about the clients assigned,
\* no other.
LEMMA SeenByManager ==
  ASSUME ManagerClientScope = "assigned", NEW u \in Managers
  PROVE  /\ Listing(u) = Opening(u)
         /\ \A c \in Clients : c \in Listing(u) \cup Mailed(u) => manager[c] = u
<1>1. Listing(u) = Opening(u) /\ \A c \in Clients : c \in Listing(u) => manager[c] = u
  <2>1. ScopeOf(u) = IF u \in Active THEN OnlyClients(HeldBy(u)) ELSE OnlyClients({})
    BY UsersAssumption DEF ScopeOf, ResolveClientScope, HeldBy
  <2>2. Apply(ScopeOf(u), Clients) = {c \in Clients : Allows(ScopeOf(u), c)}
    BY <2>1 DEF Apply, Allows, OnlyClients
  <2> QED
    BY <2>2, ScopeOfManager DEF Listing, Opening
<1>2. ASSUME NEW c \in Clients, c \in Mailed(u)
      PROVE  manager[c] = u
  <2>1. PICK e \in DOMAIN EventAudience : u \in ResolveRecipients(e, c, manager)
    BY <1>2 DEF Mailed
  <2>2. u \notin Admins /\ u # c
    BY UsersAssumption
  <2> QED
    BY <2>1, <2>2 DEF ResolveRecipients, AdminAndManager, ClientRecipient
<1> QED
  BY <1>1, <1>2

\* Being in scope, listed or written to is being the manager, whom the log names.
LEMMA AccessFromInvariant == AssignmentsInvariant => AccessTraced
<1> SUFFICES ASSUME AssignmentsInvariant, ManagerClientScope = "assigned"
             PROVE  /\ \A u \in Managers :
                         /\ Listing(u) = Opening(u)
                         /\ \A c \in Listing(u) \cup Mailed(u) : u \in Named(c)
                    /\ \A r \in Requests :
                         Doing(r, "note") /\ work[r].by \in Managers =>
                           work[r].by \in Named(work[r].client)
  BY DEF AccessTraced
<1>1. ASSUME NEW u \in Managers, NEW c \in Listing(u) \cup Mailed(u)
      PROVE  u \in Named(c)
  <2>1. c \in Clients
    BY SeenByManager DEF Opening, Mailed
  <2>2. manager[c] = u /\ u # None
    BY <2>1, SeenByManager, AssignmentsAssumption DEF Users
  <2> QED
    BY <2>1, <2>2 DEF AssignmentsInvariant, ManagerNamed
<1>2. \A r \in Requests :
        Doing(r, "note") /\ work[r].by \in Managers => work[r].by \in Named(work[r].client)
  BY DEF AssignmentsInvariant, NotingNamed
<1> QED
  BY <1>1, <1>2, SeenByManager

\* The scope of a manager, "resolved fresh": whom a manager sees, is written to
\* about or writes a note about was recorded as assigned to that manager.
THEOREM AccessIsTraced == AssignmentsSpec => []AccessTraced
  BY AccessFromInvariant, AssignmentsInvariantHolds, PTL

\* set_manager_clients: a list that nobody disturbed is exactly what its manager
\* has as it commits.
THEOREM ListsAsSaved == AssignmentsSpec => ListAsSaved
<1>1. AssignmentsInvariant /\ [AssignmentsNext]_assignmentsVars =>
        [\A r \in Requests :
           (work[r] # None /\ CommitAssign(r)) =>
             work[r].list = None \/ work[r].disturbed
               \/ {c \in Clients : manager'[c] = work[r].list} = work[r].wanted
        ]_assignmentsVars
  BY FinishedList
<1> QED
  BY <1>1, AssignmentsInvariantHolds, PTL DEF AssignmentsSpec, ListAsSaved

-----------------------------------------------------------------------------
(***************************************************************************)
(* The components side by side, as they are run                            *)
(***************************************************************************)

\* What is kept of a client has its types, whichever component is in focus.
THEOREM TypesCorrect == MCSpec => []TypesOK
<1> DEFINE Kept == DocumentsInvariant /\ AssignmentsInvariant /\ ProfileInvariant
<1>1. MCInit => Kept
  BY InitDocuments, InitAssignments, InitProfile DEF MCInit
<1>2. Kept /\ [MCNext]_mcVars => Kept'
  <2> SUFFICES ASSUME Kept, [MCNext]_mcVars PROVE Kept'
    OBVIOUS
  <2>1. /\ [DocumentsNext]_documentsVars
        /\ [AssignmentsNext]_assignmentsVars
        /\ [ProfileNext]_profileVars
    BY DEF MCNext, mcVars
  <2> QED
    BY <2>1, NextDocuments, NextAssignments, NextProfile
<1>3. Kept => TypesOK
  BY DEF TypesOK, DocumentsInvariant, AssignmentsInvariant, ProfileInvariant
<1> QED
  BY <1>1, <1>2, <1>3, PTL DEF MCSpec
=============================================================================
