------------------------------ MODULE Content -------------------------------
(***************************************************************************)
(* Website content, and how a new release of the code brings it up to      *)
(* date: the editors of app/api/v1/admin/content.py, the seeder of         *)
(* app/seeds/run.py, and the migrations that change rows an earlier        *)
(* release has seeded, which scripts/update.py runs first.                 *)
(*                                                                         *)
(* A row has a natural key, by which seeds and migrations find it.  That of*)
(* a block or a legal page is unique and fixed, and that of a form field   *)
(* unique; a strength's title or a contact's label are anything an editor  *)
(* enters.                                                                 *)
(***************************************************************************)
EXTENDS Handlers, Naturals, Sequences, FiniteSets, Functions

CONSTANTS
  ContentKeys,   \* natural keys
  UniqueKeys,    \* those of them that no two rows share
  FixedKeys,     \* those of them that editors can not change
  Wordings,      \* what the value or the detail of a row may say
  Releases,      \* the releases of the code, in order: what each one seeds,
                 \* and how its migrations change and add to what is there
  MaxRows,       \* bound on the rows
  MaxRewordings  \* bound on what editors do

VARIABLES
  contents,    \* the rows
  code,        \* the release of the code that is installed
  revision,    \* the release that the database has been migrated to
  seeding,     \* seeding[r]: the keys that the seeder in slot r found missing, or None
  rewordings,  \* how often editors changed something
  wrote        \* history: wrote[id] is what editors wrote into the row, by column

contentVars == <<contents, code, revision, seeding, rewordings, wrote>>

-----------------------------------------------------------------------------
RowIds == 1 .. MaxRows

Wording == Wordings \cup {None}

\* value: a title, a label, a text or an address; detail: a help text or an icon.
Wanted == [value: Wording, detail: Wording, is_published: BOOLEAN]

Row == [id: RowIds, key: ContentKeys, value: Wording, detail: Wording, is_published: BOOLEAN]

Columns == {"key", "value", "detail", "is_published"}

\* A change is made to the row with the key if the guard column holds old.  The
\* first release is seeded whole, and there are finitely many keys.
ASSUME ContentAssumption ==
  /\ FixedKeys \subseteq UniqueKeys /\ UniqueKeys \subseteq ContentKeys
  /\ IsFiniteSet(ContentKeys)
  /\ MaxRows \in Nat /\ MaxRewordings \in Nat
  /\ Len(Releases) \in Nat \ {0} /\ DOMAIN Releases = 1 .. Len(Releases)
  /\ \A n \in DOMAIN Releases :
       /\ \E K \in SUBSET ContentKeys : Releases[n].seeds \in [K -> Wanted]
       /\ \E K \in SUBSET UniqueKeys : Releases[n].inserts \in [K -> Wanted]
       /\ \A i \in DOMAIN Releases[n].changes :
            LET change == Releases[n].changes[i] IN
              /\ change.key \in ContentKeys /\ change.guard \in {"value", "detail"}
              /\ change.old \in Wording /\ DOMAIN change.new \subseteq Columns \ {"key"}
              /\ \A column \in DOMAIN change.new :
                   change.new[column] \in IF column = "is_published" THEN BOOLEAN ELSE Wording
  /\ Cardinality(DOMAIN Releases[1].seeds) <= MaxRows

Keyed(key) == {row \in contents : row.key = key}

Unused == RowIds \ {row.id : row \in contents}

\* The rows with new ones of these keys added.
WithAdded(rows, added) ==
  LET ids == CHOOSE f \in [DOMAIN added -> Unused] : IsInjective(f)
  IN rows \cup
     {[id |-> ids[key], key |-> key, value |-> added[key].value,
       detail |-> added[key].detail, is_published |-> added[key].is_published] :
      key \in DOMAIN added}

\* The first release, seeded into an empty database.
ContentInit ==
  /\ LET seeds == Releases[1].seeds
         ids == CHOOSE f \in [DOMAIN seeds -> RowIds] : IsInjective(f)
     IN contents = {[id |-> ids[key], key |-> key, value |-> seeds[key].value,
                     detail |-> seeds[key].detail, is_published |-> seeds[key].is_published] :
                    key \in DOMAIN seeds}
  /\ code = 1
  /\ revision = 1
  /\ seeding = [r \in Requests |-> None]
  /\ rewordings = 0
  /\ wrote = [id \in RowIds |-> <<>>]

-----------------------------------------------------------------------------
(* The editors.  Each is one short transaction. *)

Reworded ==
  /\ rewordings < MaxRewordings
  /\ rewordings' = rewordings + 1
  /\ UNCHANGED <<code, revision, seeding>>

\* create_row, create_item and create_field; blocks and legal pages are seeded.
CreateRow(key, value) ==
  /\ Reworded /\ key \notin FixedKeys /\ Unused # {}
  /\ key \in UniqueKeys => Keyed(key) = {}
  /\ LET id == CHOOSE i \in Unused : \A j \in Unused : i <= j
     IN /\ contents' = contents \cup
             {[id |-> id, key |-> key, value |-> value, detail |-> None, is_published |-> TRUE]}
        /\ wrote' = [wrote EXCEPT ![id] =
             [key |-> key, value |-> value, detail |-> None, is_published |-> TRUE]]

\* The key of a form field becomes another one that no other field has; a title or
\* a label becomes anything.
MayBeRenamed(row, key) ==
  /\ row.key \notin FixedKeys /\ key \notin FixedKeys
  /\ row.key \in UniqueKeys <=> key \in UniqueKeys
  /\ key \in UniqueKeys => key = row.key \/ Keyed(key) = {}

\* update_row, update_item, update_block, update_legal, update_field.
UpdateRow(row, column, content) ==
  /\ Reworded
  /\ column = "key" => MayBeRenamed(row, content)
  /\ contents' = (contents \ {row}) \cup {[row EXCEPT ![column] = content]}
  /\ wrote' = [wrote EXCEPT ![row.id] =
       [c \in DOMAIN @ \cup {column} |-> IF c = column THEN content ELSE @[c]]]

\* delete_row, delete_item; deactivate_field keeps the row.
DeleteRow(row) ==
  /\ Reworded /\ row.key \notin UniqueKeys
  /\ contents' = contents \ {row}
  /\ wrote' = [wrote EXCEPT ![row.id] = <<>>]

-----------------------------------------------------------------------------
(* A release: its code is pulled, and scripts/update.py migrates and then  *)
(* seeds; scripts/seed.py seeds without migrating.                         *)

Pull ==
  /\ code < Len(Releases)
  /\ code' = code + 1
  /\ UNCHANGED <<contents, revision, seeding, rewordings, wrote>>

\* Deviation: whatever the row holds.
IsDueUnguarded(change, row) == row.key = change.key

IsDue(change, row) == row.key = change.key /\ row[change.guard] = change.old

Changed(row, change) ==
  [c \in DOMAIN row |-> IF c \in DOMAIN change.new THEN change.new[c] ELSE row[c]]

\* One transaction.  Rows that migrations insert are those with a key of which
\* there is no row.
Migrate ==
  /\ revision < code
  /\ revision' = revision + 1
  /\ LET release == Releases[revision + 1]
         due(row) == {i \in DOMAIN release.changes : IsDue(release.changes[i], row)}
         kept == {IF due(row) = {} THEN row
                  ELSE Changed(row, release.changes[CHOOSE i \in due(row) : TRUE]) :
                  row \in contents}
         missing == {key \in DOMAIN release.inserts : Keyed(key) = {}}
     IN /\ Cardinality(missing) <= Cardinality(Unused)
        /\ contents' = WithAdded(kept, Restrict(release.inserts, missing))
  /\ UNCHANGED <<code, seeding, rewordings, wrote>>

\* seed_all looks every key up; it fails if there is more than one row of one.
BeginSeed(r) ==
  /\ seeding[r] = None
  /\ LET seeds == Releases[code].seeds
     IN /\ \A key \in DOMAIN seeds : Cardinality(Keyed(key)) <= 1
        /\ seeding' = [seeding EXCEPT ![r] =
             Restrict(seeds, {key \in DOMAIN seeds : Keyed(key) = {}})]
  /\ UNCHANGED <<contents, code, revision, rewordings, wrote>>

\* All that were missing, in one transaction; a unique key must still be missing.
CommitSeed(r) ==
  /\ seeding[r] # None
  /\ \A key \in DOMAIN seeding[r] \cap UniqueKeys : Keyed(key) = {}
  /\ Cardinality(DOMAIN seeding[r]) <= Cardinality(Unused)
  /\ contents' = WithAdded(contents, seeding[r])
  /\ seeding' = [seeding EXCEPT ![r] = None]
  /\ UNCHANGED <<code, revision, rewordings, wrote>>

AbortSeed(r) ==
  /\ seeding[r] # None
  /\ seeding' = [seeding EXCEPT ![r] = None]
  /\ UNCHANGED <<contents, code, revision, rewordings, wrote>>

ContentNext ==
  \/ \E key \in ContentKeys, value \in Wordings : CreateRow(key, value)
  \/ \E row \in contents :
       \/ \E key \in ContentKeys : UpdateRow(row, "key", key)
       \/ \E column \in {"value", "detail"}, wording \in Wording : UpdateRow(row, column, wording)
       \/ \E published \in BOOLEAN : UpdateRow(row, "is_published", published)
       \/ DeleteRow(row)
  \/ Pull
  \/ Migrate
  \/ \E r \in Requests : BeginSeed(r) \/ CommitSeed(r) \/ AbortSeed(r)

ContentSpec == ContentInit /\ [][ContentNext]_contentVars

-----------------------------------------------------------------------------
(***************************************************************************)
(* Properties                                                              *)
(***************************************************************************)

\* The rows keep their shape, and a unique key has one row at most.
ContentTypeOK ==
  /\ contents \subseteq Row
  /\ \A row, other \in contents :
       (row.id = other.id \/ (row.key = other.key /\ row.key \in UniqueKeys)) => row = other
  /\ code \in DOMAIN Releases /\ revision \in 1 .. code
  /\ \A r \in Requests : seeding[r] # None =>
       \E K \in SUBSET ContentKeys : seeding[r] \in [K -> Wanted]
  /\ \A id \in RowIds : DOMAIN wrote[id] \subseteq Columns

\* What a column holds was made of what the editor wrote by migrations in their
\* order, or by none: each of them does not look at that column, or finds there
\* what it expects of the release before.
MadeByMigrations(column, written, holds, upTo) ==
  LET changes(n) == {i \in DOMAIN Releases[n].changes :
                       column \in DOMAIN Releases[n].changes[i].new}
      values == {written} \cup
        UNION {{Releases[n].changes[i].new[column] : i \in changes(n)} : n \in DOMAIN Releases}
  IN \E held \in [1 .. upTo -> values] :
       /\ held[1] = written
       /\ held[upTo] = holds
       /\ \A n \in 2 .. upTo :
            \/ held[n] = held[n - 1]
            \/ \E i \in changes(n) :
                 LET change == Releases[n].changes[i] IN
                   /\ held[n] = change.new[column]
                   /\ column = change.guard => held[n - 1] = change.old

\* "Anything edited in the Admin Portal is left exactly as it is": however
\* seeding, migrations of later releases and other edits interleave, a row that
\* an editor wrote stays until an editor deletes it, and every column holds what
\* was written last - unless a migration found the row unedited by its own guard.
EditsSurvive ==
  \A id \in RowIds : \A column \in DOMAIN wrote[id] :
    \E row \in contents :
      /\ row.id = id
      /\ MadeByMigrations(column, wrote[id][column], row[column], revision)

\* What keeps it so: every row has all of its columns, those that editors wrote
\* among them, and no migration is ahead of the code.
ContentInvariant ==
  /\ DOMAIN wrote = RowIds /\ \A id \in RowIds : DOMAIN wrote[id] \subseteq Columns
  /\ code \in DOMAIN Releases /\ revision \in 1 .. code
  /\ \A row \in contents : row = [c \in Columns \cup {"id"} |-> row[c]]
  /\ EditsSurvive

\* Beside the types: of every row and of every seeder there is something to say.
ContentTypeInvariant ==
  /\ ContentTypeOK
  /\ DOMAIN wrote = RowIds /\ DOMAIN seeding = Requests
=============================================================================
