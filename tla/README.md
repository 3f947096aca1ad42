# SmartAware backend: a TLA+ model

The backend is a FastAPI application over PostgreSQL, with Redis (rate
limiting, Celery's broker), S3-compatible object storage, an embedding and chat
API, and SMTP. Clients are invited, sign in, exchange documents, follow tasks
and pay invoices through Wise; managers and administrators do the work; a
public site takes enquiries and answers questions from an FAQ.

This directory holds specifications of its stateful parts, the TLC
configurations that check them, and theorems with proofs that TLAPS checks.

    tlc -workers 2 -config MCTasks.cfg MCTasks     # a run
    tlapm Invoices_proofs.tla                      # the proofs of a module

`PROJECT.json` lists the components, the runs, for each checked property a
mutant of the code that breaks it, the source lines each definition translates,
the hazards and the theorems.

## 1. The system

### How its parts interact

A request handler gets a database session (`app/db/session.py`), resolves the
caller from a token (`core/deps.py`), calls a service in `app/services`, and
commits. Services never commit, they flush; `audit_service.record` adds the
audit row to the transaction of the change it describes. Mail is composed
before the commit and sent after the response. Most handlers are plain
functions that FastAPI runs in a thread pool, the uploads are coroutines, and
there are several worker processes: any two requests overlap. The Celery beat process starts the FAQ re-index nightly, and
the same job can be started by hand.

There is no `SELECT ... FOR UPDATE`, no version column and no advisory lock in
the code. PostgreSQL runs the transactions at READ COMMITTED. Two handlers that
loaded the same row therefore overwrite each other attribute by attribute, and
only unique indexes (users.email, invoice_reference, tokens) decide a race.
That is the main hazard of this system, and most of the models are about what
it can and cannot do.

### Inventory

| Part | State | Operations | What is hard | What must be right |
|---|---|---|---|---|
| Invoices (`invoice_service`, admin and portal routes) | invoice rows, audit entries, linked documents | create, edit, mark paid, cancel, start payment, upload receipt, attach file | lost updates between settling and editing; receipt upload awaits between check and commit; reference taken from a read | a decision is made once and is traceable; nothing settled reverts; references are unique |
| Runtime settings (`settings_service`, admin/settings) | settings rows, one cache per process | get, update, invalidate | reads outside the lock, other processes not invalidated, a failing refresh | bounded staleness; a save shows in its own process |
| FAQ index (`rag/indexer`, admin/faq, Celery) | entries, vectors, timestamps | create, edit, delete, restore, re-index | a long transaction against edits, overlapping runs, failing batches | one vector of the present wording; stale entries are caught up with; retired ones lose theirs |
| Tasks (`task_service`, admin/tasks) | task rows, client status, audit, mail | create, update, complete, reopen, archive, restore | two completions, an update racing a completion, hold racing work | completion locks; completed once; mail follows; hold stops work |
| Accounts and sessions (`auth_service`, auth routes) | users, token_version, tokens in the wild, client status | login, refresh, change or reset password, hold | tokens without a table, version bumped in Python, rehash on login | a revocation ends every session; the new password stays |
| Invitations (`invite_service`) | invites, users | issue, resend, redeem, cancel, expire | two issues at once, redemption racing cancellation, expiry derived on read | one account; only the newest link; a status that tells the truth |
| Documents (`document_service`, storage) | document rows, stored objects | upload (keep/overwrite), archive, download | two stores without a common transaction; two uploads of one name | no listed file is gone; one history |
| Clients and managers (`client_service`, admin/clients) | client status, assignments | set status, assign, replace list | set difference against loaded rows, row locks taken in the order of a set | log chains; a saved list is the manager's list |
| Notifications | none | prepare, dispatch | after the commit | recipients; none before the commit |
| Profile (`profile_service`, portal/profile) | columns of the client, `clients.extra`, the form's fields | save by client or staff | one JSON column rewritten as a whole | no value lost |
| Onboarding wizard (`profile_service`, admin/notes) | steps, questions, responses, completion | save answers, complete, edit steps and questions | completion checked against answers and questions that change; keys unique within a step only | a completed wizard is answered |
| Services (admin/services) | regions, categories, subcategories, details, availability; tasks and engagements that refer to them | create, rename, publish, archive, delete, tick a cell, file a task, engage | count-then-delete, look-up-then-insert, cascades | no dangling reference; history kept |
| Catalogue (`service_catalog`) | none | read by market, by service, for the enquiry form | three readers of one taxonomy | they agree |
| Enquiries (`enquiry_service`, public and admin routes) | enquiries, form fields | open, submit, triage, edit fields | checked against the form and catalogue of the moment | what is on offer is accepted |
| Permissions and scope (`core/permissions`, `core/deps`) | role table, one setting | has_permission, scope | two queries for one rule | a manager sees own clients only |
| Rate limiter (`core/rate_limit`) | Redis counters, one connection per process | check | INCR and EXPIRE apart, failure latch | nobody is refused for ever |
| Notes (admin/notes) | notes | create, edit, delete | scope is checked when the row is loaded | written by those in scope |
| Website content (admin/content) | rows of many kinds with natural keys | create, edit, delete | migrations and seeds write the same rows | what editors wrote survives |
| Seeds and update (`seeds/run`, scripts/update) | seeded rows, schema revision | migrate, insert what is missing | re-runs over edited rows | edits survive |
| Console (`scripts/create_admin`) | users | create or reset the administrator | check-then-insert | one administrator |
| Chat and retrieval | none | search, answer | ranking by the database, a language model | finds only live vectors |
| Migrations | schema | upgrade | foreign keys on DELETE, the `updated_at` trigger, guarded updates of rows | - |
| Configuration, health, wiring | - | - | - | - |

## 2. What is modelled

### Conventions common to the models

- **Begin/Commit.** A handler is a `Begin...` step, which loads the rows,
  applies every check of the code to the loaded copy and keeps it in
  `inflight[r]`, and a `Commit...` step, which writes. `autoflush=False` and
  READ COMMITTED make the two the only points where a handler of one commit
  meets others. A refused request changes nothing and is no step.
- **Written columns.** SQLAlchemy writes an attribute only if its value differs
  from the one loaded, by primary key and with no version check.
  `Written(column, loaded, new)` of `Handlers` says so: a handler that sets a
  column to the value it had loaded leaves alone what another has committed
  meanwhile.
- **Abort.** A process that dies, or any failure before the commit, rolls back
  and frees the slot. Where a handler has an effect outside the transaction
  (a file in `Documents`, mail in `Tasks`), that effect is a step of its own.
- **History variables** record what no state of the program keeps and never
  guard an action: `conflicted`, `raced`, `late`, `missed`,
  `overlap`, `torn`, `acked`, `chosen`, `revocations`, `clobbered`, `crossed`, `disturbed`,
  `overlapped`, `answered`, `dropped`, `filed`, `wrote`, `cutOff`. Properties
  that say "unless an update was lost" use them. The exception is exactly the race named in the
  variable's comment. Where a comment of the code promises the same without
  exception, section 5 names the difference.
- **The audit log has no order of its own.** Its ids are random, and `created_at`
  is `now()`, the start of the transaction (`models/audit.py:40`), by which the
  one reader sorts (`admin/clients.py:489`). Of two transactions that overlap, the
  one committed last may be listed first. `Tasks` keeps the log as a set of
  entries and `Sessions` as how many there are of each kind; their properties ask
  which entries exist and whether they balance, never which is the last.
  `Assignments` keeps the entries as committed, and its property chains them by the old
  and the new value they carry; the list a reader sees may show them in another order.
- **A flush takes locks.** Where a handler flushes before it commits, its rows
  stay locked in between, and another writer of them waits. That is a step of
  its own where it shows (`Assignments`, `Onboarding`, `FaqIndex`).
- **Deviations.** An operator commented `Deviation:` is a faulty variant of the
  action after it; no specification uses one. `PROJECT.json` pairs each with the
  property that catches it.

### The modules

| Module | Code | State | Actions |
|---|---|---|---|
| `Invoices` | `invoice_service`, both invoice routers | `rows`, `audit`, `inflight` | create, update, mark_paid, cancel, pay, receipt, document; Abort |
| `SettingsRegister` | abstract | time, saved versions, calls | what a reader may rely on |
| `SettingsCache` | `get_setting`, `invalidate`, `update_setting` | row history, one cache per process, where each thread is | StartGet, Lookup, ReadRow, Store, Leave; Commit, Invalidate, RefreshFails; Restart, Tick |
| `FaqIndex` | `indexer.reindex`, admin/faq, trigger | entries, vectors, transactions of the runs | BeginRun to CommitRun, BatchFails, AbortRun; create, update, delete, restore |
| `Tasks` | `task_service`, admin/tasks, `set_status` | client status, rows, audit, mails | create, update, complete with Dispatch, reopen, archive, restore, set status |
| `Sessions` | `auth_service`, auth routes, `set_status`, `reset_admin` | user, status, tokens given out | login, refresh, change/reset password, set status |
| `Invites` | `invite_service`, admin/invites, redemption | invitations, account | create (also resend), accept, revoke, Expire |
| `Handlers` | the session | `Requests`, `None`, `Written` | what the modules below share |
| `Documents` | `document_service`, both document routers | rows, stored objects, uploads | BeginUpload, PutFile, EraseFile, CommitUpload, AbortUpload, ArchiveDocument |
| `Permissions` | `core/permissions`, `core/deps`, recipients of notifications | operators | - |
| `Assignments` | admin/clients and admin/notes, `client_service` | manager, log, notes, work | assign, replace the list query by query, note; deadlock victim, Abort |
| `Profile` | `profile_service`, portal/profile, `update_client` | values, saves | save by client or staff, Abort |
| `Onboarding` | wizard half of `profile_service`, its editors | steps, questions, responses, completion | fill in and complete (begin, flush, commit), create and deactivate questions, switch steps |
| `Schema` | the migrations' foreign keys | operators | what a DELETE takes along |
| `Services` | admin/services, tasks and engagements that refer | the taxonomy's tables, tasks, client_services | save, archive, restore, delete; tick, delete a category and engage as begin and commit; file a task |
| `ServiceCatalog` | `service_catalog` | operators over `Services` | what the public pages read |
| `Enquiries` | `enquiry_service`, public and admin routes | form fields, visitors, enquiries | OpenPage, Submit, UpdateEnquiry; create, update (its key included) and deactivate a field; and the edits of the taxonomy |
| `Content` | admin/content, `seeds/run`, the data migrations, scripts/update | rows, release, revision, seeders | create, edit, delete; Pull, Migrate, seed (begin, commit) |
| `RateLimit` | `core/rate_limit` | Redis, the counter, connections, checks | Connect, Incr, Conclude, FailExpire; restart, Redis up and down, PassTime |

`Enquiries` extends `ServiceCatalog`, which extends `Services`, which extends
`Schema`: visitors, editors and deletions act on one taxonomy. `Assignments`
extends `Permissions`, so that scope is asked of the managers there are.

`MC*` modules add symmetry sets, what the seeds and the editors are on the
instance, and for `Invoices` one state constraint. `MCClientRecords` and
`MCWebsite` put several components into one run: the variable `focus` is chosen
in the initial state, a behaviour is one of the component in focus, and the
others stay as they start. They share no variable, so nothing is lost by not
interleaving them; the exception is the taxonomy, which `Enquiries` edits too. `*_proofs` modules hold the proofs.

Some translations that deserve a word:

- *Invoices.* A row holds the columns that the properties tell apart; a payment
  URL is the amount it asks for. `next_reference` is the least unused number of
  the year, tried up to `len(used) + MAX_REFERENCE_ATTEMPTS`; the unique index
  refuses the loser of a race (`CommitCreate`'s guard; the loser aborts).
- *SettingsCache.* The value of a setting is the number of its version. The
  expiry an entry gets is counted from before the row was read, which is what
  makes the bound one TTL and not TTL plus the length of the read.
- *FaqIndex.* A run is one transaction as long as its embedding calls. Its
  DELETEs lock rows at once, its INSERTs and UPDATEs are flushed by the commit.
  A second run waits on a locked row, and then misses what the first inserted.
  `now()` in the commit is the *start* of the transaction, and the UPDATE of
  `indexed_at` carries `onupdate=func.now()` for `updated_at`; the trigger
  leaves a row alone when no content column changed.
- *Sessions.* One account, which may be a client's or an administrator's. A
  token carries the version it was minted with and is accepted while that is
  the row's and the client may hold a session. Expiry is left out: it only ends
  sessions sooner.
- *Invites.* One address. Expiry is never stored: an expired row still reads
  `pending` and is revoked when the next is issued, as in the code.
- *Documents.* One client, direction and file name; the names of other files
  never meet it. `Listings` are the lists there are: the portal's, and the staff's
  with or without archived rows and of all types or one. `Current` is what
  a list shows as not superseded, computed as the serialiser does, from the rows of
  that list. The previous version of an upload is looked up whatever its type.
- *Assignments.* `set_manager_clients` reads the clients to be named, then the
  current ones, then writes row after row. A second writer of a row waits for
  the first to commit. Two lists in opposite order wait for each other; the
  database makes one the victim.
- *Permissions.* The table of roles is copied role by role. `Listing` and
  `Opening` are the filter of a list and the check of one client, which the code
  writes twice.
- *Profile.* The form is fixed in a behaviour and differs between behaviours; a
  save under way has loaded it, and a save that commits after an edit of the
  form is the same as one that came first.
- *Onboarding.* Questions are numbered as created. A save flushes its answers
  before it asks whether required ones are missing, and a unique index makes two
  first answers of one question wait.
- *Services.* Tables are sets of rows. `AfterDelete` computes the rows a DELETE leaves
  from `Schema`, not from the handler, which says nothing of them.
- *Enquiries.* `OpenPage` links to the form with the service's name in that
  market; the answers offered are those of the form at that moment. The check
  when the form is sent is against the form and catalogue of that moment. An answer
  sent as plain text for the service, or for what is under it, is checked against the catalogue
  alone; one sent as a list against a stored choice too (`Valid`).
- *Content.* A release is what it seeds, what its migrations insert and which
  guarded changes they make. `scripts/update` migrates before it seeds, and an
  editor may come in between. The natural key of a block is fixed; that of a form field
  is unique and may be renamed to an unused one; others are free text.
- *RateLimit.* One key. Time passes only while no check is between INCR and
  EXPIRE: the two are separated by one round trip and windows are minutes. A
  lost reply of INCR counts and leaves the caller admitted.

## 3. The runs

Passing runs:

| Run | Instance | Shows |
|---|---|---|
| `invoices` | 2 requests, 2 invoices, 2 amounts, 2 staff | `SettledOnce`, `PaymentTraced`, `ReferencesSound`, `NothingReverts` |
| `settings_cache` | 2 processes, 2 readers, 1 saver, TTL 1, time 0..2, 2 saves | the refinement `BoundedStaleness`, and `SaveVisible` |
| `faq_index` | 2 entries, 2 runs, batches of 1, 3 admin writes, 1 failure | `IndexedUnlessRaced`, `CurrentLeftAlone` |
| `faq_nightly` | 1 entry, 2 runs that may overlap, 3 admin writes, 1 failure | liveness: `CatchesUp`, `OrphansRemoved` |
| `tasks` | 2 requests, 1 task, 2 staff, 3 audit entries | `CompletedIsLocked`, `CompletionTraced`, `CompletedOnce`, `MailFollowsCompletion`, `HoldStopsWork` |
| `sessions` | 3 requests, both roles, 2 passwords, 3 changes | `RevocationEndsSessions`, `SessionsFollowPassword`, `PasswordKept`, `StatusTraced` |
| `invites` | 3 requests, 3 invitations | `NewestLinkOnly`, `RedeemedOnce`, `StatusTells`, `FateIsFinal` |
| `client_records` | 2 requests; 3 files of 2 types; 2 managers, 2 clients, 3 assignments; 3 profile keys, of which 2 in JSON | documents: `GoneIsReplaced`, `HistoryChained`, `CurrentIsNewest`; assignments: `ManagerTraced`, `AccessTraced`, `ListAsSaved`; profile: `ValuesKept` |
| `website` | 2 requests; 2 regions, 2 categories, 1 task; 1 visitor; 2 steps, 2 questions; 3 releases, 5 rows; 2 processes, window 2 | services: `HistoryKept`; enquiries: `OfferedIsAccepted`; onboarding: `CompletionAnswered`; content: `EditsSurvive`; rate limit: `WindowHonoured` |

The type invariant of `settings_cache`, `tasks` and `invites` is proved and not
run; the other safety runs check theirs (`TypesOK` in the last two, which for
`Services` includes that no cell of the availability grid is there twice and
that nothing refers to a deleted row). The three runs that are expected to find
a violation are in section 5.

What the newer properties say in words:

- *`GoneIsReplaced`*: a stored file is missing only if a committed later version
  took its row off the list. *`HistoryChained`*: every upload is numbered above,
  and points back at, the latest there was. *`CurrentIsNewest`*: in no list, filtered
  or not, an old version is current beside a newer one, unless that list leaves out
  the row that replaces it (section 5).
- *`CatchesUp`*: a live entry that chat does not find under its present wording is
  found in the end, or is not live any more - whatever fails and however runs
  overlap, unless it was overtaken: written, or claimed by a second run, while a run
  worked on it, and marked as indexed all the same (section 5).
- *`CompletionTraced`*: the person a task names has an entry of its completion; a
  completion that is gone has an entry of a reopening. *`CompletedOnce`*: completions
  and reopenings balance.
- *`StatusTraced`*: some entry names the status the account has; unless one status change was
  saved over another, the log takes and leaves each status equally often, but for the
  first and the present one.
- *`ManagerTraced`*: the audit entries of a client form a chain that ends at the
  present manager. *`AccessTraced`*: whoever is listed a client, may open it, is
  written to about it or is writing of it was once named in that chain.
  *`ListAsSaved`*: as a saved list commits, the manager has those clients and no
  others, unless another assignment committed meanwhile.
- *`ValuesKept`*: saving one field does not change another, but for overlapping
  saves of the JSON column.
- *`CompletionAnswered`*: what was required when onboarding was completed has an
  answer, with the exceptions its comment names.
- *`HistoryKept`*: renaming, archiving and deleting services leaves a task under
  what it was filed under. It has two exceptions, both of the code: a task filed
  while a deletion is between its count and its commit, and one filed under a
  subcategory of another category (the count looks at the category alone).
- *`OfferedIsAccepted`*: what the page and the form offer now is not refused.
- *`EditsSurvive`*: seeding leaves what an editor wrote. A migration may replace
  it only if it does not look at that column, or finds there the value of the
  release before: what a column holds was made of what the editor wrote by such
  migrations in their order. Three releases are needed to see that: the second
  rewords a heading, and the third rewords what the second wrote.
- *`WindowHonoured`*: a counter lives no longer than its window, unless it lost
  its EXPIRE.

### Bounds

All bounds are constants of the `.cfg` files and named in the modules.

- *Requests.* Handlers meet only through the rows at their commits, so a race
  needs two; `sessions` and `invites` have three, because a token minted, or a
  link redeemed, between two overlapping changes is where they differ.
- *`OneInvoiceLives`* lets one of the two invoices move past its creation.
  Invoices share nothing but the set of used references, and creations of both
  are explored in full.
- *`EntryIds`*, *`MaxChanges`*, *`MaxInvites`*, *`MaxPuts`*, *`MaxSaves`*
  stop logs and counters that grow for ever. Three suffices for "do, undo, do again" with a
  race at each; three puts make a chain of three versions, any of which may be torn.
  `MaxEdits` (2), `MaxServiceEdits` (1), `MaxRewordings` (2), `MaxEnquiries` (1),
  `MaxQuestions` (2), `MaxRows` (5) and `MaxCount` (5) do the same for the
  editors, the enquiries, the questions, the content rows and the counter: one
  edit before a page is opened and one after; a retitled row, its re-seeded
  namesake and a third; a window's worth of counts and more than one limit.
- *`MaxNotedChanges`* (1) lets a note begin only before the second assignment: what
  it may then meet is a reassignment under way, and any manager is as good as
  another.
- *`Engageable`, `ClosableSteps`, `Renamable`* keep engagements to one category,
  switching off to the later step, and new keys to one of the seeded form fields: categories are
  alike there, and of two steps one closed is the case that differs; the field
  renamed is the one the code checks against the catalogue by its name.
- *Services with enquiries.* With services in focus the taxonomy is edited once
  while tasks, deletions and engagements race over it; with enquiries in focus it
  is edited twice, so that two ticks of a cell, or a tick and the deletion of its market,
  overlap. `EditsMeetVisitors` keeps a visitor, who reads what is committed, from acting
  inside a tick, and ends the edits when the form has been sent: neither order
  makes a difference to the visitor.
- *`MaxClock`, `MaxTime`* bound time, `Window` (2 ticks) the limiter's. With `TTL = 1` and times 0..2 an entry is
  hit, expires, and is outlived by a slow read. The bound on admin writes also
  makes `CatchesUp` meaningful: edits stop, as they do.
- *`MaxFailures`* is finite for the same reason: a provider that always fails
  is never caught up with. `faq_nightly` has one entry, because entries meet only in a
  batch that fails or a run that dies, which `faq_index` has with two; the three writes
  are an entry, an edit and one more while two runs overlap.
- Symmetry sets are used in safety runs only; no liveness run has one.

The theorems of section 4 hold without any of these bounds, except that an
action guarded by a bound stays so guarded.

### Fairness

Only `faq_nightly` assumes any: weak fairness of `BeginRun` (beat starts a run
every night) and of `RunStep` (a run that is not refused a lock goes on). None is
assumed of administrators, of failures or of aborts. The other runs check
safety only, under `Spec`.

### Deadlock

Deadlock is checked except where the instance may really stop: `sessions` (its
changes used up and the account on hold: nobody can sign in), `invites` (the
account exists and every link has expired), `website` (the component in focus
has used up its edits). In `client_records` it is checked: that two saves of
lists which wait for each other's rows go on is the step `DeadlockVictim`.

## 4. The proofs

Eight modules hold theorems. `Invoices_proofs`, `SettingsCache_proofs`,
`Tasks_proofs`, `Invites_proofs`, `Sessions_proofs` and `FaqIndex_proofs` are about
the component they are named for; `ClientRecords_proofs` is about `Documents`,
`Assignments` and `Profile`, and `Website_proofs` about `Onboarding`, `Services`,
`Enquiries`, `Content` and `RateLimit`, the components of the runs
`client_records` and `website`. For every value of the constants that satisfies
the named `ASSUME`s they prove every invariant, every action property and the
refinement that the passing runs check; the two liveness properties are left.

Most of the arguments have the same frame: what a handler has loaded and checked
is a *snapshot*, and the property alone is not inductive because a commit writes
what the snapshot justified. The inductive invariant says what is still true of
the snapshots, and where that ends - the race that the property excepts.

**Invoices.** `IInv` is `TypeOK /\ HandlersGuarded /\ AbsentUntouched /\
SettledOnce /\ PaymentTraced`. `SettledOnce` alone is not inductive: a commit
writes what a *snapshot* justified. `HandlersGuarded` carries the guards from
the Begin step to the commit; there, either the row still has the snapshot's
status and amount, so what was checked is true of it, or the commit puts the
invoice into `conflicted`. `AbsentUntouched` says that an invoice not yet
inserted has no history. `Invariant` is `Spec => []IInv`; `TypeCorrect`,
`Settlement` and `Traceability` are its parts; `Monotonicity` is the action
property; `References` proves uniqueness, and that `next_reference` always has a
candidate, from a lemma on cardinalities (an interval longer than the set of
used numbers is not covered by it) and `FiniteInvoices`.

**SettingsCache.** `IInv` adds to `TypeOK` and `SaveVisible`: how old an
unexpired entry can be (`EntriesRecent`), how old a value in the hands of a
thread can be (`ThreadsRecent`), that no version is claimed before it is committed
(`SavesKnown`), and that outside `overlap` no thread holds something older than
a save of its process (`NoOlderPending`). From it, `Staleness` proves that every
step of the cache is a step of `SettingsRegister` or leaves it alone, under the
mapping that shows of a call when it began and what it returned. The property
is the refinement itself, so the theorem states that the cache implements the
register.

**Tasks.** `IInv` adds to the three invariants about the log what the guards left
true of the snapshots (`HandlersGuarded`), that a log is finite, that a task not yet inserted has no
history, and `LateKnown`: while the client is not active, all work under way had
checked it before. The log is a set, and an entry is new because its id is
(`EntryAdded`), which is what the balance of `CompletedOnce` counts. One lemma (`RowPreserves`) states what a commit of a row with
its log must satisfy, and each commit is an instance of it. `Hold` follows from
`LateKnown`. Mail needs a second strengthening, `MailsAccounted`: the mails sent
and the mails still to be sent are together no more than the completions in the
log; it is a fact about cardinalities, so `FiniteRequests` is assumed.

**Invites.** `IInv` adds to the four invariants what the guards left true of each
handler's snapshot (`HandlersGuarded`), and `CreatesSee`: of the invitations
there were when a create loaded them, those still pending are the ones it is
going to revoke. That holds because no status returns to pending (lemma
`RowWritten`), and without it `NewestLinkOnly` is not inductive. `RedeemedOnce`
rests on the unique index on users.email alone and needs no exception for
races; `StatusTruth` and `Finality` need the one for `conflicted`.

**Sessions.** `IInv` says of the tokens given out *and* of those minted for a
response still to be sent (`Minted`) that, while no update is lost, the version
on a token counts the revocations there had been (`VersionCounts`), and that one
no revocation has reached was opened with the password in force.
`RevocationEndsSessions` and `SessionsFollowPassword` follow. `StatusTraced` is
inductive: a change adds one to what enters its new status and to what leaves the old one it
loaded, which is the one it writes over unless the change is `crossed`. Without the tokens
under way neither is inductive: a login that loaded the user before a revocation
gives its token out after it. `HandlersGuarded`: only a client is put on hold.

**FaqIndex.** Runs are transactions that overlap for a long time, so the invariant
is about what each has in hand. `ClaimedOnce`: an entry that is not `raced` is
worked on by one run at most. `ClaimsStand`: that run finds it as it loaded it, and
will have deleted every vector of an entry it embeds anew. `LocksExclude`: no row
of the index is deleted by two runs. `NoneCurrentDoomed`: no run deletes a vector of
an entry that is up to date. With them a commit leaves one vector of the present
wording (`VectorsMatch`), and no step touches the vectors of an entry that is
current (`LeftAlone`).

**Documents.** `UploadsKnow` says what an upload under way found of the versions
there were: every listed row it knew is numbered no higher than the one it is going
to replace. `FilesPut` says that the file it has stored is there and nobody
else's. `ChainOrdered` adds to `HistoryChained` that no listed row lies between a
row and the one it replaces; `CurrentVersions` follows from the two for every list: a
row that is current in it is either replaced by a row outside the list, or the newest.

**Assignments.** The step invariant that matters is on lists. `ListsOnTrack`: what a
saved list has written and what it has still to write are together the
difference between the clients wanted and those held, as long as nobody else
has committed; at its commit nothing is left to write, which is `ListsAsSaved`.
`ManagerTraced` holds because the row locks of two requests are disjoint, which
is in the type invariant: the row that a commit writes is the row that was
locked, and the entry names the manager it replaces. `AccessIsTraced` asks of
`Permissions` that whoever may list, open or be written to about a client is
its manager, and that `ManagerNamed` and `NotingNamed` are kept.

**Profile.** `SavesEdited`: the JSON that a save is going to write is the one it
loaded, but for the keys it was given. A save that finds the column changed puts
the keys that differ into `overlapped`, and of all others its copy agrees.

**Onboarding.** `FillingsKnow`: what a save found answered as it flushed stays
answered, because no answer is ever deleted, and of what it checked and does not
store itself it has seen the answer. A key that two questions share is the exception.

**Services.** `FilingStands`: while a task is under a category nobody has begun to
delete it, and a subcategory of it that the task is under is still in there. A
deletion that commits therefore takes along, by the rules in `Schema`, no row that a
task outside the two exceptions refers to. `TablesSound` is the referential integrity itself: for every
overlap of ticks, engagements, filings and deletions a cell of the availability grid has
one row and no row refers to one that is gone. It is proved from what the foreign
keys do (`CascadesOfDeletion`): the handlers check none of it.

**Enquiries.** Two readers of the taxonomy, the page of a service and the catalogue
of the form, have to agree. `PageInCatalogue` proves that the catalogue has every
page under the same name, and `OfferedIsValid` that the choice it leads to passes
validation; the state needs no more than that categories have one id each.

**Content.** `EditsSurvive` is inductive with the shape of the rows: one more
release makes one more step of the path from what the editor wrote to what the
column holds (`MigrationAdds`). `ContentTypeCorrect` is the other half: an id and
a unique key have one row at most. It rests on two facts about finite sets: new rows
fit into the ids that are free (`FitsInto`), and there is a least of them
(`LeastNumber`). Preparing the first proof showed that an earlier wording of the property,
which looked at one migration at a time, is false for three chained
releases; the property and the instance have been corrected.

**RateLimit.** `RateLimitInvariant` adds two facts to the type. `OwedAtOnce`:
while a check owes an EXPIRE, the counter has not aged, because no time passes
then. `EndsInWindow`: a counter with an end has its age and what is left of it
within one window; one without an end still waits for its EXPIRE or was cut off.
`WindowHonoured` alone is not inductive, as it says nothing of what is still to
come. The one counter that outlives its window is the one that lost its EXPIRE,
and the theorem shows there is no other way.

**Composition.** `TypesCorrect` of `ClientRecords_proofs` and of `Website_proofs`
is about the composed specification of the run, `MCSpec`: the component in focus
keeps its invariant, the others stand still.

Assumptions, each evaluated by TLC in the runs:

- bounds are natural numbers, TTL, window, batch size and attempts positive ones, and
  there are finitely many invoices, requests (`Tasks`) and content keys;
- `None`, which stands for SQL `NULL` and for an idle slot, is none of the values it
  stands in for (`NoneAssumption`, `UploadAssumption` and others);
- what is seeded satisfies the keys of its tables (`ServicesAssumption`,
  `SeedsAssumption`), as PostgreSQL would refuse it otherwise, and seeded forms,
  questions and wordings are forms, questions and wordings
  (`FormAssumption`, `OnboardingAssumption`, `ContentAssumption`);
- `ContentAssumption`: releases are a sequence, seeds and inserts are functions of keys, a
  change sets columns other than the key to values of their type, and `MaxRows`, a bound of
  the model, leaves room for the first release;
- every column that refers to a table does so by one foreign key with one rule
  (`ReferencesSoundly`, evaluated from `Schema`);
- staff, managers and clients are different users (`UsersAssumption`).

Only model-checked: liveness (`CatchesUp`, `OrphansRemoved`), as the prover does
not handle fairness and ENABLED, and the three runs of section 5, whose properties are
false. That a property's exception suffices is proved; that it is needed is shown
by the runs of section 5 where there is one, and elsewhere by nothing but the code.

## 5. Where code and documentation disagree

Each is a run whose property states what a comment of the repository says, and
TLC finds a behaviour of the code that violates it.

1. `faq_late_edit` / `EditMarksStale`. An edit that commits while a run is
   embedding the entry is dated back by the commit of that run. It is never
   re-indexed until it is edited again. (`indexer.py:147`, `db/base.py:36`;
   comments at `admin/faq.py:69`, `README.md:147`.) "So a late edit cannot sit
   unindexed" is therefore true only with the exception `Overtaken` of `CatchesUp`.
   Two runs make a second way into it: one finds an entry retired, an administrator
   publishes it, the other run embeds it and commits, and the DELETE of the first
   (`indexer.py:104`) takes the new vector of an entry that is not stale.
2. `sessions_lost` / `EveryTokenInvalidated`. Two overlapping revocations add
   one between them, and a session opened in between survives the second.
   (`auth_service.py:137`; comment at `models/user.py:72`.)
3. `invites_resend` / `EarlierLinksDead`. Two invitations issued at once both
   stay live. (`invite_service.py:120`; comment at `admin/invites.py:95`.)

Others are visible in the models as a guard, an exception or a history
variable, and have no run of their own. Paths are under `src/app`:

- A task can be *created* as completed, without note, time, person or audit
  entry (`services/task_service.py:39`), although "Completion requires a
  note" (`models/task.py:61`). `Tasks` has it in `BeginCreate`.
- "Two admins editing at once then conflict visibly instead of silently
  merging" (`schemas/client.py:117`): the lists merge, and neither is told. This is the
  exception of `ListAsSaved`.
- `is_superseded` is "True when a newer version of the same filename exists"
  (`schemas/document.py:28`), and looks at the listed rows only
  (`api/v1/admin/documents.py:104`), while the previous version is looked up whatever
  its type. A version whose successor is archived, or of another type than the list is
  filtered by, shows as current. This is the exception of `CurrentIsNewest`.
- "What has happened to this account" (`api/v1/admin/clients.py:482`) is sorted by the start
  of the transactions (`models/audit.py:40`). Of overlapping changes the entry listed first
  need not be the last that was committed, nor name the status or the manager there is.
- A category is deleted "only when nothing references it"
  (`api/v1/admin/services.py:173`): tasks filed only under its subcategories and
  the clients engaged for it are not counted. This is an exception of
  `HistoryKept`.
- Enquiry columns are cut to "the narrowest of the denormalised columns"
  (`services/enquiry_service.py:46`), and there is a narrower one. Column widths are not modelled.
- Seeding is "Safe to run repeatedly" (`seeds/run.py:3`). A row that an editor
  renamed or deleted comes back, and two rows with one natural key stop it.
  `Content` has both (`BeginSeed`).
- In the data migrations a row that "SmartAWARE has already edited is left alone"
  (`migrations/versions/20260917_1905_enquiry_service_fields.py:23`); their guards test one column and set
  others. This is the exception of `EditsSurvive`.

## 6. What is not modelled

- *Out of reach*: ranking by the vector index, the language model, SMTP and its
  templates, HTML and CSV layout, connection handling.
- *Nothing to say*: health, wiring, configuration, column types, downgrades.
- *Left out of a modelled part*: downloads (an audit entry and nothing else),
  token expiry, titles, dates and free text, file-type checks, the roles a
  handler demands (checked once, before it starts); the order in which content,
  services and steps are displayed and its editing; the key of a wizard step;
  the filters and region tokens of the public content pages, which only read;
  the widths of an enquiry's columns.
- *External*: what PostgreSQL, Redis and the object store do is modelled from how
  the code uses them. `subcategory_region_availability` is read and never
  written; its rows are the constant `Withheld`.
- *Console*: creation and deletion of administrators (section 7).

## 7. Plan

Done, in this order: `Invoices`, `SettingsCache` with `SettingsRegister`,
`FaqIndex`, `Tasks`, `Invites`, `Sessions`, `Documents`; then `Permissions`,
`Assignments`, `Profile`, `Schema`, `Services`, `ServiceCatalog`, `Enquiries`,
`Onboarding`, `Content` and `RateLimit`. Proofs of the safety of all of them.

Models to come: the console's bootstrap of administrators against accepted
invitations; mail that is sent before the commit of an invitation.

Abstract specifications worth stating: a task's completion as an atomic register
that `Tasks` implements outside `conflicted`; a link's life (issued, dead or
redeemed) that `Invites` implements; a version history that `Documents`
implements. Each would be followed by the theorem that every step of the
component maps to a step of it or to none, as `Staleness` is for `SettingsCache`.

Runs are kept few: a new part's questions join a run whose components share no
variable with it.
