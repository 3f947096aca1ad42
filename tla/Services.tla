------------------------------ MODULE Services ------------------------------
(***************************************************************************)
(* Regions and the service taxonomy as the administrators edit them in     *)
(* app/api/v1/admin/services.py, and what refers to it: the tasks filed    *)
(* under a service and the services a client is engaged for.               *)
(*                                                                         *)
(* A table is the set of its rows.  Slugs are abstracted to ids, wording   *)
(* other than names and the order of display to nothing; lists are read in *)
(* the order of ids.                                                       *)
(***************************************************************************)
EXTENDS Handlers, Schema, Naturals

CONSTANTS
  RegionIds, CategoryIds,   \* ids of regions and of categories
  SubIds, DetailIds,        \* ids of subcategories and of details: numbers
  TaskIds, ServedClients,   \* tasks, and clients that are engaged for services
  Countries,     \* names of regions
  ServiceNames,  \* names of categories, and what markets call them
  Texts,         \* names of subcategories and texts of details
  SeededRegions, SeededCategories, SeededSubcategories, SeededDetails, SeededAvailability,
  MaxEdits       \* bound on what editors do to the taxonomy

VARIABLES
  regions, categories, subcategories, details, availability,  \* the taxonomy
  tasks,           \* rows of tasks
  clientServices,  \* rows of client_services
  handling,        \* handling[r]: the request in slot r, or None
  edits,           \* how often the taxonomy was edited
  dropped,         \* history: the categories that were deleted
  filed            \* history: filed[t] is what the task was last filed under,
                   \* and whether a deletion of that was under way; None before

taxonomyVars == <<regions, categories, subcategories, details, availability>>
servicesVars == <<taxonomyVars, tasks, clientServices, handling, edits, dropped, filed>>

-----------------------------------------------------------------------------
Region == [id: RegionIds, name: Countries, is_published: BOOLEAN]

Category == [id: CategoryIds, name: ServiceNames, is_published: BOOLEAN, is_archived: BOOLEAN]

Subcategory == [id: SubIds, category_id: CategoryIds, name: Texts,
                is_published: BOOLEAN, is_archived: BOOLEAN]

Detail == [id: DetailIds, category_id: CategoryIds, text: Texts]

Availability == [category_id: CategoryIds, region_id: RegionIds,
                 is_offered: BOOLEAN, name_override: ServiceNames \cup {None}]

TaskRow == [id: TaskIds, service_category_id: CategoryIds \cup {None},
            service_subcategory_id: SubIds \cup {None}]

ClientService == [client_id: ServedClients, category_id: CategoryIds]

OneEach(table) == \A row, other \in table : row.id = other.id => row = other

ASSUME ServicesAssumption ==
  /\ SubIds \subseteq Nat /\ DetailIds \subseteq Nat /\ MaxEdits \in Nat
  /\ None \notin CategoryIds /\ None \notin SubIds
  /\ OneEach(SeededCategories) /\ OneEach(SeededSubcategories)
  /\ SeededRegions \subseteq Region /\ SeededCategories \subseteq Category
  /\ SeededSubcategories \subseteq Subcategory /\ SeededDetails \subseteq Detail
  /\ SeededAvailability \subseteq Availability

Ids(table) == {row.id : row \in table}

\* What is seeded satisfies the unique and the foreign keys.
ASSUME SeedsAssumption ==
  /\ OneEach(SeededRegions) /\ OneEach(SeededDetails)
  /\ \A link, other \in SeededAvailability :
       link.category_id = other.category_id /\ link.region_id = other.region_id => link = other
  /\ \A row \in SeededSubcategories \cup SeededDetails \cup SeededAvailability :
       row.category_id \in Ids(SeededCategories)
  /\ \A link \in SeededAvailability : link.region_id \in Ids(SeededRegions)

\* A table after rows of the one that a column of it refers to are deleted.
AfterDelete(table, column, rows, gone) ==
  IF Rule(table, column) = "CASCADE"
  THEN {row \in rows : row[column] \notin gone}
  ELSE {IF row[column] \in gone THEN [row EXCEPT ![column] = None] ELSE row : row \in rows}

Cell(c, n) == {link \in availability : link.category_id = c /\ link.region_id = n}

ServicesInit ==
  /\ regions = SeededRegions
  /\ categories = SeededCategories
  /\ subcategories = SeededSubcategories
  /\ details = SeededDetails
  /\ availability = SeededAvailability
  /\ tasks = {}
  /\ clientServices = {}
  /\ handling = [r \in Requests |-> None]
  /\ edits = 0
  /\ dropped = {}
  /\ filed = [t \in TaskIds |-> None]

Edited ==
  /\ edits < MaxEdits
  /\ edits' = edits + 1

Elsewhere == UNCHANGED <<tasks, clientServices, dropped, filed>>

-----------------------------------------------------------------------------
(* The editors' short transactions. *)

\* create_region, or update_region of the one with that id.
SaveRegion(row) ==
  /\ Edited /\ row \notin regions /\ row.id \notin dropped
  /\ regions' = {other \in regions : other.id # row.id} \cup {row}
  /\ Elsewhere
  /\ UNCHANGED <<categories, subcategories, details, availability, handling>>

DeleteRegion(row) ==
  /\ Edited
  /\ regions' = regions \ {row}
  /\ availability' =
       AfterDelete("service_region_availability", "region_id", availability, {row.id})
  /\ dropped' = dropped \cup {row.id}
  /\ UNCHANGED <<categories, subcategories, details, tasks, clientServices, handling, filed>>

\* create_category, or update_category, which leaves is_archived alone.
SaveCategory(row) ==
  /\ Edited /\ row \notin categories /\ row.id \notin dropped
  /\ \/ row.id \notin Ids(categories) /\ ~ row.is_archived
     \/ \E old \in categories : old.id = row.id /\ old.is_archived = row.is_archived
  /\ categories' = {other \in categories : other.id # row.id} \cup {row}
  /\ Elsewhere
  /\ UNCHANGED <<regions, subcategories, details, availability, handling>>

Archived(row) == [row EXCEPT !.is_archived = TRUE, !.is_published = FALSE]

ArchiveCategory(row) ==
  /\ Edited
  /\ categories' = (categories \ {row}) \cup {Archived(row)}
  /\ Elsewhere
  /\ UNCHANGED <<regions, subcategories, details, availability, handling>>

\* restore_category: it is not published again.
RestoreCategory(row) ==
  /\ Edited
  /\ categories' = (categories \ {row}) \cup {[row EXCEPT !.is_archived = FALSE]}
  /\ Elsewhere
  /\ UNCHANGED <<regions, subcategories, details, availability, handling>>

\* create_subcategory, or update_subcategory.
SaveSubcategory(row) ==
  /\ Edited /\ row \notin subcategories /\ row.category_id \in Ids(categories)
  /\ \/ row.id \notin Ids(subcategories) /\ ~ row.is_archived
     \/ \E old \in subcategories :
          /\ old.id = row.id /\ old.category_id = row.category_id
          /\ old.is_archived = row.is_archived
  /\ subcategories' = {other \in subcategories : other.id # row.id} \cup {row}
  /\ Elsewhere
  /\ UNCHANGED <<regions, categories, details, availability, handling>>

ArchiveSubcategory(row) ==
  /\ Edited
  /\ subcategories' = (subcategories \ {row}) \cup {Archived(row)}
  /\ Elsewhere
  /\ UNCHANGED <<regions, categories, details, availability, handling>>

CreateDetail(row) ==
  /\ Edited /\ row.id \notin Ids(details) /\ row.category_id \in Ids(categories)
  /\ details' = details \cup {row}
  /\ Elsewhere
  /\ UNCHANGED <<regions, categories, subcategories, availability, handling>>

DeleteDetail(row) ==
  /\ Edited
  /\ details' = details \ {row}
  /\ Elsewhere
  /\ UNCHANGED <<regions, categories, subcategories, availability, handling>>

-----------------------------------------------------------------------------
(* A cell of the availability grid: set_availability looks the row up, and *)
(* then inserts it or updates what differs.                                *)

Tick == [op: {"tick"}, row: Availability, found: Availability \cup {None}]

BeginTick(r, row) ==
  /\ Edited /\ handling[r] = None
  /\ row.category_id \in Ids(categories) /\ row.region_id \in Ids(regions)
  /\ \E found \in IF Cell(row.category_id, row.region_id) = {} THEN {None}
                  ELSE Cell(row.category_id, row.region_id) :
       handling' = [handling EXCEPT ![r] = [op |-> "tick", row |-> row, found |-> found]]
  /\ Elsewhere
  /\ UNCHANGED taxonomyVars

\* Deviation: without uq_service_region.
CommitTickTwice(r) ==
  /\ handling[r] # None /\ handling[r].op = "tick"
  /\ LET row == handling[r].row
         found == handling[r].found
     IN IF found = None
        THEN /\ row.category_id \in Ids(categories) /\ row.region_id \in Ids(regions)
             /\ availability' = availability \cup {row}
        ELSE \E now \in Cell(row.category_id, row.region_id) :
               availability' = (availability \ {now}) \cup
                 {[now EXCEPT !.is_offered = row.is_offered,
                              !.name_override = row.name_override]}
  /\ handling' = [handling EXCEPT ![r] = None]
  /\ Elsewhere
  /\ UNCHANGED <<regions, categories, subcategories, details, edits>>

CommitTick(r) ==
  /\ handling[r] # None /\ handling[r].op = "tick"
  /\ LET row == handling[r].row
         found == handling[r].found
         cell == Cell(row.category_id, row.region_id)
     IN IF found = None
        THEN /\ row.category_id \in Ids(categories) /\ row.region_id \in Ids(regions)
             /\ cell = {}                                   \* uq_service_region
             /\ availability' = availability \cup {row}
        ELSE \E now \in cell :
               availability' = (availability \ {now}) \cup
                 {[now EXCEPT !.is_offered = Written(@, found.is_offered, row.is_offered),
                              !.name_override =
                                Written(@, found.name_override, row.name_override)]}
  /\ handling' = [handling EXCEPT ![r] = None]
  /\ Elsewhere
  /\ UNCHANGED <<regions, categories, subcategories, details, edits>>

-----------------------------------------------------------------------------
(* Tasks, and what archive_category does when asked for a hard deletion. *)

Deletion == [op: {"delete"}, category: CategoryIds]

Parent(s) == IF s = None THEN None
             ELSE (CHOOSE row \in subcategories : row.id = s).category_id

\* task_service.create, and update of a task that is not complete.  Nothing
\* but the foreign keys is asked of what it is filed under.
FileTask(t, c, s) ==
  /\ c \in Ids(categories) \cup {None} /\ s \in Ids(subcategories) \cup {None}
  /\ tasks' = {row \in tasks : row.id # t} \cup
       {[id |-> t, service_category_id |-> c, service_subcategory_id |-> s]}
  /\ filed' = [filed EXCEPT ![t] =
       [category |-> c, sub |-> s, parent |-> Parent(s),
        raced |-> \E r \in Requests : handling[r] # None /\ handling[r].op = "delete"
                                        /\ handling[r].category \in {c, Parent(s)}]]
  /\ UNCHANGED <<taxonomyVars, clientServices, handling, edits, dropped>>

\* Deviation: tasks are not counted.
BeginDeletionUncounted(r, c) ==
  /\ handling[r] = None
  /\ c \in Ids(categories)
  /\ handling' = [handling EXCEPT ![r] = [op |-> "delete", category |-> c]]
  /\ Elsewhere
  /\ UNCHANGED <<taxonomyVars, edits>>

BeginDeletion(r, c) ==
  /\ handling[r] = None
  /\ c \in Ids(categories)
  /\ \A row \in tasks : row.service_category_id # c
  /\ handling' = [handling EXCEPT ![r] = [op |-> "delete", category |-> c]]
  /\ Elsewhere
  /\ UNCHANGED <<taxonomyVars, edits>>

CommitDeletion(r) ==
  /\ handling[r] # None /\ handling[r].op = "delete"
  /\ handling[r].category \in Ids(categories)
  /\ LET gone == {handling[r].category}
         subs == {row.id : row \in {s \in subcategories : s.category_id \in gone}}
     IN /\ categories' = {row \in categories : row.id \notin gone}
        /\ subcategories' =
             AfterDelete("service_subcategories", "category_id", subcategories, gone)
        /\ details' = AfterDelete("service_details", "category_id", details, gone)
        /\ availability' =
             AfterDelete("service_region_availability", "category_id", availability, gone)
        /\ clientServices' = AfterDelete("client_services", "category_id", clientServices, gone)
        /\ tasks' = AfterDelete("tasks", "service_subcategory_id",
                      AfterDelete("tasks", "service_category_id", tasks, gone), subs)
        /\ dropped' = dropped \cup gone
  /\ handling' = [handling EXCEPT ![r] = None]
  /\ UNCHANGED <<regions, edits, filed>>

-----------------------------------------------------------------------------
(* The services of a client: update_client resolves the ids it is given,   *)
(* archived or not, and replaces the ones that it finds.                   *)

Engagement == [op: {"engage"}, client: ServedClients,
               wanted: SUBSET CategoryIds, found: SUBSET CategoryIds]

EngagedFor(client) ==
  {row.category_id : row \in {x \in clientServices : x.client_id = client}}

BeginEngagement(r, client, wanted) ==
  /\ handling[r] = None
  /\ wanted \subseteq Ids(categories)                       \* _resolve_services
  /\ handling' = [handling EXCEPT ![r] =
       [op |-> "engage", client |-> client, wanted |-> wanted, found |-> EngagedFor(client)]]
  /\ Elsewhere
  /\ UNCHANGED <<taxonomyVars, edits>>

\* The difference: a row to insert must not exist and its category must, and a
\* row to delete must still be there.
CommitEngagement(r) ==
  /\ handling[r] # None /\ handling[r].op = "engage"
  /\ LET h == handling[r]
         added == h.wanted \ h.found
         removed == h.found \ h.wanted
     IN /\ added \subseteq Ids(categories) \ EngagedFor(h.client)
        /\ removed \subseteq EngagedFor(h.client)
        /\ clientServices' =
             (clientServices \ [client_id: {h.client}, category_id: removed])
               \cup [client_id: {h.client}, category_id: added]
  /\ handling' = [handling EXCEPT ![r] = None]
  /\ UNCHANGED <<taxonomyVars, tasks, edits, dropped, filed>>

\* Nothing of a request is kept that fails, or is cut off, before it commits.
AbortHandling(r) ==
  /\ handling[r] # None
  /\ handling' = [handling EXCEPT ![r] = None]
  /\ Elsewhere
  /\ UNCHANGED <<taxonomyVars, edits>>

\* What editors do to the taxonomy short of deleting services.
TaxonomyNext ==
  \/ \E row \in Region : SaveRegion(row)
  \/ \E row \in regions : DeleteRegion(row)
  \/ \E row \in Category : SaveCategory(row)
  \/ \E row \in categories : ArchiveCategory(row) \/ RestoreCategory(row)
  \/ \E row \in Subcategory : SaveSubcategory(row)
  \/ \E row \in subcategories : ArchiveSubcategory(row)
  \/ \E row \in Detail : CreateDetail(row)
  \/ \E row \in details : DeleteDetail(row)
  \/ \E r \in Requests :
       \/ \E row \in Availability : BeginTick(r, row)
       \/ CommitTick(r)
       \/ AbortHandling(r)

ServicesNext ==
  \/ TaxonomyNext
  \/ \E t \in TaskIds, c \in CategoryIds \cup {None}, s \in SubIds \cup {None} : FileTask(t, c, s)
  \/ \E r \in Requests :
       \/ \E c \in CategoryIds : BeginDeletion(r, c)
       \/ CommitDeletion(r)
       \/ \E client \in ServedClients, wanted \in SUBSET CategoryIds :
            BeginEngagement(r, client, wanted)
       \/ CommitEngagement(r)

ServicesSpec == ServicesInit /\ [][ServicesNext]_servicesVars

-----------------------------------------------------------------------------
(***************************************************************************)
(* Properties                                                              *)
(***************************************************************************)

\* The tables keep their shape: an id names one row, a cell of the grid has one
\* row, and every reference is to a row that exists.
ServicesTypeOK ==
  /\ regions \subseteq Region /\ OneEach(regions)
  /\ categories \subseteq Category /\ OneEach(categories)
  /\ subcategories \subseteq Subcategory /\ OneEach(subcategories)
  /\ details \subseteq Detail /\ OneEach(details)
  /\ availability \subseteq Availability
  /\ \A link, other \in availability :
       link.category_id = other.category_id /\ link.region_id = other.region_id => link = other
  /\ tasks \subseteq TaskRow /\ OneEach(tasks)
  /\ clientServices \subseteq ClientService
  /\ handling \in [Requests -> Tick \cup Deletion \cup Engagement \cup {None}]
  /\ \A row \in subcategories \cup details \cup availability \cup clientServices :
       row.category_id \in Ids(categories)
  /\ \A link \in availability : link.region_id \in Ids(regions)
  /\ \A row \in tasks :
       /\ row.service_category_id \in Ids(categories) \cup {None}
       /\ row.service_subcategory_id \in Ids(subcategories) \cup {None}

\* "History keeps its reference": deleting, archiving and renaming services
\* leaves a task under the category and the subcategory it was last filed under
\* - unless it was filed while a deletion of that category was between its count
\* and its commit, or under a subcategory of a category other than its own.
HistoryKept ==
  \A row \in tasks :
    \/ filed[row.id].raced
    \/ /\ row.service_category_id = filed[row.id].category
       /\ row.service_subcategory_id = filed[row.id].sub
            \/ filed[row.id].parent # filed[row.id].category

-----------------------------------------------------------------------------
(***************************************************************************)
(* The inductive invariant behind HistoryKept.                             *)
(***************************************************************************)

Deletes(r, c) == handling[r] # None /\ handling[r].op = "delete" /\ handling[r].category = c

\* The tables that a task's filing depends on keep their shape.
FilingShape ==
  /\ subcategories \subseteq Subcategory /\ OneEach(subcategories)
  /\ tasks \subseteq TaskRow
  /\ \A row \in tasks : row.service_subcategory_id \in Ids(subcategories) \cup {None}
  /\ DOMAIN handling = Requests /\ DOMAIN filed = TaskIds
  /\ \A r \in Requests :
       handling[r] # None /\ handling[r].op = "delete" => handling[r].category \in CategoryIds

\* While a task is under a category nobody is deleting it, and a subcategory of
\* its own category stays in there.
FilingStands ==
  \A row \in tasks : ~ filed[row.id].raced =>
    LET last == filed[row.id] IN
      /\ \A r \in Requests : ~ Deletes(r, last.category)
      /\ last.parent = last.category =>
           \A s \in subcategories : s.id = last.sub => s.category_id = last.category

ServicesInvariant == FilingShape /\ FilingStands /\ HistoryKept
=============================================================================
