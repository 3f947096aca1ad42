------------------------------- MODULE Schema -------------------------------
(***************************************************************************)
(* The foreign keys of the database, in the order the migrations create    *)
(* their tables, and what they make of a DELETE: rows that refer to a      *)
(* deleted row go with it (CASCADE) or forget it (SET NULL).               *)
(***************************************************************************)
EXTENDS Naturals, FiniteSets

Cascade(child, column, parent) ==
  [child |-> child, column |-> column, parent |-> parent, rule |-> "CASCADE"]

SetNull(child, column, parent) ==
  [child |-> child, column |-> column, parent |-> parent, rule |-> "SET NULL"]

-----------------------------------------------------------------------------
(* The initial schema. *)

ContentRoots == {"achievements", "content_list_items", "core_values", "enquiries"}

FormRoots == {"faq_entries", "form_definitions", "key_strengths", "legal_pages", "milestones"}

TaxonomyRoots ==
  {"qualifications", "regions", "service_categories", "social_links", "team_members"}

AccountRoots == {"testimonials", "users", "wizard_steps"}

AccountReferences ==
  {SetNull("audit_logs", "actor_id", "users"),
   SetNull("clients", "assigned_manager_id", "users"),
   Cascade("clients", "user_id", "users"),
   SetNull("contact_details", "region_id", "regions"),
   SetNull("content_blocks", "updated_by_id", "users"),
   Cascade("faq_embeddings", "faq_id", "faq_entries")}

FormReferences ==
  {Cascade("form_fields", "form_id", "form_definitions"),
   SetNull("invites", "invited_by_id", "users"),
   Cascade("service_details", "category_id", "service_categories"),
   Cascade("service_region_availability", "category_id", "service_categories"),
   Cascade("service_region_availability", "region_id", "regions")}

TaxonomyReferences ==
  {Cascade("service_subcategories", "category_id", "service_categories"),
   SetNull("settings", "updated_by_id", "users"),
   Cascade("wizard_questions", "step_id", "wizard_steps")}

RecordReferences ==
  {Cascade("documents", "client_id", "clients"),
   SetNull("documents", "supersedes_id", "documents"),
   SetNull("documents", "uploaded_by_id", "users"),
   SetNull("notes", "author_id", "users"),
   Cascade("notes", "client_id", "clients"),
   Cascade("onboarding_responses", "client_id", "clients"),
   Cascade("onboarding_responses", "question_id", "wizard_questions"),
   Cascade("subcategory_region_availability", "region_id", "regions"),
   Cascade("subcategory_region_availability", "subcategory_id", "service_subcategories")}

WorkReferences ==
  {SetNull("tasks", "assigned_manager_id", "users"),
   Cascade("tasks", "client_id", "clients"),
   SetNull("tasks", "completed_by_id", "users"),
   SetNull("tasks", "created_by_id", "users"),
   SetNull("tasks", "service_category_id", "service_categories"),
   SetNull("tasks", "service_subcategory_id", "service_subcategories"),
   Cascade("invoices", "client_id", "clients"),
   SetNull("invoices", "receipt_document_id", "documents"),
   SetNull("invoices", "reconciled_by_id", "users")}

(* Later migrations.  The chat tables of the initial schema are dropped. *)

ClientServicesReferences ==
  {Cascade("client_services", "category_id", "service_categories"),
   Cascade("client_services", "client_id", "clients")}

InviteServicesReferences ==
  {Cascade("invite_services", "category_id", "service_categories"),
   Cascade("invite_services", "invite_id", "invites")}

InvoiceDocumentReferences == {SetNull("invoices", "document_id", "documents")}

References ==
  AccountReferences \cup FormReferences \cup TaxonomyReferences \cup RecordReferences
    \cup WorkReferences \cup ClientServicesReferences \cup InviteServicesReferences
    \cup InvoiceDocumentReferences

Tables ==
  ContentRoots \cup FormRoots \cup TaxonomyRoots \cup AccountRoots
    \cup {ref.child : ref \in References}

-----------------------------------------------------------------------------
Rule(child, column) ==
  (CHOOSE ref \in References : ref.child = child /\ ref.column = column).rule

\* The tables that may lose rows when a row of this table is deleted.
LosesRows(table) ==
  LET within[n \in 0 .. Cardinality(Tables)] ==
        IF n = 0 THEN {table}
        ELSE LET losing == within[n - 1] IN
             losing \cup {ref.child : ref \in {x \in References :
                                             x.rule = "CASCADE" /\ x.parent \in losing}}
  IN within[Cardinality(Tables)]

\* A column refers to one table, and to one that exists.
ASSUME ReferencesSoundly ==
  \A ref \in References :
    /\ ref.parent \in Tables
    /\ \A other \in References :
         ref.child = other.child /\ ref.column = other.column => ref = other

\* Nothing that editors delete takes with it what is kept about clients.
ASSUME RecordsStay ==
  \A table \in {"service_categories", "regions"} :
    LosesRows(table) \cap {"clients", "tasks", "documents", "invoices", "audit_logs", "enquiries"} = {}
=============================================================================
