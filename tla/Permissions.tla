---------------------------- MODULE Permissions -----------------------------
(***************************************************************************)
(* Who may do what, and to which clients: app/core/permissions.py, the     *)
(* dependencies of app/core/deps.py that ask it, and the recipients that   *)
(* app/services/notification/service.py resolves for a client.             *)
(* Operators only: the state they look at is passed to them.               *)
(***************************************************************************)
CONSTANTS
  Clients,    \* client accounts, each standing for its one portal user too
  Managers,   \* users with the role MANAGER
  Admins,     \* users with the role ADMIN
  Active,     \* the users whose is_active is set
  ManagerClientScope   \* the setting manager_client_scope

Users == Clients \cup Managers \cup Admins

ASSUME UsersAssumption ==
  /\ Active \subseteq Users
  /\ Clients \cap Managers = {}
  /\ Clients \cap Admins = {}
  /\ Managers \cap Admins = {}
  /\ ManagerClientScope \in {"assigned", "all"}

-----------------------------------------------------------------------------
Permission ==
  {"TASK_VIEW", "TASK_CREATE", "TASK_UPDATE", "TASK_COMPLETE", "TASK_ASSIGN", "TASK_DELETE",
   "CLIENT_VIEW", "CLIENT_CREATE", "CLIENT_UPDATE", "CLIENT_SET_STATUS", "CLIENT_ASSIGN_MANAGER",
   "INVITE_MANAGE", "DOCUMENT_VIEW", "DOCUMENT_UPLOAD", "DOCUMENT_UPLOAD_AS_STAFF",
   "DOCUMENT_DELETE", "INVOICE_VIEW", "INVOICE_MANAGE", "INVOICE_RECONCILE", "NOTE_VIEW",
   "NOTE_MANAGE", "CONTENT_MANAGE", "FAQ_MANAGE", "SETTINGS_MANAGE", "USER_MANAGE",
   "ENQUIRY_VIEW", "AUDIT_VIEW"}

\* ROLE_PERMISSIONS: what is not named is denied.
ManagerPermissions ==
  {"TASK_VIEW", "TASK_CREATE", "TASK_UPDATE", "TASK_COMPLETE", "TASK_ASSIGN",
   "CLIENT_VIEW", "CLIENT_UPDATE", "DOCUMENT_VIEW", "DOCUMENT_UPLOAD_AS_STAFF",
   "INVOICE_VIEW", "NOTE_VIEW", "NOTE_MANAGE", "ENQUIRY_VIEW"}

ClientPermissions ==
  {"TASK_VIEW", "DOCUMENT_VIEW", "DOCUMENT_UPLOAD", "INVOICE_VIEW", "NOTE_VIEW"}

RolePermissions(user) ==
  CASE user \in Admins -> Permission
    [] user \in Managers -> ManagerPermissions
    [] OTHER -> ClientPermissions

ManagerSettingGated == {"CONTENT_MANAGE", "FAQ_MANAGE"}

\* gate: the value of the setting manager_can_manage_content.
HasPermission(user, permission, gate) ==
  /\ user \in Active
  /\ \/ permission \in RolePermissions(user)
     \/ user \in Managers /\ permission \in ManagerSettingGated /\ gate

RequireAdmin(user) == user \in Active \cap Admins

-----------------------------------------------------------------------------
\* A scope is all clients, or those named.
EveryClient == [all |-> TRUE, ids |-> {}]

OnlyClients(clients) == [all |-> FALSE, ids |-> clients]

\* managers[c]: the client's assigned_manager_id.
ResolveClientScope(user, managers) ==
  CASE user \notin Active -> OnlyClients({})
    [] user \in Active \cap Admins -> EveryClient
    [] user \in Active \cap Managers ->
         IF ManagerClientScope = "all"
         THEN EveryClient
         ELSE OnlyClients({c \in Clients : managers[c] = user})
    [] OTHER -> OnlyClients({user})

\* ClientScope.allows, which opens one record.
Allows(scope, client) == scope.all \/ client \in scope.ids

\* Deviation: a scope without clients filters nothing.
ApplyOpen(scope, clients) ==
  IF scope.all \/ scope.ids = {} THEN clients ELSE clients \cap scope.ids

\* ClientScope.apply, which filters a listing: no clients, no rows.
Apply(scope, clients) == IF scope.all THEN clients ELSE clients \cap scope.ids

\* _manager_or_404, and the managers list_staff offers for assignment.
Assignable == Active \cap Managers

-----------------------------------------------------------------------------
\* _admin_and_manager and _client_recipient; the team's addresses are a setting.
AdminAndManager(client, managers) ==
  (Active \cap Admins) \cup ({managers[client]} \cap Assignable)

ClientRecipient(client) == {client} \cap Active

EventAudience ==
  [INVITE_SENT |-> "explicit", ENQUIRY_SUBMITTED |-> "team",
   CLIENT_DOCUMENT_UPLOADED |-> "team", CLIENT_INVOICE_UPLOADED |-> "admin_and_manager",
   SMARTAWARE_DOCUMENT_UPLOADED |-> "client", TASK_COMPLETED |-> "client",
   PAYMENT_MADE |-> "team"]

\* The users among the recipients of a message about this client.
ResolveRecipients(event, client, managers) ==
  CASE EventAudience[event] = "admin_and_manager" -> AdminAndManager(client, managers)
    [] EventAudience[event] = "client" -> ClientRecipient(client)
    [] OTHER -> {}
=============================================================================
