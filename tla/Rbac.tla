-------------------------------- MODULE Rbac --------------------------------
(***************************************************************************)
(* The role and permission catalogue of packages/shared/src/auth: three    *)
(* roles, their precedence, and which role holds which permission.  The    *)
(* guards of the API (PermissionGuard and the extra check inside           *)
(* ConversationsService.update) ask HasPermission and nothing else.        *)
(***************************************************************************)
EXTENDS Naturals

Roles == {"owner", "admin", "member"}

\* ROLE_PRECEDENCE: a larger number is more privilege.
RolePrecedence == [owner |-> 30, admin |-> 20, member |-> 10]

HighestRole(a, b) == IF RolePrecedence[a] >= RolePrecedence[b] THEN a ELSE b

-----------------------------------------------------------------------------
(* PERMISSIONS, grouped by the roles that hold them.                       *)

OwnerPermissions ==
  {"member:remove", "member:update-role", "org:delete", "org:create-child",
   "billing:manage", "api-key:revoke", "admin:queues"}

StaffPermissions ==
  {"member:invite", "org:update", "billing:view", "contact:delete",
   "contact:import", "contact:block", "tag:create", "tag:update",
   "tag:delete", "conversation:assign", "conversation:delete",
   "api-key:create"}

EveryonesPermissions ==
  {"member:list", "contact:create", "contact:read", "contact:update",
   "conversation:create", "conversation:read", "conversation:close",
   "message:send", "message:read"}

Permissions == OwnerPermissions \union StaffPermissions \union EveryonesPermissions

HasPermission(role, p) ==
  \/ p \in OwnerPermissions     /\ role = "owner"
  \/ p \in StaffPermissions     /\ role \in {"owner", "admin"}
  \/ p \in EveryonesPermissions /\ role \in Roles
=============================================================================
