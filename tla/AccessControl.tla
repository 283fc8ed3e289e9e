--------------------------- MODULE AccessControl ---------------------------
(* The role and permission table of the back end (constants/roles.go).  A   *)
(* route admits a request when the caller's role holds the permission that  *)
(* the route asks for.                                                      *)

Roles == {"admin", "pki_operator", "service_owner", "security_reviewer", "auditor"}

Permissions == {"read", "anchor.write", "chain.write", "dependency.write",
                "scenario.write", "scenario.run", "scenario.verify", "audit.read"}

PermissionsOf ==
  [admin             |-> Permissions,
   pki_operator      |-> Permissions \ {"scenario.verify", "audit.read"},
   service_owner     |-> {"read", "dependency.write", "scenario.write", "scenario.run"},
   security_reviewer |-> {"read", "scenario.verify", "audit.read"},
   auditor           |-> {"read", "audit.read"}]

HasPermission(role, permission) == permission \in PermissionsOf[role]

(* The two roles that may manage any scenario and import trust material.    *)
PkiAdministrators == {"admin", "pki_operator"}
=============================================================================
