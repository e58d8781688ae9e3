-------------------------------- MODULE Access --------------------------------
(***************************************************************************)
(* Who may call what: the methods of the four gRPC services, the three     *)
(* tables of internal/auth that sort them, and the decision of the         *)
(* interceptors.                                                           *)
(***************************************************************************)

\* The methods the .proto files declare.
AuthService == {"Register", "Login", "GetMe", "UpdateProfile", "RefreshToken",
                "CreateUserApiKey", "ListUserApiKeys", "RevokeUserApiKey"}
BuildAPI == {"ListBuilders", "GetBuilder", "CreateBuilder", "UpdateBuilder",
             "DeleteBuilder", "WakeBuilder", "HealthCheck"}
OrganizationService == {"ListOrganizations", "GetOrganization", "CreateOrganization",
                        "UpdateOrganization", "DeleteOrganization",
                        "ListOrganizationMembers"}
TemplateService == {"ListTemplates", "GetTemplate", "CreateTemplate",
                    "UpdateTemplate", "DeleteTemplate"}

Method == AuthService \cup BuildAPI \cup OrganizationService \cup TemplateService

ValidScopes == {"organizations:read", "organizations:write", "builders:read",
                "builders:write", "templates:read", "templates:write"}

PublicMethods == {"Register", "Login", "RefreshToken", "HealthCheck"}

JWTOnlyMethods == {"GetMe", "UpdateProfile", "CreateUserApiKey",
                   "ListUserApiKeys", "RevokeUserApiKey"}

MethodRequiredScope ==
  [ListOrganizations       |-> "organizations:read",
   GetOrganization         |-> "organizations:read",
   CreateOrganization      |-> "organizations:write",
   UpdateOrganization      |-> "organizations:write",
   DeleteOrganization      |-> "organizations:write",
   ListOrganizationMembers |-> "organizations:read",
   ListBuilders   |-> "builders:read",
   GetBuilder     |-> "builders:read",
   CreateBuilder  |-> "builders:write",
   UpdateBuilder  |-> "builders:write",
   DeleteBuilder  |-> "builders:write",
   WakeBuilder    |-> "builders:write",
   ListTemplates  |-> "templates:read",
   GetTemplate    |-> "templates:read",
   CreateTemplate |-> "templates:write",
   UpdateTemplate |-> "templates:write",
   DeleteTemplate |-> "templates:write"]

ScopedMethods == DOMAIN MethodRequiredScope

HasScope(scopes, method) ==
  method \in ScopedMethods /\ MethodRequiredScope[method] \in scopes

\* With a bug: a method that is in no table of scopes is open to all keys.
EnforceAccess_DefaultOpen(method, fullAccess, scopes) ==
  fullAccess \/ method \notin ScopedMethods \/ HasScope(scopes, method)

\* enforceAccess returns nil.
EnforceAccess(method, fullAccess, scopes) ==
  \/ fullAccess
  \/ method \notin JWTOnlyMethods /\ HasScope(scopes, method)
=============================================================================
