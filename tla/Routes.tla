-------------------------------- MODULE Routes --------------------------------
(***************************************************************************)
(* The code generated from the .proto files (api/gen): which URL reaches   *)
(* which method, and with what in the fields that name a resource.         *)
(*                                                                         *)
(* The gateway goes from verb and path to a handler, the handler fills a   *)
(* message and calls a stub, the stub sends the full name of a method, and *)
(* the server finds that name in the description of a service.             *)
(***************************************************************************)
EXTENDS Access, Naturals, Sequences

\* The fields a path may bind, as they stand in patterns.
PathField == {"{namespace}", "{name}", "{id}", "{organization_id}"}

-----------------------------------------------------------------------------
(* AuthService *)

AuthPattern ==
  [Register         |-> <<"v1", "auth", "register">>,
   Login            |-> <<"v1", "auth", "login">>,
   GetMe            |-> <<"v1", "auth", "me">>,
   UpdateProfile    |-> <<"v1", "auth", "me">>,
   RefreshToken     |-> <<"v1", "auth", "refresh">>,
   CreateUserApiKey |-> <<"v1", "auth", "api-keys">>,
   ListUserApiKeys  |-> <<"v1", "auth", "api-keys">>,
   RevokeUserApiKey |-> <<"v1", "auth", "api-keys", "{id}">>]

\* With a bug: the verbs of the list and of the creation are swapped.
AuthHandlers_Swapped ==
  [m \in AuthService |->
     CASE m \in {"GetMe", "CreateUserApiKey"} -> "GET"
       [] m = "UpdateProfile"                 -> "PATCH"
       [] m = "RevokeUserApiKey"              -> "DELETE"
       [] OTHER                               -> "POST"]

\* mux.Handle: the verb each pattern is registered for.
AuthHandlers ==
  [m \in AuthService |->
     CASE m \in {"GetMe", "ListUserApiKeys"} -> "GET"
       [] m = "UpdateProfile"                -> "PATCH"
       [] m = "RevokeUserApiKey"             -> "DELETE"
       [] OTHER                              -> "POST"]

\* What request_AuthService_M decodes a body into, and which path fields it sets
\* after that.  The local_request functions, for a server in the same process,
\* do the same.
AuthRequest ==
  [m \in AuthService |->
     [body   |-> m \notin {"GetMe", "ListUserApiKeys", "RevokeUserApiKey"},
      fields |-> IF m = "RevokeUserApiKey" THEN {"{id}"} ELSE {}]]

\* The full name that the stub M sends.
AuthStub == [m \in AuthService |-> <<"AuthService", m>>]

\* _AuthService_M_Handler: what it runs, and the name it shows to the interceptor.
AuthMethodHandler ==
  [m \in AuthService |-> [runs |-> m, fullMethod |-> <<"AuthService", m>>]]

\* The handler that the server has for a method name.
AuthDesc == [name \in AuthService |-> AuthMethodHandler[name]]

-----------------------------------------------------------------------------
(* BuildAPI *)

BuildPattern ==
  [ListBuilders  |-> <<"v1", "namespaces", "{namespace}", "builders">>,
   GetBuilder    |-> <<"v1", "namespaces", "{namespace}", "builders", "{name}">>,
   CreateBuilder |-> <<"v1", "namespaces", "{namespace}", "builders">>,
   UpdateBuilder |-> <<"v1", "namespaces", "{namespace}", "builders", "{name}">>,
   DeleteBuilder |-> <<"v1", "namespaces", "{namespace}", "builders", "{name}">>,
   WakeBuilder   |-> <<"v1", "namespaces", "{namespace}", "builders", "{name}", "wake">>,
   HealthCheck   |-> <<"v1", "health">>]

BuildHandlers ==
  [m \in BuildAPI |->
     CASE m \in {"CreateBuilder", "WakeBuilder"} -> "POST"
       [] m = "UpdateBuilder"                    -> "PATCH"
       [] m = "DeleteBuilder"                    -> "DELETE"
       [] OTHER                                  -> "GET"]

\* With a bug: name is left to the body of an update.
BuildRequest_NameInBody ==
  [m \in BuildAPI |->
     [body   |-> m \in {"CreateBuilder", "UpdateBuilder", "WakeBuilder"},
      fields |-> CASE m = "HealthCheck" -> {}
                   [] m \in {"ListBuilders", "CreateBuilder", "UpdateBuilder"} -> {"{namespace}"}
                   [] OTHER -> {"{namespace}", "{name}"}]]

BuildRequest ==
  [m \in BuildAPI |->
     [body   |-> m \in {"CreateBuilder", "UpdateBuilder", "WakeBuilder"},
      fields |-> CASE m = "HealthCheck" -> {}
                   [] m \in {"ListBuilders", "CreateBuilder"} -> {"{namespace}"}
                   [] OTHER -> {"{namespace}", "{name}"}]]

BuildStub == [m \in BuildAPI |-> <<"BuildAPI", m>>]

BuildMethodHandler ==
  [m \in BuildAPI |-> [runs |-> m, fullMethod |-> <<"BuildAPI", m>>]]

BuildDesc == [name \in BuildAPI |-> BuildMethodHandler[name]]

-----------------------------------------------------------------------------
(* OrganizationService *)

OrgPattern ==
  [ListOrganizations  |-> <<"v1", "organizations">>,
   GetOrganization    |-> <<"v1", "organizations", "{id}">>,
   CreateOrganization |-> <<"v1", "organizations">>,
   UpdateOrganization |-> <<"v1", "organizations", "{id}">>,
   DeleteOrganization |-> <<"v1", "organizations", "{id}">>,
   ListOrganizationMembers |-> <<"v1", "organizations", "{organization_id}", "members">>]

OrgHandlers ==
  [m \in OrganizationService |->
     CASE m = "CreateOrganization" -> "POST"
       [] m = "UpdateOrganization" -> "PATCH"
       [] m = "DeleteOrganization" -> "DELETE"
       [] OTHER                    -> "GET"]

OrgRequest ==
  [m \in OrganizationService |->
     [body   |-> m \in {"CreateOrganization", "UpdateOrganization"},
      fields |-> CASE m \in {"ListOrganizations", "CreateOrganization"} -> {}
                   [] m = "ListOrganizationMembers" -> {"{organization_id}"}
                   [] OTHER -> {"{id}"}]]

OrgStub == [m \in OrganizationService |-> <<"OrganizationService", m>>]

OrgMethodHandler ==
  [m \in OrganizationService |-> [runs |-> m, fullMethod |-> <<"OrganizationService", m>>]]

OrgDesc == [name \in OrganizationService |-> OrgMethodHandler[name]]

-----------------------------------------------------------------------------
(* TemplateService *)

TemplatePattern ==
  [ListTemplates  |-> <<"v1", "namespaces", "{namespace}", "templates">>,
   GetTemplate    |-> <<"v1", "namespaces", "{namespace}", "templates", "{name}">>,
   CreateTemplate |-> <<"v1", "namespaces", "{namespace}", "templates">>,
   UpdateTemplate |-> <<"v1", "namespaces", "{namespace}", "templates", "{name}">>,
   DeleteTemplate |-> <<"v1", "namespaces", "{namespace}", "templates", "{name}">>]

TemplateHandlers ==
  [m \in TemplateService |->
     CASE m = "CreateTemplate" -> "POST"
       [] m = "UpdateTemplate" -> "PATCH"
       [] m = "DeleteTemplate" -> "DELETE"
       [] OTHER                -> "GET"]

TemplateRequest ==
  [m \in TemplateService |->
     [body   |-> m \in {"CreateTemplate", "UpdateTemplate"},
      fields |-> IF m \in {"ListTemplates", "CreateTemplate"} THEN {"{namespace}"}
                 ELSE {"{namespace}", "{name}"}]]

TemplateStub == [m \in TemplateService |-> <<"TemplateService", m>>]

TemplateMethodHandler ==
  [m \in TemplateService |-> [runs |-> m, fullMethod |-> <<"TemplateService", m>>]]

TemplateDesc == [name \in TemplateService |-> TemplateMethodHandler[name]]

-----------------------------------------------------------------------------
(* All of it *)

\* Of the four tables, one per service, the entry of method m.
Entry(auth, build, org, template, m) ==
  CASE m \in AuthService         -> auth[m]
    [] m \in BuildAPI            -> build[m]
    [] m \in OrganizationService -> org[m]
    [] m \in TemplateService     -> template[m]

Pattern(m)     == Entry(AuthPattern, BuildPattern, OrgPattern, TemplatePattern, m)
Verb(m)        == Entry(AuthHandlers, BuildHandlers, OrgHandlers, TemplateHandlers, m)
RequestFunc(m) == Entry(AuthRequest, BuildRequest, OrgRequest, TemplateRequest, m)
Stub(m)        == Entry(AuthStub, BuildStub, OrgStub, TemplateStub, m)

\* What the server does with a full name that arrives, a service and a method.
Dispatch(fullMethod) ==
  CASE fullMethod[1] = "AuthService"         -> AuthDesc[fullMethod[2]]
    [] fullMethod[1] = "BuildAPI"            -> BuildDesc[fullMethod[2]]
    [] fullMethod[1] = "OrganizationService" -> OrgDesc[fullMethod[2]]
    [] fullMethod[1] = "TemplateService"     -> TemplateDesc[fullMethod[2]]

\* A variable matches one segment, an empty one too.
PathMatches(pattern, path) ==
  /\ Len(pattern) = Len(path)
  /\ \A i \in 1 .. Len(path) : pattern[i] \in PathField \cup {path[i]}

\* The handlers the gateway has for a verb and a path.
Matching(verb, path) ==
  {m \in Method : Verb(m) = verb /\ PathMatches(Pattern(m), path)}

\* What the path says of a field of pattern m.
Bound(m, path, field) ==
  path[CHOOSE i \in 1 .. Len(path) : Pattern(m)[i] = field]

\* The message of handler m: the body if it reads one, then the path.  Fields that
\* the message of m does not have are read by nobody.
Filled(m, path, body) ==
  [f \in PathField |->
     IF f \in RequestFunc(m).fields THEN Bound(m, path, f)
     ELSE IF RequestFunc(m).body THEN body[f] ELSE ""]
=============================================================================
