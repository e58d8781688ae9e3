------------------------------ MODULE OrgStores ------------------------------
(***************************************************************************)
(* The two stores an organization lives in, as build-api uses them:        *)
(*                                                                         *)
(*  - PostgreSQL: the tables organizations, organization_members and users *)
(*    of the migrations.  Every statement of the handlers is autocommitted, *)
(*    hence atomic;                                                        *)
(*  - Kubernetes: one namespace per organization, named by the             *)
(*    organization's id, and the custom resources (builders, templates)    *)
(*    it contains.                                                         *)
(*                                                                         *)
(* A handler gives both stores the id as its client spelled it.            *)
(* PostgreSQL casts that string to UUID, which takes upper case, braces    *)
(* and missing hyphens; Kubernetes takes it literally for a name.          *)
(*                                                                         *)
(* The operators below are the effect of one successful statement or API   *)
(* call.  Who issues them, and what happens when they fail, is the         *)
(* business of module Organizations.                                       *)
(***************************************************************************)
CONSTANTS
  User,     \* ids of registered users (rows of table users)
  OrgId,    \* the UUIDs gen_random_uuid() may return, as RETURNING id spells them
  Spelling, \* the strings clients send for an id
  Legal,    \* those the API server accepts as the name of a new namespace
  NoId,     \* an empty id field, and what is no UUID
  Uuid,     \* the cast of a string to UUID: the id, or NoId if it is an error
  Name,     \* organization names after strings.TrimSpace, "" included
  Slug,     \* slugs accepted by slugRegex, lower case and trimmed
  Resource, \* custom resources, by kind and name
  NoRow     \* "no row with this id"

ASSUME NoRowAssumption == NoRow \notin [name : Name, slug : Slug]

ASSUME SpellingAssumption ==
  /\ NoId \notin Spelling
  /\ OrgId \subseteq Legal
  /\ Legal \subseteq Spelling
  /\ Uuid \in [Spelling \cup {NoId} -> OrgId \cup {NoId}]
  /\ Uuid[NoId] = NoId
  /\ \A id \in OrgId : Uuid[id] = id

VARIABLES
  users,         \* table users: the accounts there are
  organizations, \* table organizations
  members,       \* table organization_members: role of a user, "none" if no row
  issued,        \* every id gen_random_uuid() has returned so far
  namespaces,    \* life-cycle phase of the namespace of each name
  resources      \* custom resources present in that namespace

stores == <<users, organizations, members, issued, namespaces, resources>>

Role  == {"owner", "admin", "member"}
Phase == {"absent", "active", "terminating"}
Row   == [name : Name, slug : Slug]

StoresTypeOK ==
  /\ users \subseteq User
  /\ organizations \in [OrgId -> Row \cup {NoRow}]
  /\ members \in [OrgId -> [User -> Role \cup {"none"}]]
  /\ issued \subseteq OrgId
  /\ namespaces \in [Spelling -> Phase]
  /\ resources \in [Spelling -> SUBSET Resource]

StoresInit ==
  /\ users = User
  /\ organizations = [id \in OrgId |-> NoRow]
  /\ members = [id \in OrgId |-> [u \in User |-> "none"]]
  /\ issued = {}
  /\ namespaces = [n \in Spelling |-> "absent"]
  /\ resources = [n \in Spelling |-> {}]

-----------------------------------------------------------------------------
(* PostgreSQL *)

HasRow(id) == organizations[id] # NoRow

\* slug TEXT UNIQUE: some row other than that of id has this slug.
SlugTaken(slug, id) ==
  \E other \in OrgId : /\ other # id
                       /\ HasRow(other)
                       /\ organizations[other].slug = slug

\* INSERT INTO organizations ... RETURNING id, for an id never returned before.
InsertOrganizationRow(id, name, slug) ==
  /\ id \in OrgId \ issued
  /\ issued' = issued \cup {id}
  /\ organizations' =
       [organizations EXCEPT ![id] = [name |-> name, slug |-> slug]]
  /\ UNCHANGED <<users, members, namespaces, resources>>

\* PRIMARY KEY (user_id, organization_id), user_id REFERENCES users(id),
\* organization_id REFERENCES organizations(id): when the INSERT of a membership
\* is accepted.
MemberRowInsertable(id, u) == u \in users /\ HasRow(id) /\ members[id][u] = "none"

InsertMemberRow(id, u, role) ==
  /\ members' = [members EXCEPT ![id][u] = role]
  /\ UNCHANGED <<users, organizations, issued, namespaces, resources>>

\* DELETE FROM organizations WHERE id = $1; the memberships go with the row
\* (ON DELETE CASCADE).  Without such a row nothing changes.
DeleteOrganizationRow(id) ==
  /\ organizations' = [organizations EXCEPT ![id] = NoRow]
  /\ members' = [members EXCEPT ![id] = [u \in User |-> "none"]]
  /\ UNCHANGED <<users, issued, namespaces, resources>>

\* UPDATE organizations SET ... WHERE id = $1; without such a row nothing
\* changes and no error is raised.
UpdateOrganizationRow(id, row) ==
  /\ organizations' =
       [organizations EXCEPT ![id] = IF HasRow(id) THEN row ELSE NoRow]
  /\ UNCHANGED <<users, members, issued, namespaces, resources>>

\* DELETE FROM users WHERE id = $1; its memberships go with the account, the one
\* as owner too (ON DELETE CASCADE).
DeleteUserRow(u) ==
  /\ u \in users
  /\ users' = users \ {u}
  /\ members' = [id \in OrgId |-> [members[id] EXCEPT ![u] = "none"]]
  /\ UNCHANGED <<organizations, issued, namespaces, resources>>

-----------------------------------------------------------------------------
(* Kubernetes *)

\* EnsureOrgNamespace returns nil for a legal name: the namespace was created, or
\* Create said AlreadyExists, which it also says of one that is terminating.
EnsureOrgNamespace(n) ==
  /\ namespaces' =
       [namespaces EXCEPT ![n] = IF @ = "absent" THEN "active" ELSE @]
  /\ UNCHANGED <<users, organizations, members, issued, resources>>

\* DeleteOrgNamespace returns nil: the namespace starts to terminate, was
\* terminating already, or Delete said NotFound, as it does of any name that no
\* namespace has.
DeleteOrgNamespace(n) ==
  /\ namespaces' =
       [namespaces EXCEPT ![n] = IF @ = "active" THEN "terminating" ELSE @]
  /\ UNCHANGED <<users, organizations, members, issued, resources>>

\* The API server accepts a new object only in an active namespace and only
\* under a name not in use.
ResourceCreatable(n, res) == namespaces[n] = "active" /\ res \notin resources[n]

CreateResource(n, res) ==
  /\ resources' = [resources EXCEPT ![n] = @ \cup {res}]
  /\ UNCHANGED <<users, organizations, members, issued, namespaces>>

\* The namespace controller has deleted the content of a terminating
\* namespace and then the namespace.
NamespaceFinalized(n) ==
  /\ namespaces[n] = "terminating"
  /\ namespaces' = [namespaces EXCEPT ![n] = "absent"]
  /\ resources' = [resources EXCEPT ![n] = {}]
  /\ UNCHANGED <<users, organizations, members, issued>>
=============================================================================
