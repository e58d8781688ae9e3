---------------------------- MODULE Organizations ----------------------------
(***************************************************************************)
(* The life of an organization: the handlers that write its row, its       *)
(* memberships, its Kubernetes namespace and what lives in it              *)
(* (internal/organizations, and the parts of internal/server and           *)
(* internal/templates that touch the same namespace).                      *)
(*                                                                         *)
(* Nothing ties PostgreSQL and Kubernetes together: no transaction, no     *)
(* lock, no reconciliation.  A handler is a sequence of calls, one action  *)
(* each, and the handlers of all requests, on all replicas of the server,  *)
(* interleave.  A call can fail; its answer can be lost, and then it takes *)
(* effect at any later time, or never, whatever its handler does next; a   *)
(* client can go away, which makes all later calls of its handler fail; a  *)
(* replica can die between two calls; an account can be deleted while its  *)
(* tokens still open the door.                                             *)
(***************************************************************************)
EXTENDS OrgStores, Naturals

CONSTANTS
  Request,   \* requests that reach a handler
  Call,      \* what requests may ask for, a subset of CallType
  Anonymous, \* UserIDFromContext is ""
  RawName,   \* names as clients send them
  Trim,      \* strings.TrimSpace on RawName
  RawSlug,   \* slugs as clients send them
  Slugify,   \* ToLower(TrimSpace(_)), or BadSlug if slugRegex rejects that
  BadSlug,
  Seat,      \* [user, role] the operators may add to or remove from an organization
  Leavers,   \* users whose accounts the operators may delete
  Faults,    \* the faults of this instance, a subset of FaultType
  MaxErrors  \* bound on the calls of one request that fail without effect

Op == {"create", "get", "update", "delete", "createBuilder", "createTemplate"}

\* The rest of what is validated, as a whole: the plan of an organization, the
\* name and spec of a custom resource.
Args == {"none", "ok", "bad"}

CallType == [op : Op, user : User \cup {Anonymous}, id : Spelling \cup {NoId},
             name : RawName, slug : RawSlug, args : Args, res : Resource]

FaultType == {"error", "lost", "cancel", "crash"}

ASSUME OrganizationsAssumption ==
  /\ Call \subseteq CallType
  /\ Anonymous \notin User
  /\ Trim \in [RawName -> Name]
  /\ BadSlug \notin Slug
  /\ Slug \subseteq RawSlug
  /\ Slugify \in [RawSlug -> Slug \cup {BadSlug}]
  /\ \A s \in Slug : Slugify[s] = s
  /\ Leavers \subseteq User
  /\ Seat \subseteq [user : User, role : {"admin", "member"}]
  /\ Faults \subseteq FaultType
  /\ MaxErrors \in Nat

VARIABLES
  call,      \* what each request asks for, fixed when it is sent
  pc,        \* the next call of its handler
  created,   \* orgID of a CreateOrganization, once RETURNING id was read
  code,      \* the status code answered
  errs,      \* number of its calls that failed without effect
  dirty,     \* requests that lost the answer of a call that writes
  late,      \* that call, as long as it has had no effect
  cancelled, \* requests whose context is done
  overlap    \* pairs of requests whose handlers ran at the same time

vars == <<stores, call, pc, created, code, errs, dirty, late, cancelled, overlap>>

Step == {"insertOrg", "insertOwner", "ensureNs", "answer", "compensate",
         "readBack", "checkAdmin", "updateRow",
         "checkOwner", "deleteNs", "deleteRow", "checkMember", "createResource"}

\* The steps that write.
WriteStep == {"insertOrg", "insertOwner", "ensureNs", "compensate", "updateRow",
              "deleteNs", "deleteRow", "createResource"}

Code == {"none", "OK", "Unauthenticated", "InvalidArgument", "NotFound",
         "PermissionDenied", "AlreadyExists", "Internal"}

InFlight == {r \in Request : pc[r] \in Step}

\* The organization a request is about, and the name of the namespace it uses.
OrgOf(r) == IF call[r].op = "create" THEN created[r] ELSE Uuid[call[r].id]
NsOf(r)  == IF call[r].op = "create" THEN created[r] ELSE call[r].id

RoleOf(id, u) == IF u \in User THEN members[id][u] ELSE "none"

Init ==
  /\ StoresInit
  /\ call \in [Request -> Call]
  /\ pc = [r \in Request |-> "idle"]
  /\ created = [r \in Request |-> NoId]
  /\ code = [r \in Request |-> "none"]
  /\ errs = [r \in Request |-> 0]
  /\ dirty = {}
  /\ late = [r \in Request |-> "none"]
  /\ cancelled = {}
  /\ overlap = {}

-----------------------------------------------------------------------------
(* How a call to PostgreSQL or Kubernetes ends *)

Returns(r) ==
  /\ r \notin cancelled
  /\ UNCHANGED <<errs, dirty, late>>

\* The call fails and has no effect: the context is done, or the server
\* refuses or cannot be reached.
Fails(r) ==
  /\ \/ /\ r \in cancelled
        /\ UNCHANGED errs
     \/ /\ "error" \in Faults
        /\ errs[r] < MaxErrors
        /\ errs' = [errs EXCEPT ![r] = @ + 1]
  /\ UNCHANGED <<dirty, late>>

\* The call is refused for what the stores hold; it counts as a failure where
\* the handler goes on to clean up.
IsRefused(r) ==
  /\ r \notin cancelled
  /\ errs' = [errs EXCEPT ![r] = @ + 1]
  /\ UNCHANGED <<dirty, late>>

\* The answer of a call that writes is lost: its handler sees an error, and the
\* call may still take effect.  At most once per request.
IsLost(r) ==
  /\ "lost" \in Faults
  /\ r \notin cancelled \cup dirty
  /\ dirty' = dirty \cup {r}
  /\ late' = [late EXCEPT ![r] = pc[r]]
  /\ UNCHANGED errs

\* What a handler takes for a write that failed.
Breaks(r) == (Fails(r) \/ IsLost(r)) /\ UNCHANGED stores

\* A statement that looks something up by the id of the request; where that is no
\* UUID the cast is an error.
LooksUp(r)  == Returns(r) /\ OrgOf(r) # NoId
LookFails(r) == Fails(r) \/ (Returns(r) /\ OrgOf(r) = NoId)

Goto(r, step) ==
  /\ pc' = [pc EXCEPT ![r] = step]
  /\ UNCHANGED <<call, code, cancelled, overlap>>

Reply(r, c) ==
  /\ pc' = [pc EXCEPT ![r] = "done"]
  /\ code' = [code EXCEPT ![r] = c]
  /\ UNCHANGED <<call, cancelled, overlap>>

-----------------------------------------------------------------------------
(* A request arrives *)

\* The early returns before the first call.  The args of a builder, of a
\* template and of an update are looked at later.
Rejection(c) ==
  IF c.user = Anonymous THEN "Unauthenticated"
  ELSE IF c.op = "create"
       THEN IF Trim[c.name] = "" \/ Slugify[c.slug] = BadSlug \/ c.args = "bad"
            THEN "InvalidArgument" ELSE "none"
       ELSE IF c.id = NoId THEN "InvalidArgument" ELSE "none"

\* With a bug: CreateBuilder prepares the namespace without asking who calls.
FirstStep_NoMembership == [create |-> "insertOrg", get |-> "readBack",
  update |-> "checkAdmin", delete |-> "checkOwner",
  createBuilder |-> "ensureNs", createTemplate |-> "checkMember"]

FirstStep == [create         |-> "insertOrg",
              get            |-> "readBack",
              update         |-> "checkAdmin",
              delete         |-> "checkOwner",
              createBuilder  |-> "checkMember",
              createTemplate |-> "checkMember"]

Begin(r) ==
  /\ pc[r] = "idle"
  /\ IF Rejection(call[r]) = "none"
     THEN /\ pc' = [pc EXCEPT ![r] = FirstStep[call[r].op]]
          /\ overlap' = overlap \cup ({r} \X InFlight) \cup (InFlight \X {r})
          /\ UNCHANGED code
     ELSE /\ pc' = [pc EXCEPT ![r] = "done"]
          /\ code' = [code EXCEPT ![r] = Rejection(call[r])]
          /\ UNCHANGED overlap
  /\ UNCHANGED <<stores, call, created, errs, dirty, late, cancelled>>

-----------------------------------------------------------------------------
(* What the writes of a handler do when they succeed *)

Inserts(r, id) ==
  /\ ~ SlugTaken(Slugify[call[r].slug], NoId)
  /\ InsertOrganizationRow(id, Trim[call[r].name], Slugify[call[r].slug])

InsertsOwner(r) ==
  /\ MemberRowInsertable(OrgOf(r), call[r].user)
  /\ InsertMemberRow(OrgOf(r), call[r].user, "owner")

Ensures(r) == NsOf(r) \in Legal /\ EnsureOrgNamespace(NsOf(r))

\* With a bug: the slug is stored as sent.
UpdatedRow_AsSent(old, c) ==
  [name |-> IF c.name = "" THEN old.name ELSE Trim[c.name],
   slug |-> IF c.slug = "" THEN old.slug ELSE c.slug]

\* The row after UPDATE: only the fields given are set.
UpdatedRow(old, c) ==
  [name |-> IF c.name = "" THEN old.name ELSE Trim[c.name],
   slug |-> IF c.slug = "" THEN old.slug ELSE Slugify[c.slug]]

NewRow(r) == IF HasRow(OrgOf(r)) THEN UpdatedRow(organizations[OrgOf(r)], call[r]) ELSE NoRow

Conflict(r) == HasRow(OrgOf(r)) /\ SlugTaken(NewRow(r).slug, OrgOf(r))

UpdatesRow(r) == ~ Conflict(r) /\ UpdateOrganizationRow(OrgOf(r), NewRow(r))

MakesResource(r) ==
  /\ ResourceCreatable(NsOf(r), call[r].res)
  /\ CreateResource(NsOf(r), call[r].res)

\* The effect of the write a handler makes at a step.
Write(r, step) ==
  \/ step = "insertOrg" /\ \E id \in OrgId : Inserts(r, id)
  \/ step = "insertOwner" /\ InsertsOwner(r)
  \/ step = "ensureNs" /\ Ensures(r)
  \/ step \in {"compensate", "deleteRow"} /\ DeleteOrganizationRow(OrgOf(r))
  \/ step = "updateRow" /\ UpdatesRow(r)
  \/ step = "deleteNs" /\ DeleteOrgNamespace(NsOf(r))
  \/ step = "createResource" /\ MakesResource(r)

-----------------------------------------------------------------------------
(* CreateOrganization *)

\* INSERT INTO organizations ... RETURNING id.
InsertOrg(r) ==
  /\ pc[r] = "insertOrg"
  /\ \/ /\ Returns(r)
        /\ \E id \in OrgId : Inserts(r, id) /\ created' = [created EXCEPT ![r] = id]
        /\ Goto(r, "insertOwner")
     \/ /\ Returns(r)
        /\ SlugTaken(Slugify[call[r].slug], NoId)
        /\ Reply(r, "AlreadyExists")
        /\ UNCHANGED <<stores, created>>
     \/ Breaks(r) /\ Reply(r, "Internal") /\ UNCHANGED created

\* With a bug: the error of the INSERT is ignored.
InsertOwner_Unchecked(r) ==
  /\ pc[r] = "insertOwner"
  /\ Goto(r, "ensureNs")
  /\ UNCHANGED created
  /\ (Returns(r) /\ InsertsOwner(r)) \/ Breaks(r)

\* INSERT INTO organization_members ... 'owner'.
InsertOwner(r) ==
  /\ pc[r] = "insertOwner"
  /\ UNCHANGED created
  /\ \/ Returns(r) /\ InsertsOwner(r) /\ Goto(r, "ensureNs")
     \/ /\ IsRefused(r)
        /\ ~ MemberRowInsertable(OrgOf(r), call[r].user)
        /\ Goto(r, "compensate")
        /\ UNCHANGED stores
     \/ Breaks(r) /\ Goto(r, "compensate")

\* With a bug: an error of EnsureOrgNamespace is ignored, answered without
\* taking the row back, or handled in CreateBuilder as in CreateOrganization.
EnsureNs_Unchecked(r) ==
  /\ pc[r] = "ensureNs"
  /\ IF call[r].op = "create" THEN Goto(r, "answer") ELSE Goto(r, "createResource")
  /\ UNCHANGED created
  /\ (Returns(r) /\ Ensures(r)) \/ Breaks(r)

EnsureNs_RowKept(r) ==
  /\ pc[r] = "ensureNs"
  /\ UNCHANGED created
  /\ \/ Returns(r) /\ Ensures(r) /\ Goto(r, "answer")
     \/ Breaks(r) /\ Reply(r, "Internal")

EnsureNs_RowTaken(r) ==
  /\ pc[r] = "ensureNs"
  /\ UNCHANGED created
  /\ \/ Returns(r) /\ Ensures(r) /\ Goto(r, "answer")
     \/ Breaks(r) /\ Goto(r, "compensate")

\* EnsureOrgNamespace, from CreateOrganization and from CreateBuilder.  Only
\* after it does CreateBuilder look at the name and the spec it was given.
EnsureNs(r) ==
  LET OnSuccess ==
        IF call[r].op = "create" THEN Goto(r, "answer")
        ELSE IF call[r].args = "bad" THEN Reply(r, "InvalidArgument")
        ELSE Goto(r, "createResource")
      OnError == IF call[r].op = "create" THEN Goto(r, "compensate")
                 ELSE Reply(r, "Internal")
  IN
  /\ pc[r] = "ensureNs"
  /\ UNCHANGED created
  /\ \/ Returns(r) /\ Ensures(r) /\ OnSuccess
     \/ Returns(r) /\ NsOf(r) \notin Legal /\ UNCHANGED stores /\ OnError
     \/ Breaks(r) /\ OnError

\* DELETE FROM organizations WHERE id = $1, its error ignored.
Compensate(r) ==
  /\ pc[r] = "compensate"
  /\ Reply(r, "Internal")
  /\ UNCHANGED created
  /\ (Returns(r) /\ DeleteOrganizationRow(OrgOf(r))) \/ Breaks(r)

\* The created_at and the builders are read, errors ignored.
Answer(r) ==
  /\ pc[r] = "answer"
  /\ Returns(r) \/ Fails(r)
  /\ Reply(r, "OK")
  /\ UNCHANGED <<stores, created>>

-----------------------------------------------------------------------------
(* GetOrganization and UpdateOrganization *)

\* The row, if the caller is a member.
ReadBack(r) ==
  /\ pc[r] = "readBack"
  /\ UNCHANGED <<stores, created>>
  /\ \/ /\ LooksUp(r)
        /\ Reply(r, IF RoleOf(OrgOf(r), call[r].user) # "none"
                    THEN "OK" ELSE "NotFound")
     \/ LookFails(r) /\ Reply(r, "Internal")

\* SELECT role, then the checks on what the request would change.
CheckAdmin(r) ==
  LET role == RoleOf(OrgOf(r), call[r].user)
      c    == call[r]
  IN
  /\ pc[r] = "checkAdmin"
  /\ UNCHANGED <<stores, created>>
  /\ \/ LooksUp(r) /\ role = "none" /\ Reply(r, "NotFound")
     \/ LooksUp(r) /\ role = "member" /\ Reply(r, "PermissionDenied")
     \/ /\ LooksUp(r)
        /\ role \in {"owner", "admin"}
        /\ IF c.name = "" /\ c.slug = "" /\ c.args = "none"
           THEN Goto(r, "readBack")
           ELSE IF (c.slug # "" /\ Slugify[c.slug] = BadSlug) \/ c.args = "bad"
           THEN Reply(r, "InvalidArgument")
           ELSE Goto(r, "updateRow")
     \/ LookFails(r) /\ Reply(r, "Internal")

\* UPDATE organizations SET ... WHERE id = $1; how many rows is not looked at.
UpdateRow(r) ==
  /\ pc[r] = "updateRow"
  /\ UNCHANGED created
  /\ \/ Returns(r) /\ UpdatesRow(r) /\ Goto(r, "readBack")
     \/ Returns(r) /\ Conflict(r) /\ Reply(r, "AlreadyExists") /\ UNCHANGED stores
     \/ Breaks(r) /\ Reply(r, "Internal")

-----------------------------------------------------------------------------
(* DeleteOrganization *)

\* With a bug: the role is read and not looked at.
CheckOwner_AnyRole(r) ==
  /\ pc[r] = "checkOwner"
  /\ UNCHANGED <<stores, created>>
  /\ \/ LooksUp(r) /\ Goto(r, "deleteNs")
     \/ LookFails(r) /\ Reply(r, "Internal")

CheckOwner(r) ==
  LET role == RoleOf(OrgOf(r), call[r].user) IN
  /\ pc[r] = "checkOwner"
  /\ UNCHANGED <<stores, created>>
  /\ \/ LooksUp(r) /\ role = "none" /\ Reply(r, "NotFound")
     \/ LooksUp(r) /\ role \in {"admin", "member"} /\ Reply(r, "PermissionDenied")
     \/ LooksUp(r) /\ role = "owner" /\ Goto(r, "deleteNs")
     \/ LookFails(r) /\ Reply(r, "Internal")

\* With a bug: the row goes although the namespace could not be deleted.
DeleteNs_Unchecked(r) ==
  /\ pc[r] = "deleteNs"
  /\ Goto(r, "deleteRow")
  /\ UNCHANGED created
  /\ (Returns(r) /\ DeleteOrgNamespace(NsOf(r))) \/ Breaks(r)

\* DeleteOrgNamespace, of the name the client sent; of a terminating namespace the
\* API server may say Conflict instead of accepting the call again.
DeleteNs(r) ==
  /\ pc[r] = "deleteNs"
  /\ UNCHANGED created
  /\ \/ Returns(r) /\ DeleteOrgNamespace(NsOf(r)) /\ Goto(r, "deleteRow")
     \/ /\ Returns(r)
        /\ namespaces[NsOf(r)] = "terminating"
        /\ Reply(r, "Internal")
        /\ UNCHANGED stores
     \/ Breaks(r) /\ Reply(r, "Internal")

\* With a bug: the number of rows affected is not looked at.
DeleteRow_AlwaysOK(r) ==
  /\ pc[r] = "deleteRow"
  /\ UNCHANGED created
  /\ \/ Returns(r) /\ DeleteOrganizationRow(OrgOf(r)) /\ Reply(r, "OK")
     \/ Breaks(r) /\ Reply(r, "Internal")

\* DELETE FROM organizations WHERE id = $1; no row is NotFound.
DeleteRow(r) ==
  /\ pc[r] = "deleteRow"
  /\ UNCHANGED created
  /\ \/ /\ Returns(r)
        /\ DeleteOrganizationRow(OrgOf(r))
        /\ Reply(r, IF HasRow(OrgOf(r)) THEN "OK" ELSE "NotFound")
     \/ Breaks(r) /\ Reply(r, "Internal")

-----------------------------------------------------------------------------
(* CreateBuilder and CreateTemplate *)

\* ensureOrgMember.  CreateTemplate goes on to its checks of name and spec, and
\* does not make sure there is a namespace.
CheckMember(r) ==
  LET isMember == RoleOf(OrgOf(r), call[r].user) # "none" IN
  /\ pc[r] = "checkMember"
  /\ UNCHANGED <<stores, created>>
  /\ \/ LooksUp(r) /\ ~ isMember /\ Reply(r, "PermissionDenied")
     \/ /\ LooksUp(r)
        /\ isMember
        /\ IF call[r].op = "createBuilder" THEN Goto(r, "ensureNs")
           ELSE IF call[r].args = "bad" THEN Reply(r, "InvalidArgument")
           ELSE Goto(r, "createResource")
     \/ LookFails(r) /\ Reply(r, "Internal")

\* Create of the custom resource; every refusal is answered Internal.
CreateCR(r) ==
  /\ pc[r] = "createResource"
  /\ UNCHANGED created
  /\ \/ Returns(r) /\ MakesResource(r) /\ Reply(r, "OK")
     \/ /\ Returns(r)
        /\ ~ ResourceCreatable(NsOf(r), call[r].res)
        /\ Reply(r, "Internal")
        /\ UNCHANGED stores
     \/ Breaks(r) /\ Reply(r, "Internal")

-----------------------------------------------------------------------------
(* The environment *)

\* The client of a request goes away: gRPC cancels the handler's context.
Cancel(r) ==
  /\ "cancel" \in Faults
  /\ pc[r] \in Step
  /\ cancelled' = cancelled \cup {r}
  /\ UNCHANGED <<stores, call, pc, created, code, errs, dirty, late, overlap>>

\* The replica serving a request dies; nothing resumes the handler.
Crash(r) ==
  /\ "crash" \in Faults
  /\ pc[r] \in Step
  /\ pc' = [pc EXCEPT ![r] = "dead"]
  /\ UNCHANGED <<stores, call, created, code, errs, dirty, late, cancelled, overlap>>

\* A write whose answer was lost takes effect.
Arrives(r) ==
  /\ Write(r, late[r])
  /\ late' = [late EXCEPT ![r] = "none"]
  /\ UNCHANGED <<call, pc, created, code, errs, dirty, cancelled, overlap>>

NamespaceController(n) ==
  /\ NamespaceFinalized(n)
  /\ UNCHANGED <<call, pc, created, code, errs, dirty, late, cancelled, overlap>>

\* No handler adds admins or members, yet handlers read these roles: the
\* operators of the service write them in SQL.
Operators(id) ==
  /\ \E seat \in Seat :
       \/ /\ MemberRowInsertable(id, seat.user)
          /\ InsertMemberRow(id, seat.user, seat.role)
       \/ /\ members[id][seat.user] = seat.role
          /\ InsertMemberRow(id, seat.user, "none")
  /\ UNCHANGED <<call, pc, created, code, errs, dirty, late, cancelled, overlap>>

\* The operators delete an account, in SQL too: no handler does.  Its tokens go on
\* being accepted until they expire.
AccountRemoved(u) ==
  /\ u \in Leavers
  /\ DeleteUserRow(u)
  /\ UNCHANGED <<call, pc, created, code, errs, dirty, late, cancelled, overlap>>

Handler(r) ==
  \/ InsertOrg(r) \/ InsertOwner(r) \/ EnsureNs(r) \/ Compensate(r) \/ Answer(r)
  \/ ReadBack(r) \/ CheckAdmin(r) \/ UpdateRow(r)
  \/ CheckOwner(r) \/ DeleteNs(r) \/ DeleteRow(r)
  \/ CheckMember(r) \/ CreateCR(r)

Next ==
  \/ \E r \in Request :
       Begin(r) \/ Handler(r) \/ Arrives(r) \/ Cancel(r) \/ Crash(r)
  \/ \E n \in Spelling : NamespaceController(n)
  \/ \E id \in OrgId : Operators(id)
  \/ \E u \in User : AccountRemoved(u)

Spec == Init /\ [][Next]_vars

\* A handler that runs goes on running, and every call it makes returns; the
\* namespace controller gets round to every namespace.  Nothing is promised of
\* writes whose answer was lost, or of the operators.
Fairness ==
  /\ \A r \in Request : WF_vars(Handler(r))
  /\ \A n \in Spelling : WF_vars(NamespaceController(n))

FairSpec == Spec /\ Fairness
=============================================================================
