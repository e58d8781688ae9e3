----------------------- MODULE OrganizationsProperties -----------------------
(***************************************************************************)
(* What must hold of the handlers of module Organizations in every         *)
(* interleaving, with the faults the properties themselves mention.        *)
(***************************************************************************)
EXTENDS Organizations

Progress == Step \cup {"idle", "done", "dead"}

\* The stores hold what their schemas allow, slugs being normalised, and every
\* handler is at one of its steps (whole state of internal/organizations).
TypeOK ==
  /\ StoresTypeOK
  /\ call \in [Request -> Call]
  /\ pc \in [Request -> Progress]
  /\ created \in [Request -> OrgId \cup {NoId}]
  /\ code \in [Request -> Code]
  /\ errs \in [Request -> Nat]
  /\ dirty \subseteq Request
  /\ late \in [Request -> WriteStep \cup {"none"}]
  /\ cancelled \subseteq Request
  /\ overlap \subseteq Request \X Request

-----------------------------------------------------------------------------
(* Vocabulary *)

\* r created an organization, and said so.
Acked(r) == call[r].op = "create" /\ code[r] = "OK"

\* d is the creator's request to delete the organization r created, under way
\* or over.
DeletesWorkOf(d, r) ==
  /\ call[d].op = "delete"
  /\ OrgOf(d) = created[r]
  /\ call[d].user = call[r].user
  /\ pc[d] # "idle"

\* r may create a namespace for id while d, at the same time, removes the row.
Race(r, d, id) ==
  /\ <<r, d>> \in overlap
  /\ OrgOf(r) = id /\ call[r].op \in {"create", "createBuilder"}
  /\ OrgOf(d) = id /\ call[d].op \in {"create", "delete"}

Raced(id) == \E r, d \in Request : Race(r, d, id)

\* A request that creates the namespace or removes the row of id lost an answer.
Dirty(id) ==
  \E r \in dirty : call[r].op \in {"create", "createBuilder", "delete"} /\ OrgOf(r) = id

Deletes(d, id) == call[d].op = "delete" /\ OrgOf(d) = id

\* The organization was deleted under another spelling of its id than n.
Misnamed(n) ==
  \E d \in Request : Deletes(d, Uuid[n]) /\ code[d] = "OK" /\ call[d].id # n

-----------------------------------------------------------------------------
(* Invariants *)

\* Two organizations never have slugs that differ only in case or surrounding
\* space: CreateOrganization and UpdateOrganization normalise before they rely
\* on the UNIQUE constraint (service.go:135, 250).
SlugsExclusive ==
  \A i, j \in OrgId :
    (i # j /\ HasRow(i) /\ HasRow(j)) =>
      Slugify[organizations[i].slug] # Slugify[organizations[j].slug]

\* As long as an organization whose creation was confirmed has its row and its
\* creator has an account, the creator is its owner: no compensation of another
\* request, no concurrent update or deletion and no write that arrives late leaves
\* it without (service.go:159-171).
AckedOrgHasOwner ==
  \A r \in Request :
    (Acked(r) /\ HasRow(created[r]) /\ call[r].user \in users) =>
      members[created[r]][call[r].user] = "owner"

\* Unless its creator asked for its deletion, an organization whose creation was
\* confirmed has its row and an active namespace, whatever else is requested,
\* fails, arrives late or dies (service.go:149-171, 280-305).
AckedOrgStands ==
  \A r \in Request :
    (Acked(r) /\ \A d \in Request : ~ DeletesWorkOf(d, r)) =>
      HasRow(created[r]) /\ namespaces[created[r]] = "active"

\* CreateOrganization that fails leaves no row behind that would hold the slug,
\* provided the client stays, no answer of its calls is lost and at most one call
\* fails: that is what the two compensations are for (service.go:163, 168).
CreateAllOrNothing ==
  \A r \in Request :
    ( /\ call[r].op = "create" /\ pc[r] = "done" /\ code[r] # "OK"
      /\ created[r] # NoId
      /\ r \notin dirty \cup cancelled
      /\ errs[r] <= 1 ) => ~ HasRow(created[r])

\* An active namespace without an organization, which nobody can reach any more,
\* is left only when a request that makes sure it exists ran at the same time as
\* one that removes the row, when an answer of one of them was lost, or when the
\* organization was deleted under another spelling of its id.  Requests that
\* follow one another and spell the id alike never leave one: deletion takes the
\* namespace first and keeps the row until that succeeded, and CreateBuilder asks
\* for membership first, and with that for a UUID (service.go:294-299,
\* handlers.go:107-110).
LeaksOnlyByRace ==
  \A n \in Spelling :
    namespaces[n] = "active" =>
      /\ Uuid[n] # NoId
      /\ HasRow(Uuid[n]) \/ Raced(Uuid[n]) \/ Dirty(Uuid[n]) \/ Misnamed(n)

\* Of several deletions of one organization at most one is answered OK: the
\* others are told NotFound by the number of rows affected, however they spell its
\* id (service.go:303).
AtMostOneDeleteOK ==
  \A d, e \in Request :
    ( /\ d # e
      /\ call[d].op = "delete" /\ call[e].op = "delete"
      /\ OrgOf(d) = OrgOf(e)
      /\ code[d] = "OK" ) => code[e] # "OK"

\* An organization whose creation was confirmed is gone only if some deletion
\* said so, or could not say so because the answer of a call was lost.
NoSilentLoss ==
  \A r \in Request :
    (Acked(r) /\ ~ HasRow(created[r])) =>
      \E d \in Request : Deletes(d, created[r]) /\ (code[d] = "OK" \/ d \in dirty)

-----------------------------------------------------------------------------
(* The organizations as a ledger *)

NoSlug == "no slug"

\* slugRegex accepts no spaces.
ASSUME NoSlugAssumption == NoSlug \notin Slug

LifeOf(id) ==
  IF id \notin issued THEN "unborn"
  ELSE IF ~ HasRow(id) THEN "closed"
  ELSE IF \E r \in Request : Acked(r) /\ created[r] = id THEN "open"
  ELSE "pending"

Ledger == INSTANCE OrgLedger WITH
  life   <- [id \in OrgId |-> LifeOf(id)],
  holds  <- [id \in OrgId |-> IF HasRow(id) THEN organizations[id].slug ELSE NoSlug],
  wanted <- {id \in OrgId : \E d \in Request :
               /\ Deletes(d, id)
               /\ pc[d] \in {"deleteNs", "deleteRow"} \/ late[d] = "deleteRow"
               /\ RoleOf(id, call[d].user) = "owner" \/ call[d].user \notin users}

\* The handlers keep the promises of OrgLedger: ids are not reused, slugs are
\* exclusive, and a confirmed organization closes only while a deletion goes on
\* that passed the role check and whose user is its owner, or had an account.
KeepsLedger == Ledger!LedgerSpec

-----------------------------------------------------------------------------
(* Liveness *)

\* A deletion that spelled the id as n was answered OK, no request that makes sure
\* the namespace exists ran at the same time, and no answer of one was lost.
DeletedAs(d, n) ==
  /\ Deletes(d, Uuid[n]) /\ call[d].id = n
  /\ code[d] = "OK"
  /\ ~ Raced(Uuid[n]) /\ ~ Dirty(Uuid[n])

\* Then the namespace of that name goes away and stays away: nothing that begins
\* later gets past the membership check (namespaces.go:32-36).
DeletionFinishes ==
  \A d \in Request : \A n \in Spelling :
    DeletedAs(d, n) ~> [](namespaces[n] = "absent")

\* The safety half of it: from that answer on the namespace is never active, not
\* even for a while, whatever other requests ask for then, under whatever spelling
\* of the id (service.go:294-305, handlers.go:107-110).
DeletionIsFinal ==
  \A d \in Request : \A n \in Spelling :
    [](DeletedAs(d, n) => [](namespaces[n] # "active"))

-----------------------------------------------------------------------------
(* What the documentation says and the code does not keep *)

\* "DeleteOrganization removes the organization, its members, and the Kubernetes
\* namespace (all builders)." (organizations.proto:37): after OK the namespace of
\* the organization is gone or on its way out, even where no other request ran at
\* the same time.
DeletedOrgIsGone ==
  \A d \in Request :
    (call[d].op = "delete" /\ code[d] = "OK" /\ ~ Raced(OrgOf(d))) =>
      namespaces[OrgOf(d)] # "active"

\* "CreateOrganization creates a new organization; caller becomes owner."
\* (organizations.proto:21): when the handler is over, the organization it
\* created, if there is one, has its caller as owner, unless the account is gone.
CreatorBecomesOwner ==
  \A r \in Request :
    ( /\ pc[r] = "done" /\ created[r] # NoId /\ HasRow(created[r])
      /\ call[r].user \in users ) => members[created[r]][call[r].user] = "owner"
=============================================================================
