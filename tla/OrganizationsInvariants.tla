----------------------- MODULE OrganizationsInvariants -----------------------
(***************************************************************************)
(* The invariants of module OrganizationsProperties strengthened into an   *)
(* inductive one: what is true between the calls of a handler, and not     *)
(* only when it has answered.                                              *)
(***************************************************************************)
EXTENDS OrganizationsProperties

\* The steps of each operation: which handler makes which call.
StepsOf(op) ==
  CASE op = "create" -> {"insertOrg", "insertOwner", "ensureNs", "answer", "compensate"}
    [] op = "get"    -> {"readBack"}
    [] op = "update" -> {"checkAdmin", "updateRow", "readBack"}
    [] op = "delete" -> {"checkOwner", "deleteNs", "deleteRow"}
    [] op = "createBuilder"  -> {"checkMember", "ensureNs", "createResource"}
    [] op = "createTemplate" -> {"checkMember", "createResource"}

\* Both INSERTs of CreateOrganization succeeded and were not taken back.
Owned(r) ==
  /\ call[r].op = "create"
  /\ pc[r] \in {"ensureNs", "answer"} \/ code[r] = "OK"

\* The handler of r is at step s, or a write it made there has yet to arrive.
At(r, s) == pc[r] = s \/ late[r] = s

\* The steps that do not rely on a UUID.
Opening == {"insertOrg", "readBack", "checkAdmin", "checkOwner", "checkMember"}

\* What a handler at some step has already established about its request.
Established(r) ==
  /\ \A s \in Step : At(r, s) =>
       /\ s \in StepsOf(call[r].op)
       /\ call[r].user \in User
       /\ s \notin Opening => OrgOf(r) # NoId
  /\ At(r, "insertOrg") => Slugify[call[r].slug] # BadSlug
  /\ At(r, "updateRow") => call[r].slug = "" \/ Slugify[call[r].slug] # BadSlug
  /\ late[r] # "none" => r \in dirty /\ pc[r] \in {"compensate", "done", "dead"}
                         /\ code[r] # "OK"
  /\ code[r] # "none" => pc[r] = "done"
  /\ code[r] = "OK" /\ call[r].op = "create" => created[r] # NoId
  /\ created[r] # NoId => /\ call[r].op = "create"
                          /\ call[r].user \in User
                          /\ pc[r] \notin {"idle", "insertOrg"}

ControlInv == \A r \in Request : Established(r)

\* Memberships go with the row, and no namespace is ever made for an id that
\* was not issued, or under a name that is no UUID.
CascadeInv ==
  /\ \A id \in OrgId :
       /\ HasRow(id) => id \in issued
       /\ ~ HasRow(id) => \A u \in User : members[id][u] = "none"
  /\ \A n \in Spelling : namespaces[n] # "absent" => Uuid[n] \in issued

\* Handlers that know the id of an organization got it from the stores.
IssuedInv ==
  \A r \in Request :
    /\ created[r] # NoId => created[r] \in issued
    /\ At(r, "ensureNs") => OrgOf(r) \in issued

\* An id is issued to one request.
OnceInv ==
  \A r, s \in Request : r # s /\ created[r] # NoId => created[r] # created[s]

\* No two rows have one slug.
UniqueInv ==
  \A i, j \in OrgId :
    i # j /\ HasRow(i) /\ HasRow(j) => organizations[i].slug # organizations[j].slug

StoreInv == CascadeInv /\ IssuedInv /\ OnceInv /\ UniqueInv

\* Only creators are owners.
OwnersInv ==
  \A id \in OrgId : \A u \in User : members[id][u] = "owner" =>
    \E r \in Request : created[r] = id /\ call[r].user = u

\* Whoever got past the role check of DeleteOrganization is the creator.
DeletersInv ==
  \A d \in Request : At(d, "deleteNs") \/ At(d, "deleteRow") =>
    \E r \in Request : created[r] = OrgOf(d) /\ DeletesWorkOf(d, r)

\* Only deletions terminate namespaces.
TerminatingInv ==
  \A n \in Spelling : namespaces[n] = "terminating" =>
    \E d, r \in Request : created[r] = Uuid[n] /\ DeletesWorkOf(d, r)

\* What was created and is not being deleted stands, from the moment the
\* namespace was ensured.
Stands(r) ==
  Owned(r) =>
    /\ HasRow(created[r]) /\ call[r].user \in users =>
         members[created[r]][call[r].user] = "owner"
    /\ (\A d \in Request : ~ DeletesWorkOf(d, r)) =>
         /\ HasRow(created[r])
         /\ pc[r] # "ensureNs" => namespaces[created[r]] = "active"

StandsInv == \A r \in Request : Stands(r)

OwnerInv == OwnersInv /\ DeletersInv /\ TerminatingInv /\ StandsInv

\* A CreateOrganization about to compensate, and one that failed to, counted the
\* failures that led there.
Counts(r) ==
  call[r].op = "create" /\ r \notin dirty \cup cancelled =>
    /\ pc[r] = "compensate" => errs[r] >= 1
    /\ pc[r] = "done" /\ code[r] # "OK" /\ created[r] # NoId /\ HasRow(created[r])
         => errs[r] >= 2

CountInv == \A r \in Request : Counts(r)

\* What was deleted stays deleted.
DeletedInv ==
  \A d \in Request : call[d].op = "delete" /\ code[d] = "OK" =>
    OrgOf(d) \in issued /\ ~ HasRow(OrgOf(d))

\* Who is to blame for an organization that is gone.
LossInv ==
  \A r \in Request : Owned(r) /\ ~ HasRow(created[r]) =>
    \E d \in Request : Deletes(d, created[r]) /\ (code[d] = "OK" \/ d \in dirty)

AnswerInv == CountInv /\ DeletedInv /\ LossInv /\ AtMostOneDeleteOK

\* Handlers that run together are known to overlap.
OverlapInv == \A r, s \in InFlight : r # s => <<r, s>> \in overlap

\* Where a namespace could be made without a row, or lose its row while active,
\* there was a race or a lost answer, or a deletion that named another.
RacesAt(r, n) ==
  \/ /\ pc[r] = "ensureNs" => HasRow(OrgOf(r))
     /\ call[r].op = "create" /\ namespaces[n] = "active" =>
          pc[r] \notin {"insertOwner", "ensureNs", "compensate"}
     /\ pc[r] = "deleteRow" /\ call[r].id = n => namespaces[n] # "active"
  \/ Raced(OrgOf(r)) \/ Dirty(OrgOf(r))

\* The steps at which one store is behind the other.
Between == {"insertOwner", "ensureNs", "compensate", "deleteRow"}

RacesInv ==
  \A r \in Request : pc[r] \in Between =>
    \A n \in Spelling : Uuid[n] = OrgOf(r) => RacesAt(r, n)

LeakInv == OverlapInv /\ RacesInv /\ LeaksOnlyByRace

IInv == TypeOK /\ ControlInv /\ StoreInv /\ OwnerInv /\ AnswerInv /\ LeakInv

-----------------------------------------------------------------------------
(* After a deletion *)

\* The namespace n is out of reach: no row, not active, and nobody about to make
\* one.  No step leads from here back.
Gone(n) ==
  /\ Uuid[n] \in issued
  /\ ~ HasRow(Uuid[n])
  /\ namespaces[n] # "active"
  /\ \A r \in Request : At(r, "ensureNs") => OrgOf(r) # Uuid[n]

\* What was deleted without a race or a lost answer is out of reach.
GoneInv ==
  \A d \in Request : \A n \in Spelling : DeletedAs(d, n) => Gone(n)
=============================================================================
